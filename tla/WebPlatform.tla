----------------------------- MODULE WebPlatform -----------------------------
(***************************************************************************)
(* The browser build: loading the wasm engine (wasm-bridge-client.ts), a   *)
(* receive from the call to the saved files (platform-api.ts,              *)
(* web-save-location.ts), the event bus that replaces the shell's events   *)
(* (web-event-bus.ts) and the layout of the store-only ZIP (web-zip.ts).   *)
(* A file on disk is a name and a conflict number; its content is named    *)
(* by who wrote it.  The engine and the browser are external.              *)
(***************************************************************************)
EXTENDS Integers, Sequences, FiniteSets

CONSTANTS
  Receives,        \* receive calls
  Names,           \* names of received files
  MaxConflict,     \* conflict numbers tried (10 000 in the code)
  Handlers,        \* event handlers
  MaxEntries,      \* entries of an archive
  W16, W32         \* 2^16 and 2^32 of the archive's fields

ASSUME WebAssumption ==
  /\ MaxConflict \in Nat \ {0} /\ MaxEntries \in Nat \ {0}
  /\ W16 \in Nat \ {0} /\ W32 \in Nat \ {0}

VARIABLES
  winit,           \* initPromise: "none", "pending", "ready"
  wloads,          \* loads of the wasm module under way
  wcallbacks,      \* event callbacks installed in the module
  wcall,           \* each receive: stage, its files, position, chosen name
  wdir,            \* the chosen directory: file -> content, free if absent
  whandle,         \* cachedDirHandle
  wdownloads,      \* browser downloads triggered
  wcompleted,      \* receives whose receive-completed was dispatched
  wshared,         \* history: two receives were saving at once
  bmap,            \* the bus: the set registered for the event, 0 if none
  bsets,           \* the handler sets ever created
  bsubs,           \* live subscriptions: handler -> its set, 0 if none
  zentries,        \* entries added: name length and size
  zoffset,         \* the running offset
  zcentral,        \* offsets written to the central directory
  zend             \* the end record, <<>> before it is written

webVars == <<winit, wloads, wcallbacks, wcall, wdir, whandle, wdownloads,
             wcompleted, wshared>>
busVars == <<bmap, bsets, bsubs>>
zipVars == <<zentries, zoffset, zcentral, zend>>
wVars == <<webVars, busVars, zipVars>>

free == <<>>
Slots == Names \X (0..MaxConflict)
Idle == [stage |-> "idle", files |-> <<>>, at |-> 0, slot |-> 0]

WInit ==
  /\ winit = "none" /\ wloads = 0 /\ wcallbacks = 0
  /\ wcall = [c \in Receives |-> Idle]
  /\ \E kept \in SUBSET {<<n, 0>> : n \in Names} :
       wdir = [s \in Slots |-> IF s \in kept THEN <<"kept", 0>> ELSE free]
  /\ whandle \in BOOLEAN /\ wdownloads = 0 /\ wcompleted = {} /\ wshared = FALSE
  /\ bmap = 0 /\ bsets = <<>> /\ bsubs = [h \in Handlers |-> 0]
  /\ zentries = <<>> /\ zoffset = 0 /\ zcentral = <<>> /\ zend = <<>>

-----------------------------------------------------------------------------
(* The engine is loaded on first use. *)

EnsureWasmBridge ==
  /\ winit' = IF winit = "none" THEN "pending" ELSE winit
  /\ wloads' = IF winit = "none" THEN wloads + 1 ELSE wloads

InvokeReceive(c) ==
  /\ wcall[c].stage = "idle" /\ wloads < 3
  /\ EnsureWasmBridge
  /\ \E fs \in {<<n>> : n \in Names} \cup (Names \X Names) :
       wcall' = [wcall EXCEPT ![c] = [Idle EXCEPT !.stage = "bridge", !.files = fs]]
  /\ UNCHANGED <<wcallbacks, wdir, whandle, wdownloads, wcompleted, wshared>>

LoadWasmBridge ==
  /\ wloads > 0
  /\ wloads' = wloads - 1
  /\ \/ winit' = "ready" /\ wcallbacks' = wcallbacks + 1 /\ UNCHANGED wcall
     \/ /\ winit' = "none"
        /\ wcall' = [c \in Receives |->
             IF wcall[c].stage = "bridge" THEN [Idle EXCEPT !.stage = "failed"]
             ELSE wcall[c]]
        /\ UNCHANGED wcallbacks
  /\ UNCHANGED <<wdir, whandle, wdownloads, wcompleted, wshared>>

-----------------------------------------------------------------------------
(* A receive. *)

\* The engine's receive_file ends: the files are in memory, or an error.
EngineReceives(c) ==
  /\ winit = "ready" /\ wcall[c].stage = "bridge"
  /\ wcall' = [wcall EXCEPT ![c].stage = "received"]
  /\ UNCHANGED <<winit, wloads, wcallbacks, wdir, whandle, wdownloads,
                 wcompleted, wshared>>

\* A step of the call throws.  A write that fails after getFileHandle
\* leaves the file it created, empty.
CallFails(c) ==
  /\ wcall[c].stage \in {"bridge", "received", "resolve", "write"}
  /\ winit = "ready"
  /\ \/ UNCHANGED wdir
     \/ /\ wcall[c].stage = "write"
        /\ LET s == <<wcall[c].files[wcall[c].at], wcall[c].slot>> IN
             wdir' = [wdir EXCEPT ![s] = IF @ = free THEN <<c, 0>> ELSE @]
  /\ wcall' = [wcall EXCEPT ![c].stage = "failed"]
  /\ UNCHANGED <<winit, wloads, wcallbacks, whandle, wdownloads, wcompleted,
                 wshared>>

Saving(c) == wcall[c].stage \in {"resolve", "write"}

\* writeReceivedCollection: into the directory when its permission is
\* granted, else one browser download (a file, or an archive of them).
WriteReceivedCollection(c) ==
  /\ wcall[c].stage = "received"
  /\ \/ /\ whandle
        /\ wcall' = [wcall EXCEPT ![c].stage = "resolve", ![c].at = 1]
        /\ wshared' = (wshared \/ \E d \in Receives \ {c} : Saving(d))
        /\ UNCHANGED wdownloads
     \/ /\ wcall' = [wcall EXCEPT ![c].stage = "downloaded"]
        /\ wdownloads' = wdownloads + 1
        /\ UNCHANGED wshared
  /\ UNCHANGED <<winit, wloads, wcallbacks, wdir, whandle, wcompleted>>

\* Mutant: the numbered name is taken without looking whether it exists.
SecondNameUnchecked(c, k) ==
  /\ wcall[c].stage = "resolve"
  /\ LET n == wcall[c].files[wcall[c].at] IN
       /\ k = IF wdir[<<n, 0>>] = free THEN 0 ELSE 1
       /\ wcall' = [wcall EXCEPT ![c].stage = "write", ![c].slot = k]
  /\ UNCHANGED <<winit, wloads, wcallbacks, wdir, whandle, wdownloads,
                 wcompleted, wshared>>

\* The first conflict number whose name does not exist.
ResolveWritableFileName(c, k) ==
  /\ wcall[c].stage = "resolve"
  /\ LET n == wcall[c].files[wcall[c].at] IN
       /\ wdir[<<n, k>>] = free /\ \A j \in 0..(k - 1) : wdir[<<n, j>>] # free
       /\ wcall' = [wcall EXCEPT ![c].stage = "write", ![c].slot = k]
  /\ UNCHANGED <<winit, wloads, wcallbacks, wdir, whandle, wdownloads,
                 wcompleted, wshared>>

\* getFileHandle(create), write, close: an existing file would be replaced.
WriteBytes(c) ==
  /\ wcall[c].stage = "write"
  /\ LET n == wcall[c].files[wcall[c].at] IN
       wdir' = [wdir EXCEPT ![<<n, wcall[c].slot>>] = <<c, wcall[c].at>>]
  /\ wcall' = [wcall EXCEPT
       ![c].stage = IF wcall[c].at < Len(wcall[c].files) THEN "resolve" ELSE "saved",
       ![c].at = @ + 1]
  /\ UNCHANGED <<winit, wloads, wcallbacks, whandle, wdownloads, wcompleted,
                 wshared>>

\* Mutant: completion is announced as soon as the engine has the bytes.
CompletesOnArrival(c) ==
  /\ wcall[c].stage \in {"received", "saved", "downloaded"} /\ c \notin wcompleted
  /\ wcompleted' = wcompleted \cup {c}
  /\ UNCHANGED <<winit, wloads, wcallbacks, wcall, wdir, whandle, wdownloads,
                 wshared>>

DispatchCompleted(c) ==
  /\ wcall[c].stage \in {"saved", "downloaded"} /\ c \notin wcompleted
  /\ wcompleted' = wcompleted \cup {c}
  /\ UNCHANGED <<winit, wloads, wcallbacks, wcall, wdir, whandle, wdownloads,
                 wshared>>

PickDownloadDirectory ==
  /\ ~whandle
  /\ whandle' = TRUE
  /\ UNCHANGED <<winit, wloads, wcallbacks, wcall, wdir, wdownloads,
                 wcompleted, wshared>>

WebReceiveNext ==
  /\ \/ LoadWasmBridge \/ PickDownloadDirectory
     \/ \E c \in Receives :
          \/ InvokeReceive(c) \/ EngineReceives(c) \/ CallFails(c)
          \/ WriteReceivedCollection(c) \/ WriteBytes(c) \/ DispatchCompleted(c)
          \/ \E k \in 0..MaxConflict : ResolveWritableFileName(c, k)
  /\ UNCHANGED <<busVars, zipVars>>

-----------------------------------------------------------------------------
(* The event bus, for one event. *)

SubscribeWebEvent(h) ==
  /\ bsubs[h] = 0
  /\ IF bmap = 0
     THEN /\ Len(bsets) < 4
          /\ bsets' = Append(bsets, {h}) /\ bmap' = Len(bsets) + 1
          /\ bsubs' = [bsubs EXCEPT ![h] = Len(bsets) + 1]
     ELSE /\ bsets' = [bsets EXCEPT ![bmap] = @ \cup {h}]
          /\ bsubs' = [bsubs EXCEPT ![h] = bmap]
          /\ UNCHANGED bmap

\* The function subscribe returned; callers use it once.
Unsubscribe(h) ==
  /\ bsubs[h] # 0
  /\ bsets' = [bsets EXCEPT ![bsubs[h]] = @ \ {h}]
  /\ bmap' = IF bsets[bsubs[h]] \ {h} = {} THEN 0 ELSE bmap
  /\ bsubs' = [bsubs EXCEPT ![h] = 0]

\* The handlers the loop calls, none of them throwing: a throw ends the loop.
DispatchReaches == IF bmap = 0 THEN {} ELSE bsets[bmap]

BusNext ==
  /\ \E h \in Handlers : SubscribeWebEvent(h) \/ Unsubscribe(h)
  /\ UNCHANGED <<webVars, zipVars>>

-----------------------------------------------------------------------------
(* The archive: local header and bytes of each entry, then the directory. *)

LocalSize(e) == 30 + e.name + e.size
CentralSize(e) == 46 + e.name

AddEntry(e) ==
  /\ Len(zentries) < MaxEntries /\ zend = <<>>
  /\ zentries' = Append(zentries, e)
  /\ zcentral' = Append(zcentral, zoffset % W32)
  /\ zoffset' = zoffset + LocalSize(e)
  /\ UNCHANGED zend

SumOver(s, F(_)) ==
  LET sum[n \in 0..Len(s)] == IF n = 0 THEN 0 ELSE sum[n - 1] + F(s[n])
  IN  sum[Len(s)]

BuildEndOfCentralDirectory ==
  /\ zentries # <<>> /\ zend = <<>>
  /\ zend' = <<Len(zentries) % W16, SumOver(zentries, CentralSize) % W32, zoffset % W32>>
  /\ UNCHANGED <<zentries, zoffset, zcentral>>

ZipNext ==
  /\ \/ \E e \in [name : 1..2, size : {0, 1, 100}] : AddEntry(e)
     \/ BuildEndOfCentralDirectory
  /\ UNCHANGED <<webVars, busVars>>

-----------------------------------------------------------------------------
WTypeOK ==
  /\ winit \in {"none", "pending", "ready"} /\ wloads \in 0..3
  /\ DOMAIN wcall = Receives /\ DOMAIN wdir = Slots
  /\ whandle \in BOOLEAN /\ wcompleted \subseteq Receives
  /\ bmap \in 0..Len(bsets) /\ Len(zcentral) = Len(zentries)

(***************************************************************************)
(* The engine is loaded once: however many calls arrive before it is       *)
(* ready, and after a failed load, one load runs at a time and one event   *)
(* callback is installed, so no event is dispatched twice                  *)
(* (ensureWasmBridge keeps the promise of the load, not its result).       *)
(***************************************************************************)
OneBridge == wloads =< 1 /\ wcallbacks =< 1

(***************************************************************************)
(* A receive never replaces a file: neither one that was in the directory, *)
(* nor one of the same name in the same collection                         *)
(* (resolveWritableFileName).  Two receives that save at the same time are *)
(* the exception (wshared): the name is free when it is chosen, not when   *)
(* it is written.                                                          *)
(***************************************************************************)
NoFileReplaced ==
  [][~wshared => \A s \in Slots : wdir[s] # free => wdir'[s] = wdir[s]]_wVars

(***************************************************************************)
(* receive-completed is dispatched only for a receive all of whose files   *)
(* are in the directory or were handed to the browser: an error on the way *)
(* (a full disk, a revoked permission) is never reported as done.          *)
(***************************************************************************)
CompletedMeansSaved ==
  ~wshared =>
    \A c \in wcompleted :
      \/ wcall[c].stage = "downloaded"
      \/ \A i \in DOMAIN wcall[c].files : \E s \in Slots : wdir[s] = <<c, i>>

(***************************************************************************)
(* Every handler that is subscribed is reached by a dispatch, whoever      *)
(* subscribed and left before it (unless a handler before it throws, which *)
(* ends the loop of dispatchWebEvent).                                     *)
(***************************************************************************)
LiveHandlersReached == \A h \in Handlers : bsubs[h] # 0 => h \in DispatchReaches

(***************************************************************************)
(* The archive can be read: each directory entry points at the byte where  *)
(* its local header begins and the end record at the directory, as long as *)
(* the archive fits the 32-bit and the count the 16-bit fields (larger     *)
(* collections wrap: the code has no ZIP64 and no check).                  *)
(***************************************************************************)
ZipReadable ==
  zend # <<>> /\ SumOver(zentries, LocalSize) < W32 /\ Len(zentries) < W16
    => /\ \A i \in DOMAIN zentries :
            zcentral[i] = SumOver(SubSeq(zentries, 1, i - 1), LocalSize)
       /\ zend[1] = Len(zentries)
       /\ zend[3] = SumOver(zentries, LocalSize)

(***************************************************************************)
(* What the browser build promises in place of the shell: one engine, a    *)
(* completion only for files that are saved, events that reach every       *)
(* handler, and archives that can be read (the four parts above).          *)
(***************************************************************************)
BrowserBuildHolds ==
  OneBridge /\ CompletedMeansSaved /\ LiveHandlersReached /\ ZipReadable
=============================================================================
