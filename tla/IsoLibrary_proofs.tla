------------------------ MODULE IsoLibrary_proofs ------------------------
(***************************************************************************)
(* Proofs about IsoLibrary for every set of clients and names, every bound *)
(* and every choice of Requests, Faults and Overlap.                       *)
(***************************************************************************)
EXTENDS IsoLibrary, TLAPS

---------------------------------------------------------------------------
(* What the operations of the table and the directory preserve *)

LEMMA InsertType ==
  ASSUME RowsType, NEW f \in Filenames, NEW s \in {"downloading", "ready"},
         NEW n \in Inodes \union {None}, InsertRow(f, s, n)
  PROVE  RowsType' /\ nextId \in Ids
<1>1. nextId \in Ids
  BY DEF InsertRow
<1>2. nextId' \in 1..(MaxTransfers + 1)
  BY <1>1, BoundsAssumption DEF InsertRow, Ids
<1>3. [status |-> s, filename |-> f, sha |-> n] \in Rows
  BY DEF Rows
<1>4. rows' \in [Ids -> Rows]
  BY <1>1, <1>3 DEF RowsType, InsertRow
<1>5. QED
  BY <1>1, <1>2, <1>4 DEF RowsType

LEMMA UpdatedRow ==
  ASSUME RowsType, NEW i \in Ids, NEW s, NEW n, Exists(i), UpdateRow(i, s, n)
  PROVE  /\ rows'[i] = [status |-> s, filename |-> rows[i].filename, sha |-> n]
         /\ rows[i].filename \in Filenames
BY DEF RowsType, UpdateRow, Exists, Rows, NoRow

LEMMA UpdateType ==
  ASSUME RowsType, NEW i \in Ids, NEW s \in {"ready", "error"},
         NEW n \in Inodes \union {None}, UpdateRow(i, s, n)
  PROVE  RowsType'
<1>1. CASE Exists(i)
  <2>1. [status |-> s, filename |-> rows[i].filename, sha |-> n] \in Rows
    BY <1>1, UpdatedRow DEF Rows
  <2>2. QED
    BY <1>1, <2>1 DEF RowsType, UpdateRow
<1>2. CASE ~Exists(i)
  BY <1>2 DEF RowsType, UpdateRow
<1>3. QED
  BY <1>1, <1>2

LEMMA DeleteType ==
  ASSUME RowsType, NEW i \in Ids, DeleteISO(i)
  PROVE  RowsType'
BY DEF RowsType, DeleteISO, Rows

LEMMA CreateType ==
  ASSUME FilesType, NEW p \in Paths, CreateFile(p)
  PROVE  FilesType' /\ disk'[p] \in Inodes
BY BoundsAssumption DEF FilesType, CreateFile, Inodes

LEMMA CompleteType ==
  ASSUME FilesType, NEW n \in Inodes, CompleteFile(n)
  PROVE  FilesType'
BY DEF FilesType, CompleteFile

LEMMA UnlinkType ==
  ASSUME FilesType, NEW p, Unlink(p)
  PROVE  FilesType'
BY DEF FilesType, Unlink

\* The locals of a request that goes on to a state that needs no more of them.
LEMMA GotoType ==
  ASSUME req \in [Clients -> Request], NEW c \in Clients, NEW pc \in RequestPcs, Goto(c, pc),
         pc # "idle" => req[c].file \in Filenames,
         pc \in {"copy", "insert"} => req[c].ino \in Inodes,
         pc \in {"reread", "accept", "start", "cancel", "drop", "serve", "stream"}
            => req[c].id \in Ids
  PROVE  req' \in [Clients -> Request]
BY DEF Goto, Request

LEMMA ReturnType ==
  ASSUME req \in [Clients -> Request], NEW c \in Clients, Return(c)
  PROVE  req' \in [Clients -> Request]
BY DEF Return, Request, Idle, RequestPcs

LEMMA DownloadGotoType ==
  ASSUME dl \in [Ids -> Download], NEW i \in Ids, NEW pc \in DownloadPcs, DownloadGoto(i, pc),
         dl[i].file \in Filenames,
         pc \in {"fetch", "fetched", "commit"} => dl[i].ino \in Inodes
  PROVE  dl' \in [Ids -> Download]
BY DEF DownloadGoto, Download

LEMMA StreamType ==
  ASSUME NEW r \in Request, NEW n \in Inodes, r.file \in Filenames, r.id \in Ids
  PROVE  [r EXCEPT !.pc = "stream", !.ino = n] \in Request
BY DEF Request, RequestPcs

LEMMA FetchType ==
  ASSUME NEW d \in Download, NEW n \in Inodes, d.file \in Filenames
  PROVE  [d EXCEPT !.pc = "fetch", !.ino = n] \in Download
BY DEF Download, DownloadPcs

LEMMA BaseInPaths ==
  ASSUME NEW f \in Filenames
  PROVE  Base[f] \in Filenames /\ Base[f] \in Paths /\ Declared[f] \in Paths
BY NamesAssumption DEF Paths

---------------------------------------------------------------------------
(* Type correctness *)

LEMMA TypeInit == Init => TypeOK
BY BoundsAssumption
   DEF Init, TypeOK, RowsType, FilesType, Rows, NoRow, Idle, NoDownload, Request, Download,
       RequestPcs, DownloadPcs

LEMMA TypeStep == TypeOK /\ [Next]_vars => TypeOK'
<1> SUFFICES ASSUME TypeOK, [Next]_vars PROVE TypeOK'
  OBVIOUS
<1> USE DEF TypeOK
<1>1. ASSUME NEW c \in Clients, UploadOpen(c) PROVE TypeOK'
  <2>1. PICK f \in Filenames : /\ Arrives(c, "upload") /\ MayTransfer(f) /\ CreateFile(Base[f])
                               /\ req' = [req EXCEPT ![c] = [Idle EXCEPT !.pc = "copy",
                                            !.file = Base[f], !.ino = disk'[Base[f]]]]
    BY <1>1 DEF UploadOpen
  <2>2. FilesType' /\ disk'[Base[f]] \in Inodes
    BY <2>1, BaseInPaths, CreateType
  <2>3. req' \in [Clients -> Request]
    BY <2>1, <2>2, BaseInPaths DEF Request, Idle, RequestPcs
  <2>4. begun' \in 0..MaxTransfers
    BY <1>1, BoundsAssumption DEF UploadOpen, MayTransfer
  <2>5. QED
    BY <1>1, <2>2, <2>3, <2>4 DEF UploadOpen, catalog, RowsType
<1>2. ASSUME NEW c \in Clients, ImportInsert(c) PROVE TypeOK'
  <2>1. PICK f \in Filenames : /\ MayTransfer(f) /\ InsertRow(f, "downloading", None)
                               /\ req' = [req EXCEPT ![c] = [Idle EXCEPT !.pc = "accept",
                                            !.file = f, !.id = nextId]]
    BY <1>2 DEF ImportInsert
  <2>2. RowsType' /\ nextId \in Ids
    BY <2>1, InsertType
  <2>3. req' \in [Clients -> Request]
    BY <2>1, <2>2 DEF Request, Idle, RequestPcs
  <2>4. begun' \in 0..MaxTransfers
    BY <1>2, BoundsAssumption DEF ImportInsert, MayTransfer
  <2>5. QED
    BY <1>2, <2>2, <2>3, <2>4 DEF ImportInsert, files, FilesType
<1>3. ASSUME NEW c \in Clients, DeleteLookup(c) PROVE TypeOK'
  <2>1. PICK i \in Ids, keep \in BOOLEAN :
             /\ Exists(i)
             /\ req' = [req EXCEPT ![c] = [Idle EXCEPT
                          !.pc = "cancel", !.file = rows[i].filename, !.id = i,
                          !.remove = (keep /\ rows[i].status # "downloading")]]
    BY <1>3 DEF DeleteLookup
  <2>2. rows[i].filename \in Filenames
    BY <2>1 DEF RowsType, Rows, NoRow, Exists
  <2>3. req' \in [Clients -> Request]
    BY <2>1, <2>2 DEF Request, Idle, RequestPcs
  <2>4. QED
    BY <1>3, <2>3 DEF DeleteLookup, catalog, files, bounds, RowsType, FilesType
<1>4. ASSUME NEW c \in Clients, ServeLookup(c) PROVE TypeOK'
  <2>1. PICK i \in Ids : /\ rows[i].status = "ready"
                         /\ req' = [req EXCEPT ![c] =
                              [Idle EXCEPT !.pc = "serve", !.file = rows[i].filename, !.id = i]]
    BY <1>4 DEF ServeLookup
  <2>2. rows[i].filename \in Filenames
    BY <2>1 DEF RowsType, Rows, NoRow
  <2>3. req' \in [Clients -> Request]
    BY <2>1, <2>2 DEF Request, Idle, RequestPcs
  <2>4. QED
    BY <1>4, <2>3 DEF ServeLookup, catalog, files, bounds, RowsType, FilesType
<1>5. ASSUME NEW c \in Clients, Upload(c) PROVE TypeOK'
  <2> USE DEF catalog, files, bounds, RowsType, FilesType, At
  <2>0. req[c].pc # "idle" => req[c].file \in Filenames /\ Base[req[c].file] \in Paths
    BY BaseInPaths DEF Request
  <2>1. CASE UploadCopied(c)
    <3>1. req[c].ino \in Inodes /\ req[c].file \in Filenames
      BY <2>1 DEF UploadCopied, Request
    <3>2. req' \in [Clients -> Request]
      BY <2>1, <3>1, GotoType DEF UploadCopied, RequestPcs
    <3>3. QED
      BY <2>1, <3>1, <3>2, CompleteType DEF UploadCopied
  <2>2. CASE UploadBroken(c)
    BY <2>2, UnlinkType, ReturnType DEF UploadBroken
  <2>3. CASE UploadInsert(c)
    <3>1. req[c].ino \in Inodes /\ req[c].file \in Filenames
      BY <2>3 DEF UploadInsert, Request
    <3>2. RowsType' /\ nextId \in Ids
      BY <2>3, <3>1, InsertType DEF UploadInsert
    <3>3. req' \in [Clients -> Request]
      <4>1. [req[c] EXCEPT !.pc = "reread", !.id = nextId] \in Request
        BY <3>1, <3>2 DEF Request, RequestPcs
      <4>2. QED
        BY <2>3, <4>1 DEF UploadInsert
    <3>4. QED
      BY <2>3, <3>2, <3>3 DEF UploadInsert
  <2>4. CASE UploadRefused(c)
    BY <2>0, <2>4, GotoType DEF UploadRefused, RequestPcs
  <2>5. CASE UploadReread(c)
    BY <2>0, <2>5, GotoType, ReturnType DEF UploadReread, RequestPcs
  <2>6. CASE UploadDiscard(c)
    BY <2>6, UnlinkType, ReturnType DEF UploadDiscard
  <2>7. QED
    BY <1>5, <2>1, <2>2, <2>3, <2>4, <2>5, <2>6 DEF Upload
<1>6. ASSUME NEW c \in Clients, Import(c) PROVE TypeOK'
  <2> USE DEF catalog, files, bounds, RowsType, FilesType, At
  <2>1. CASE ImportReread(c)
    <3>1. req[c].id \in Ids /\ req[c].file \in Filenames
      BY <2>1 DEF ImportReread, Request
    <3>2. QED
      BY <2>1, <3>1, GotoType, ReturnType DEF ImportReread, RequestPcs
  <2>2. CASE ImportStart(c)
    <3>1. req[c].id \in Ids /\ req[c].file \in Filenames
      BY <2>2 DEF ImportStart, Request
    <3>2. dl' \in [Ids -> Download]
      BY <2>2, <3>1 DEF ImportStart, Download, NoDownload, DownloadPcs
    <3>3. QED
      BY <2>2, <3>1, <3>2, ReturnType DEF ImportStart
  <2>3. QED
    BY <1>6, <2>1, <2>2 DEF Import
<1>7. ASSUME NEW c \in Clients, Delete(c) PROVE TypeOK'
  <2> USE DEF catalog, files, bounds, RowsType, FilesType, At
  <2>0. req[c].pc # "idle" => req[c].file \in Filenames
    BY DEF Request
  <2>1. CASE DeleteCancel(c)
    <3>1. req[c].id \in Ids /\ req[c].file \in Filenames
      BY <2>1 DEF DeleteCancel, Request
    <3>2. dl' \in [Ids -> Download]
      BY <2>1, <3>1 DEF DeleteCancel, Download
    <3>3. req' \in [Clients -> Request]
      BY <2>1, <3>1, GotoType DEF DeleteCancel, RequestPcs
    <3>4. QED
      BY <2>1, <3>2, <3>3 DEF DeleteCancel
  <2>2. CASE DeleteRow(c)
    <3>1. req[c].id \in Ids /\ req[c].file \in Filenames
      BY <2>2 DEF DeleteRow, Request
    <3>2. RowsType'
      BY <2>2, <3>1, DeleteType DEF DeleteRow
    <3>3. req' \in [Clients -> Request]
      BY <2>2, <3>1, GotoType, ReturnType DEF DeleteRow, RequestPcs
    <3>4. QED
      BY <2>2, <3>2, <3>3 DEF DeleteRow
  <2>3. CASE DeleteFile(c)
    BY <2>3, UnlinkType, ReturnType DEF DeleteFile
  <2>4. QED
    BY <1>7, <2>1, <2>2, <2>3 DEF Delete
<1>8. ASSUME NEW c \in Clients, ServeOpen(c) \/ ServeDone(c) PROVE TypeOK'
  <2> USE DEF catalog, files, bounds, RowsType, FilesType, At
  <2>1. CASE ServeOpen(c)
    <3>1. req[c].id \in Ids /\ req[c].file \in Filenames
      BY <2>1 DEF ServeOpen, Request
    <3>2. disk[Declared[req[c].file]] \in Inodes \union {None}
      BY <3>1, BaseInPaths
    <3>3. req' \in [Clients -> Request]
      <4> DEFINE n == disk[Declared[req[c].file]]
      <4>1. CASE n = None
        BY <2>1, <4>1, ReturnType DEF ServeOpen
      <4>2. CASE n # None
        <5>1. [req[c] EXCEPT !.pc = "stream", !.ino = n] \in Request
          BY <3>1, <3>2, <4>2, StreamType
        <5>2. QED
          BY <2>1, <4>2, <5>1 DEF ServeOpen
      <4>3. QED
        BY <4>1, <4>2
    <3>4. QED
      BY <2>1, <3>3 DEF ServeOpen
  <2>2. CASE ServeDone(c)
    BY <2>2, ReturnType DEF ServeDone
  <2>3. QED
    BY <1>8, <2>1, <2>2
<1>9. ASSUME NEW i \in Ids, RunDownload(i) PROVE TypeOK'
  <2> USE DEF catalog, files, bounds, RowsType, FilesType
  <2>0. Running(i) => dl[i].file \in Filenames /\ Base[dl[i].file] \in Paths
    BY BaseInPaths DEF Running, Download
  <2>1. CASE DownloadOpen(i)
    <3>1. FilesType' /\ disk'[Base[dl[i].file]] \in Inodes
      BY <2>0, <2>1, CreateType DEF DownloadOpen, Running
    <3>2. dl' \in [Ids -> Download]
      <4>1. [dl[i] EXCEPT !.pc = "fetch", !.ino = disk'[Base[dl[i].file]]] \in Download
        <5>1. dl[i] \in Download /\ dl[i].file \in Filenames
          BY <2>0, <2>1 DEF DownloadOpen, Running
        <5>2. QED
          BY <3>1, <5>1, FetchType
      <4>2. QED
        BY <2>1, <4>1 DEF DownloadOpen
    <3>3. QED
      BY <2>1, <3>1, <3>2 DEF DownloadOpen
  <2>2. CASE DownloadRefused(i)
    BY <2>0, <2>2, DownloadGotoType DEF DownloadRefused, DownloadPcs, Running
  <2>3. CASE DownloadFetched(i)
    <3>1. dl[i].ino \in Inodes
      BY <2>3 DEF DownloadFetched, Download
    <3>2. QED
      BY <2>0, <2>3, <3>1, DownloadGotoType, CompleteType DEF DownloadFetched, DownloadPcs, Running
  <2>4. CASE DownloadBroken(i)
    BY <2>0, <2>4, DownloadGotoType, UnlinkType DEF DownloadBroken, DownloadPcs, Running
  <2>5. CASE FailureReread(i)
    BY <2>0, <2>5, DownloadGotoType DEF FailureReread, DownloadPcs, Running
  <2>6. CASE MarkError(i)
    <3>1. rows[i].sha \in Inodes \union {None}
      BY DEF Rows, NoRow
    <3>2. RowsType'
      BY <2>6, <3>1, UpdateType DEF MarkError
    <3>3. dl' \in [Ids -> Download]
      BY <2>0, <2>6, DownloadGotoType DEF MarkError, DownloadPcs, Running
    <3>4. QED
      BY <2>6, <3>2, <3>3 DEF MarkError
  <2>7. CASE SuccessReread(i)
    <3>1. dl[i].ino \in Inodes
      BY <2>7 DEF SuccessReread, Download
    <3>2. QED
      BY <2>0, <2>7, <3>1, DownloadGotoType DEF SuccessReread, DownloadPcs, Running
  <2>8. CASE MarkReady(i)
    <3>1. dl[i].ino \in Inodes
      BY <2>8 DEF MarkReady, Download
    <3>2. RowsType'
      BY <2>8, <3>1, UpdateType DEF MarkReady
    <3>3. dl' \in [Ids -> Download]
      BY <2>0, <2>8, DownloadGotoType DEF MarkReady, DownloadPcs, Running
    <3>4. QED
      BY <2>8, <3>2, <3>3 DEF MarkReady
  <2>9. CASE DownloadClean(i)
    BY <2>0, <2>9, DownloadGotoType, UnlinkType DEF DownloadClean, DownloadPcs, Running
  <2>10. CASE DownloadExit(i)
    BY <2>10 DEF DownloadExit, Download, NoDownload, DownloadPcs
  <2>11. QED
    BY <1>9, <2>1, <2>2, <2>3, <2>4, <2>5, <2>6, <2>7, <2>8, <2>9, <2>10 DEF RunDownload
<1>10. CASE Restart
  BY <1>10, BoundsAssumption
     DEF Restart, catalog, files, RowsType, FilesType, Request, Download, Idle, NoDownload,
         RequestPcs, DownloadPcs
<1>11. CASE UNCHANGED vars
  BY <1>11 DEF vars, RowsType, FilesType
<1>12. QED
  BY <1>1, <1>2, <1>3, <1>4, <1>5, <1>6, <1>7, <1>8, <1>9, <1>10, <1>11 DEF Next, Rest

(***************************************************************************)
(* Every state of every behaviour is well typed: no handler or goroutine   *)
(* uses a local it has not set.                                            *)
(***************************************************************************)
THEOREM TypeCorrect == Spec => []TypeOK
BY TypeInit, TypeStep, PTL DEF Spec
---------------------------------------------------------------------------
(***************************************************************************)
(* One holder for every file.  Between the open and the row, an inode is   *)
(* held by the upload or the download that created it; from then on by the *)
(* row whose checksum it gave.  Two holders never share an inode, which is *)
(* what O_EXCL and the fresh inode buy, and the holder's state says how    *)
(* far the content got.                                                    *)
(***************************************************************************)
Uploads(c)   == req[c].pc \in {"copy", "insert"}
Downloads(i) == dl[i].pc \in {"fetch", "fetched", "commit"}
Ready(i)     == rows[i].status = "ready"

FreshInodes == \A n \in Inodes : n >= nextIno => content[n] = "unused"

UploadsHold == \A c \in Clients :
    /\ req[c].pc = "copy" => content[req[c].ino] = "partial"
    /\ req[c].pc = "insert" => content[req[c].ino] = "complete"

DownloadsHold == \A i \in Ids :
    /\ dl[i].pc = "fetch" => content[dl[i].ino] = "partial"
    /\ dl[i].pc \in {"fetched", "commit"} => content[dl[i].ino] = "complete"

RowsHold == \A i \in Ids :
    Ready(i) => rows[i].sha \in Inodes /\ content[rows[i].sha] = "complete"

OneHolder ==
    /\ \A c, d \in Clients : Uploads(c) /\ Uploads(d) /\ req[c].ino = req[d].ino => c = d
    /\ \A i, j \in Ids : Downloads(i) /\ Downloads(j) /\ dl[i].ino = dl[j].ino => i = j
    /\ \A i, j \in Ids : Ready(i) /\ Ready(j) /\ rows[i].sha = rows[j].sha => i = j
    /\ \A c \in Clients, i \in Ids : Uploads(c) /\ Downloads(i) => req[c].ino # dl[i].ino
    /\ \A c \in Clients, i \in Ids : Uploads(c) /\ Ready(i) => req[c].ino # rows[i].sha
    /\ \A i, j \in Ids : Downloads(i) /\ Ready(j) => dl[i].ino # rows[j].sha

Holding == FreshInodes /\ UploadsHold /\ DownloadsHold /\ RowsHold /\ OneHolder

LEMMA HoldersInodes ==
  ASSUME TypeOK
  PROVE  /\ \A c \in Clients : Uploads(c) => req[c].ino \in Inodes
         /\ \A i \in Ids : Downloads(i) => dl[i].ino \in Inodes
BY DEF TypeOK, Uploads, Downloads, Request, Download

\* A step that only lets holders go, or moves them on, keeps the rest.
LEMMA HoldersShrink ==
  ASSUME Holding, content' = content, nextIno' = nextIno,
         \A c \in Clients : Uploads(c)' => req'[c].pc = req[c].pc /\ req'[c].ino = req[c].ino,
         \A i \in Ids : Downloads(i)' =>
            /\ Downloads(i) /\ dl'[i].ino = dl[i].ino
            /\ (dl'[i].pc = "fetch") = (dl[i].pc = "fetch"),
         \A i \in Ids : Ready(i)' => Ready(i) /\ rows'[i].sha = rows[i].sha
  PROVE  Holding'
BY DEF Holding, FreshInodes, UploadsHold, DownloadsHold, RowsHold, OneHolder, Uploads,
       Downloads, Ready

\* A request that ends, or goes on to a state that holds nothing.
LEMMA RequestShrinks ==
  ASSUME req \in [Clients -> Request], NEW c \in Clients, NEW pc, pc \notin {"copy", "insert"},
         Goto(c, pc) \/ Return(c)
  PROVE  \A d \in Clients : Uploads(d)' => req'[d].pc = req[d].pc /\ req'[d].ino = req[d].ino
<1>1. CASE Goto(c, pc)
  BY <1>1 DEF Goto, Uploads, Request
<1>2. CASE Return(c)
  BY <1>2 DEF Return, Idle, Uploads
<1>3. QED
  BY <1>1, <1>2

\* A goroutine that goes on to a state that holds nothing, or commits.
LEMMA DownloadShrinks ==
  ASSUME dl \in [Ids -> Download], NEW i \in Ids, NEW pc,
         pc \notin {"fetch", "fetched", "commit"} \/ (pc = "commit" /\ dl[i].pc = "fetched"),
         DownloadGoto(i, pc)
  PROVE  \A j \in Ids : Downloads(j)' =>
            /\ Downloads(j) /\ dl'[j].ino = dl[j].ino
            /\ (dl'[j].pc = "fetch") = (dl[j].pc = "fetch")
BY DEF DownloadGoto, Downloads, Download

LEMMA HoldingInit == Init => Holding
BY DEF Init, Holding, FreshInodes, UploadsHold, DownloadsHold, RowsHold, OneHolder, Uploads,
       Downloads, Ready, Idle, NoDownload, NoRow

LEMMA HoldingStep == TypeOK /\ Holding /\ [Next]_vars => Holding'
<1> SUFFICES ASSUME TypeOK, Holding, [Next]_vars PROVE Holding'
  OBVIOUS
<1> USE DEF Ready, TypeOK, RowsType, FilesType, catalog, files, bounds
<1>1. ASSUME NEW c \in Clients, ImportInsert(c) PROVE Holding'
  BY <1>1, HoldersShrink DEF ImportInsert, Arrives, InsertRow, Idle, Uploads, Downloads
<1>2. ASSUME NEW c \in Clients, DeleteLookup(c) PROVE Holding'
  BY <1>2, HoldersShrink DEF DeleteLookup, Arrives, Idle, Uploads, Downloads
<1>3. ASSUME NEW c \in Clients, ServeLookup(c) PROVE Holding'
  BY <1>3, HoldersShrink DEF ServeLookup, Arrives, Idle, Uploads, Downloads
<1>4. ASSUME NEW c \in Clients, UploadBroken(c) PROVE Holding'
  BY <1>4, HoldersShrink DEF UploadBroken, At, Unlink, Return, Idle, Uploads, Downloads
<1>5. ASSUME NEW c \in Clients, UploadRefused(c) PROVE Holding'
  BY <1>5, HoldersShrink DEF UploadRefused, At, Goto, Uploads, Downloads
<1>6. ASSUME NEW c \in Clients, UploadReread(c) PROVE Holding'
  <2>1. Return(c) \/ (\E pc \in {"discard", "start"} : Goto(c, pc))
    BY <1>6 DEF UploadReread
  <2>2. \A d \in Clients : Uploads(d)' => req'[d].pc = req[d].pc /\ req'[d].ino = req[d].ino
    BY <2>1, RequestShrinks
  <2>3. QED
    BY <1>6, <2>2, HoldersShrink DEF UploadReread, Downloads
<1>7. ASSUME NEW c \in Clients, UploadDiscard(c) PROVE Holding'
  BY <1>7, HoldersShrink DEF UploadDiscard, At, Unlink, Return, Idle, Uploads, Downloads
<1>8. ASSUME NEW c \in Clients, ImportReread(c) PROVE Holding'
  <2>1. Return(c) \/ (\E pc \in {"discard", "start"} : Goto(c, pc))
    BY <1>8 DEF ImportReread
  <2>2. \A d \in Clients : Uploads(d)' => req'[d].pc = req[d].pc /\ req'[d].ino = req[d].ino
    BY <2>1, RequestShrinks
  <2>3. QED
    BY <1>8, <2>2, HoldersShrink DEF ImportReread, Downloads
<1>9. ASSUME NEW c \in Clients, ImportStart(c) PROVE Holding'
  BY <1>9, HoldersShrink DEF ImportStart, At, Return, Idle, NoDownload, Uploads, Downloads
<1>10. ASSUME NEW c \in Clients, DeleteCancel(c) PROVE Holding'
  BY <1>10, HoldersShrink DEF DeleteCancel, At, Goto, Uploads, Downloads
<1>11. ASSUME NEW c \in Clients, DeleteRow(c) PROVE Holding'
  <2>1. \A d \in Clients : Uploads(d)' => req'[d].pc = req[d].pc /\ req'[d].ino = req[d].ino
    <3>1. Return(c) \/ Goto(c, "remove")
      BY <1>11 DEF DeleteRow
    <3>2. QED
      BY <3>1, RequestShrinks
  <2>2. \A i \in Ids : Ready(i)' => Ready(i) /\ rows'[i].sha = rows[i].sha
    BY <1>11 DEF DeleteRow, DeleteISO, NoRow
  <2>3. QED
    BY <1>11, <2>1, <2>2, HoldersShrink DEF DeleteRow, Downloads
<1>12. ASSUME NEW c \in Clients, DeleteFile(c) PROVE Holding'
  BY <1>12, HoldersShrink DEF DeleteFile, At, Unlink, Return, Idle, Uploads, Downloads
<1>13. ASSUME NEW c \in Clients, ServeOpen(c) PROVE Holding'
  <2>1. \A d \in Clients : Uploads(d)' => req'[d].pc = req[d].pc /\ req'[d].ino = req[d].ino
    <3>1. CASE Return(c)
      BY <3>1, RequestShrinks
    <3>2. CASE \E n : req' = [req EXCEPT ![c] = [@ EXCEPT !.pc = "stream", !.ino = n]]
      BY <3>2 DEF Uploads, Request
    <3>3. QED
      BY <1>13, <3>1, <3>2 DEF ServeOpen
  <2>2. QED
    BY <1>13, <2>1, HoldersShrink DEF ServeOpen, Downloads
<1>14. ASSUME NEW c \in Clients, ServeDone(c) PROVE Holding'
  BY <1>14, HoldersShrink DEF ServeDone, At, Return, Idle, Uploads, Downloads
<1>15. ASSUME NEW i \in Ids, DownloadRefused(i) PROVE Holding'
  BY <1>15, HoldersShrink DEF DownloadRefused, DownloadGoto, Uploads, Downloads
<1>16. ASSUME NEW i \in Ids, DownloadBroken(i) PROVE Holding'
  BY <1>16, HoldersShrink DEF DownloadBroken, Unlink, DownloadGoto, Uploads, Downloads
<1>17. ASSUME NEW i \in Ids, FailureReread(i) PROVE Holding'
  <2>1. PICK pc \in {"exit", "report"} : DownloadGoto(i, pc)
    BY <1>17 DEF FailureReread
  <2>2. \A j \in Ids : Downloads(j)' =>
           /\ Downloads(j) /\ dl'[j].ino = dl[j].ino
           /\ (dl'[j].pc = "fetch") = (dl[j].pc = "fetch")
    BY <1>17, <2>1, DownloadShrinks DEF FailureReread
  <2>3. QED
    BY <1>17, <2>2, HoldersShrink DEF FailureReread, Uploads
<1>18. ASSUME NEW i \in Ids, MarkError(i) PROVE Holding'
  <2>1. \A j \in Ids : Downloads(j)' =>
           /\ Downloads(j) /\ dl'[j].ino = dl[j].ino
           /\ (dl'[j].pc = "fetch") = (dl[j].pc = "fetch")
    BY <1>18, DownloadShrinks DEF MarkError
  <2>2. \A j \in Ids : Ready(j)' => Ready(j) /\ rows'[j].sha = rows[j].sha
    BY <1>18 DEF MarkError, UpdateRow, Rows, NoRow
  <2>3. QED
    BY <1>18, <2>1, <2>2, HoldersShrink DEF MarkError, Uploads
<1>19. ASSUME NEW i \in Ids, SuccessReread(i) PROVE Holding'
  <2>1. PICK pc \in {"commit", "clean", "exit"} : DownloadGoto(i, pc)
    BY <1>19 DEF SuccessReread
  <2>2. \A j \in Ids : Downloads(j)' =>
           /\ Downloads(j) /\ dl'[j].ino = dl[j].ino
           /\ (dl'[j].pc = "fetch") = (dl[j].pc = "fetch")
    BY <1>19, <2>1, DownloadShrinks DEF SuccessReread
  <2>3. QED
    BY <1>19, <2>2, HoldersShrink DEF SuccessReread, Uploads
<1>20. ASSUME NEW i \in Ids, DownloadClean(i) PROVE Holding'
  BY <1>20, HoldersShrink DEF DownloadClean, Unlink, DownloadGoto, Uploads, Downloads
<1>21. ASSUME NEW i \in Ids, DownloadExit(i) PROVE Holding'
  BY <1>21, HoldersShrink DEF DownloadExit, NoDownload, Uploads, Downloads
<1>22. ASSUME NEW c \in Clients, UploadOpen(c) PROVE Holding'
  <2>1. PICK f \in Filenames :
             /\ CreateFile(Base[f]) /\ Base[f] \in Paths
             /\ req' = [req EXCEPT ![c] = [Idle EXCEPT !.pc = "copy",
                          !.file = Base[f], !.ino = disk'[Base[f]]]]
    BY <1>22, BaseInPaths DEF UploadOpen
  <2>2. /\ nextIno \in Inodes /\ nextIno' = nextIno + 1 /\ content[nextIno] = "unused"
        /\ content' = [content EXCEPT ![nextIno] = "partial"]
        /\ disk'[Base[f]] = nextIno
    BY <2>1 DEF CreateFile, Holding, FreshInodes, Inodes
  <2>3. /\ req'[c].pc = "copy" /\ req'[c].ino = nextIno
        /\ \A d \in Clients : d # c => req'[d] = req[d]
    BY <2>1, <2>2 DEF Idle
  <2>4. UNCHANGED <<rows, dl>>
    BY <1>22 DEF UploadOpen
  <2>5. FreshInodes'
    BY <2>2 DEF Holding, FreshInodes, Inodes
  <2>6. UploadsHold' /\ DownloadsHold' /\ RowsHold'
    BY <2>2, <2>3, <2>4, HoldersInodes
       DEF Holding, UploadsHold, DownloadsHold, RowsHold, Uploads, Downloads
  <2>7. OneHolder'
    BY <2>2, <2>3, <2>4, HoldersInodes
       DEF Holding, OneHolder, UploadsHold, DownloadsHold, RowsHold, Uploads, Downloads
  <2>8. QED
    BY <2>5, <2>6, <2>7 DEF Holding
<1>23. ASSUME NEW c \in Clients, UploadCopied(c) PROVE Holding'
  BY <1>23, HoldersInodes DEF UploadCopied, At, CompleteFile, Goto,
        Holding, FreshInodes, UploadsHold, DownloadsHold, RowsHold, OneHolder,
        Uploads, Downloads
<1>24. ASSUME NEW c \in Clients, UploadInsert(c) PROVE Holding'
  BY <1>24, HoldersInodes DEF UploadInsert, At, InsertRow,
        Holding, FreshInodes, UploadsHold, DownloadsHold, RowsHold, OneHolder,
        Uploads, Downloads
<1>25. ASSUME NEW i \in Ids, DownloadOpen(i) PROVE Holding'
  <2>1. /\ nextIno \in Inodes /\ nextIno' = nextIno + 1 /\ content[nextIno] = "unused"
        /\ content' = [content EXCEPT ![nextIno] = "partial"]
        /\ disk'[Base[dl[i].file]] = nextIno
    <3>1. Base[dl[i].file] \in Paths
      BY <1>25, BaseInPaths DEF DownloadOpen, Download
    <3>2. QED
      BY <1>25, <3>1 DEF DownloadOpen, CreateFile, Holding, FreshInodes, Inodes
  <2>2. /\ dl'[i].pc = "fetch" /\ dl'[i].ino = nextIno
        /\ \A j \in Ids : j # i => dl'[j] = dl[j]
    BY <1>25, <2>1 DEF DownloadOpen, Download
  <2>3. UNCHANGED <<rows, req>>
    BY <1>25 DEF DownloadOpen
  <2>4. FreshInodes'
    BY <2>1 DEF Holding, FreshInodes, Inodes
  <2>5. UploadsHold' /\ DownloadsHold' /\ RowsHold'
    BY <2>1, <2>2, <2>3, HoldersInodes
       DEF Holding, UploadsHold, DownloadsHold, RowsHold, Uploads, Downloads
  <2>6. OneHolder'
    BY <2>1, <2>2, <2>3, HoldersInodes
       DEF Holding, OneHolder, UploadsHold, DownloadsHold, RowsHold, Uploads, Downloads
  <2>7. QED
    BY <2>4, <2>5, <2>6 DEF Holding
<1>26. ASSUME NEW i \in Ids, DownloadFetched(i) PROVE Holding'
  BY <1>26, HoldersInodes DEF DownloadFetched, CompleteFile, DownloadGoto,
        Holding, FreshInodes, UploadsHold, DownloadsHold, RowsHold, OneHolder,
        Uploads, Downloads
<1>27. ASSUME NEW i \in Ids, MarkReady(i) PROVE Holding'
  <2>1. dl[i].pc = "commit" /\ Downloads(i) /\ dl[i].ino \in Inodes
    BY <1>27, HoldersInodes DEF MarkReady, Downloads
  <2>2. /\ dl'[i].pc = "exit" /\ \A j \in Ids : j # i => dl'[j] = dl[j]
    BY <1>27 DEF MarkReady, DownloadGoto, Download
  <2>3. /\ Ready(i)' => rows'[i].sha = dl[i].ino \/ rows'[i] = rows[i]
        /\ \A j \in Ids : j # i => rows'[j] = rows[j]
    <3>1. CASE Exists(i) /\ UpdateRow(i, "ready", dl[i].ino)
      BY <3>1, UpdatedRow DEF UpdateRow
    <3>2. CASE rows' = rows
      BY <3>2
    <3>3. QED
      BY <1>27, <3>1, <3>2 DEF MarkReady, UpdateRow
  <2>4. UNCHANGED <<content, nextIno, req>>
    BY <1>27 DEF MarkReady
  <2>5. UploadsHold' /\ DownloadsHold' /\ RowsHold' /\ FreshInodes'
    BY <2>1, <2>2, <2>3, <2>4
       DEF Holding, UploadsHold, DownloadsHold, RowsHold, FreshInodes, Uploads, Downloads
  <2>6. OneHolder'
    BY <2>1, <2>2, <2>3, <2>4 DEF Holding, OneHolder, Uploads, Downloads
  <2>7. QED
    BY <2>5, <2>6 DEF Holding
<1>28. CASE Restart
  BY <1>28, HoldersShrink DEF Restart, Idle, NoDownload, Uploads, Downloads
<1>29. CASE UNCHANGED vars
  BY <1>29, HoldersShrink DEF vars, Uploads, Downloads
<1>30. QED
  BY <1>1, <1>2, <1>3, <1>4, <1>5, <1>6, <1>7, <1>8, <1>9, <1>10, <1>11, <1>12, <1>13, <1>14, <1>15, <1>16, <1>17, <1>18, <1>19, <1>20, <1>21, <1>22, <1>23, <1>24, <1>25, <1>26, <1>27, <1>28, <1>29
     DEF Next, Upload, Import, Delete, RunDownload, Rest

(***************************************************************************)
(* Every inode has at most one holder: the upload or download that writes  *)
(* it or has just written it, or the ready row made from it.               *)
(***************************************************************************)
THEOREM HoldingCorrect == Spec => []Holding
BY TypeCorrect, HoldingInit, HoldingStep, PTL DEF Spec

LEMMA HoldingImplies ==
  ASSUME TypeOK, Holding
  PROVE  OneWriter /\ ReadyIsComplete
<1> USE DEF Holding, FreshInodes, UploadsHold, DownloadsHold, RowsHold, OneHolder, Uploads,
            Downloads, Ready
<1>1. OneWriter
  BY DEF OneWriter, Uploading, Fetching
<1>2. ReadyIsComplete
  BY DEF ReadyIsComplete
<1>3. QED
  BY <1>1, <1>2

(***************************************************************************)
(* However uploads, imports, deletes, failures and restarts interleave, no *)
(* two transfers write one file and no finished file is written again.     *)
(***************************************************************************)
THEOREM OneWriterCorrect == Spec => []OneWriter
BY TypeCorrect, HoldingCorrect, HoldingImplies, PTL

(***************************************************************************)
(* A ready row records the checksum of a transfer that ran to its end, and *)
(* of its own transfer only.                                               *)
(***************************************************************************)
THEOREM ReadyIsCompleteCorrect == Spec => []ReadyIsComplete
BY TypeCorrect, HoldingCorrect, HoldingImplies, PTL

---------------------------------------------------------------------------
(***************************************************************************)
(* One task for every import.  An id that was handed out to an import has  *)
(* at most one task that may still settle its row: the handler that        *)
(* inserted it, or the goroutine that handler started.  Until that task    *)
(* has settled it the row, if it is still there, is "downloading".         *)
(***************************************************************************)
Pending(c) == req[c].pc \in {"accept", "start"}
Working(i) == dl[i].pc \in {"open", "fetch", "fetched", "failed", "report", "commit"}

UnusedIds == \A i \in Ids : i >= nextId =>
    /\ ~Exists(i) /\ ~Running(i)
    /\ \A c \in Clients : Pending(c) => req[c].id # i

OneTask ==
    /\ \A c, d \in Clients : Pending(c) /\ Pending(d) /\ req[c].id = req[d].id => c = d
    /\ \A c \in Clients : Pending(c) => ~Running(req[c].id)

TasksOpen ==
    /\ \A c \in Clients : Pending(c) /\ Exists(req[c].id) =>
          rows[req[c].id].status = "downloading"
    /\ \A i \in Ids : Working(i) /\ Exists(i) => rows[i].status = "downloading"

Tasks == UnusedIds /\ OneTask /\ TasksOpen

\* Tasks that end and rows that are deleted leave the rest as it was.
LEMMA TasksShrink ==
  ASSUME TypeOK, Tasks, nextId' = nextId,
         \A i \in Ids : rows'[i].status = rows[i].status \/ rows'[i].status = "absent",
         \A i \in Ids : (Running(i)' => Running(i)) /\ (Working(i)' => Working(i)),
         \A c \in Clients : Pending(c)' => Pending(c) /\ req'[c].id = req[c].id
  PROVE  Tasks'
<1>1. \A c \in Clients : Pending(c) => req[c].id \in Ids
  BY DEF TypeOK, Pending, Request
<1>2. QED
  BY <1>1 DEF Tasks, UnusedIds, OneTask, TasksOpen, Pending, Exists, Running

LEMMA RequestMovesOn ==
  ASSUME req \in [Clients -> Request], NEW c \in Clients, NEW pc,
         pc \notin {"accept", "start"} \/ Pending(c), Goto(c, pc) \/ Return(c)
  PROVE  \A d \in Clients : Pending(d)' => Pending(d) /\ req'[d].id = req[d].id
<1>1. CASE Goto(c, pc)
  BY <1>1 DEF Goto, Pending, Request
<1>2. CASE Return(c)
  BY <1>2 DEF Return, Idle, Pending
<1>3. QED
  BY <1>1, <1>2

LEMMA DownloadMovesOn ==
  ASSUME dl \in [Ids -> Download], NEW i \in Ids, NEW pc, dl[i].pc # "none",
         pc \in {"clean", "exit"} \/ Working(i), DownloadGoto(i, pc)
  PROVE  \A j \in Ids : (Running(j)' => Running(j)) /\ (Working(j)' => Working(j))
BY DEF DownloadGoto, Working, Running, Download

Unstarted(i) == ~Exists(i) /\ ~Running(i) /\ \A c \in Clients : Pending(c) => req[c].id # i

\* The id the next INSERT hands out belongs to nobody.
LEMMA NextIdUnstarted ==
  ASSUME TypeOK, Tasks, nextId \in Ids
  PROVE  Unstarted(nextId)
<1>1. nextId \in Int
  BY DEF TypeOK, RowsType
<1>2. QED
  BY <1>1 DEF Tasks, UnusedIds, Unstarted

LEMMA TasksHaveIds ==
  ASSUME TypeOK
  PROVE  /\ \A c \in Clients : Pending(c) => req[c].id \in Ids
         /\ \A i \in Ids : Working(i) => Running(i)
BY DEF TypeOK, Pending, Request, Working, Running

LEMMA IdsAbove ==
  ASSUME TypeOK
  PROVE  \A i \in Ids : i >= nextId + 1 => i >= nextId /\ i # nextId
BY DEF TypeOK, RowsType, Ids

LEMMA TasksInit == Init => Tasks
BY DEF Init, Tasks, UnusedIds, OneTask, TasksOpen, Pending, Working, Exists, Running, NoRow,
       Idle, NoDownload

LEMMA TasksStep == TypeOK /\ Tasks /\ [Next]_vars => Tasks'
<1> SUFFICES ASSUME TypeOK, Tasks, [Next]_vars PROVE Tasks'
  OBVIOUS
<1> USE DEF TypeOK, RowsType, FilesType, catalog, files, bounds, At
<1>1. ASSUME NEW c \in Clients, UploadOpen(c) PROVE Tasks'
  BY <1>1, TasksShrink DEF UploadOpen, Arrives, Idle, Pending, Running, Working
<1>2. ASSUME NEW c \in Clients, DeleteLookup(c) PROVE Tasks'
  BY <1>2, TasksShrink DEF DeleteLookup, Arrives, Idle, Pending, Running, Working
<1>3. ASSUME NEW c \in Clients, ServeLookup(c) PROVE Tasks'
  BY <1>3, TasksShrink DEF ServeLookup, Arrives, Idle, Pending, Running, Working
<1>4. ASSUME NEW c \in Clients, UploadCopied(c) PROVE Tasks'
  BY <1>4, RequestMovesOn, TasksShrink DEF UploadCopied, Running, Working
<1>5. ASSUME NEW c \in Clients, UploadBroken(c) PROVE Tasks'
  BY <1>5, RequestMovesOn, TasksShrink DEF UploadBroken, Running, Working
<1>6. ASSUME NEW c \in Clients, UploadRefused(c) PROVE Tasks'
  BY <1>6, RequestMovesOn, TasksShrink DEF UploadRefused, Running, Working
<1>7. ASSUME NEW c \in Clients, UploadDiscard(c) PROVE Tasks'
  BY <1>7, RequestMovesOn, TasksShrink DEF UploadDiscard, Running, Working
<1>8. ASSUME NEW c \in Clients, DeleteFile(c) PROVE Tasks'
  BY <1>8, RequestMovesOn, TasksShrink DEF DeleteFile, Running, Working
<1>9. ASSUME NEW c \in Clients, ServeDone(c) PROVE Tasks'
  BY <1>9, RequestMovesOn, TasksShrink DEF ServeDone, Running, Working
<1>10. ASSUME NEW c \in Clients, UploadReread(c) PROVE Tasks'
  <2>1. Return(c) \/ Goto(c, "discard")
    BY <1>10 DEF UploadReread
  <2>2. QED
    BY <1>10, <2>1, RequestMovesOn, TasksShrink DEF UploadReread, Running, Working
<1>11. ASSUME NEW c \in Clients, ImportReread(c) PROVE Tasks'
  <2>1. Return(c) \/ Goto(c, "start")
    BY <1>11 DEF ImportReread
  <2>2. Pending(c)
    BY <1>11 DEF ImportReread, Pending
  <2>3. QED
    BY <1>11, <2>1, <2>2, RequestMovesOn, TasksShrink DEF ImportReread, Running, Working
<1>12. ASSUME NEW c \in Clients, DeleteCancel(c) PROVE Tasks'
  <2>1. \A i \in Ids : dl'[i].pc = dl[i].pc
    BY <1>12 DEF DeleteCancel, Download
  <2>2. QED
    BY <1>12, <2>1, RequestMovesOn, TasksShrink DEF DeleteCancel, Running, Working
<1>13. ASSUME NEW c \in Clients, DeleteRow(c) PROVE Tasks'
  <2>1. Return(c) \/ Goto(c, "remove")
    BY <1>13 DEF DeleteRow
  <2>2. \A i \in Ids : rows'[i].status = rows[i].status \/ rows'[i].status = "absent"
    BY <1>13 DEF DeleteRow, DeleteISO, NoRow
  <2>3. nextId' = nextId
    BY <1>13 DEF DeleteRow, DeleteISO
  <2>4. QED
    BY <1>13, <2>1, <2>2, <2>3, RequestMovesOn, TasksShrink DEF DeleteRow, Running, Working
<1>14. ASSUME NEW c \in Clients, ServeOpen(c) PROVE Tasks'
  <2>1. \A d \in Clients : Pending(d)' => Pending(d) /\ req'[d].id = req[d].id
    <3>1. CASE Return(c)
      BY <3>1 DEF Return, Idle, Pending
    <3>2. CASE \E m : req' = [req EXCEPT ![c] = [@ EXCEPT !.pc = "stream", !.ino = m]]
      BY <3>2 DEF Pending, Request
    <3>3. QED
      BY <1>14, <3>1, <3>2 DEF ServeOpen
  <2>2. QED
    BY <1>14, <2>1, TasksShrink DEF ServeOpen, Running, Working
<1>15. ASSUME NEW i \in Ids, DownloadRefused(i) PROVE Tasks'
  <2>1. dl[i].pc # "none" /\ (Working(i) \/ dl[i].pc = "clean")
    BY <1>15 DEF DownloadRefused, Working
  <2>2. QED
    BY <1>15, <2>1, DownloadMovesOn, TasksShrink DEF DownloadRefused, Pending
<1>16. ASSUME NEW i \in Ids, DownloadFetched(i) PROVE Tasks'
  <2>1. dl[i].pc # "none" /\ (Working(i) \/ dl[i].pc = "clean")
    BY <1>16 DEF DownloadFetched, Working
  <2>2. QED
    BY <1>16, <2>1, DownloadMovesOn, TasksShrink DEF DownloadFetched, Pending
<1>17. ASSUME NEW i \in Ids, DownloadBroken(i) PROVE Tasks'
  <2>1. dl[i].pc # "none" /\ (Working(i) \/ dl[i].pc = "clean")
    BY <1>17 DEF DownloadBroken, Working
  <2>2. QED
    BY <1>17, <2>1, DownloadMovesOn, TasksShrink DEF DownloadBroken, Pending
<1>18. ASSUME NEW i \in Ids, DownloadClean(i) PROVE Tasks'
  <2>1. dl[i].pc # "none" /\ (Working(i) \/ dl[i].pc = "clean")
    BY <1>18 DEF DownloadClean, Working
  <2>2. QED
    BY <1>18, <2>1, DownloadMovesOn, TasksShrink DEF DownloadClean, Pending
<1>19. ASSUME NEW i \in Ids, FailureReread(i) PROVE Tasks'
  <2>1. PICK pc \in {"exit", "report"} : DownloadGoto(i, pc)
    BY <1>19 DEF FailureReread
  <2>2. dl[i].pc # "none" /\ Working(i)
    BY <1>19 DEF FailureReread, Working
  <2>3. QED
    BY <1>19, <2>1, <2>2, DownloadMovesOn, TasksShrink DEF FailureReread, Pending
<1>20. ASSUME NEW i \in Ids, SuccessReread(i) PROVE Tasks'
  <2>1. PICK pc \in {"commit", "clean", "exit"} : DownloadGoto(i, pc)
    BY <1>20 DEF SuccessReread
  <2>2. dl[i].pc # "none" /\ Working(i)
    BY <1>20 DEF SuccessReread, Working
  <2>3. QED
    BY <1>20, <2>1, <2>2, DownloadMovesOn, TasksShrink DEF SuccessReread, Pending
<1>21. ASSUME NEW i \in Ids, DownloadOpen(i) PROVE Tasks'
  <2>1. \A j \in Ids : (Running(j)' => Running(j)) /\ (Working(j)' => Working(j))
    BY <1>21 DEF DownloadOpen, Running, Working, Download
  <2>2. QED
    BY <1>21, <2>1, TasksShrink DEF DownloadOpen, Pending
<1>22. ASSUME NEW i \in Ids, DownloadExit(i) PROVE Tasks'
  BY <1>22, TasksShrink DEF DownloadExit, NoDownload, Running, Working, Pending
<1>23. ASSUME NEW i \in Ids, MarkError(i) PROVE Tasks'
  <2>1. Running(i) /\ \A c \in Clients : Pending(c) => req[c].id # i
    BY <1>23 DEF MarkError, Running, Tasks, OneTask
  <2>2. /\ dl'[i].pc = "exit"
        /\ \A j \in Ids : j # i => dl'[j] = dl[j]
    BY <1>23 DEF MarkError, DownloadGoto, Download
  <2>3. /\ Exists(i)' => Exists(i)
        /\ \A j \in Ids : j # i => rows'[j] = rows[j]
    BY <1>23 DEF MarkError, UpdateRow, Exists
  <2>4. nextId' = nextId /\ req' = req
    BY <1>23 DEF MarkError, UpdateRow
  <2>5. \A c \in Clients : Pending(c) => req[c].id \in Ids
    BY DEF Pending, Request
  <2>6. QED
    BY <2>1, <2>2, <2>3, <2>4, <2>5
       DEF Tasks, UnusedIds, OneTask, TasksOpen, Pending, Working, Running, Exists
<1>24. ASSUME NEW i \in Ids, MarkReady(i) PROVE Tasks'
  <2>1. Running(i) /\ \A c \in Clients : Pending(c) => req[c].id # i
    BY <1>24 DEF MarkReady, Running, Tasks, OneTask
  <2>2. /\ dl'[i].pc = "exit"
        /\ \A j \in Ids : j # i => dl'[j] = dl[j]
    BY <1>24 DEF MarkReady, DownloadGoto, Download
  <2>3. /\ Exists(i)' => Exists(i)
        /\ \A j \in Ids : j # i => rows'[j] = rows[j]
    BY <1>24 DEF MarkReady, UpdateRow, Exists
  <2>4. nextId' = nextId /\ req' = req
    BY <1>24 DEF MarkReady, UpdateRow
  <2>5. \A c \in Clients : Pending(c) => req[c].id \in Ids
    BY DEF Pending, Request
  <2>6. QED
    BY <2>1, <2>2, <2>3, <2>4, <2>5
       DEF Tasks, UnusedIds, OneTask, TasksOpen, Pending, Working, Running, Exists
<1>25. ASSUME NEW c \in Clients, UploadInsert(c) PROVE Tasks'
  <2>1. /\ nextId \in Ids /\ nextId' = nextId + 1 /\ Unstarted(nextId)
        /\ \A j \in Ids : j # nextId => rows'[j] = rows[j]
    BY <1>25, NextIdUnstarted DEF UploadInsert, InsertRow
  <2>2. \A d \in Clients : Pending(d)' => Pending(d) /\ req'[d].id = req[d].id
    BY <1>25 DEF UploadInsert, Pending, Request
  <2>3. dl' = dl /\ \A i \in Ids : Working(i)' = Working(i)
    BY <1>25 DEF UploadInsert, Working
  <2>4. UnusedIds'
    BY <2>1, <2>2, <2>3, IdsAbove DEF Tasks, UnusedIds, Running, Exists
  <2>5. OneTask'
    BY <2>2, <2>3 DEF Tasks, OneTask, Running
  <2>6. TasksOpen'
    <3>1. ASSUME NEW d \in Clients, Pending(d)', Exists(req[d].id)'
          PROVE  rows'[req'[d].id].status = "downloading"
      <4>1. Pending(d) /\ req'[d].id = req[d].id /\ req[d].id \in Ids /\ req[d].id # nextId
        BY <2>1, <2>2, <3>1, TasksHaveIds DEF Unstarted
      <4>2. rows'[req[d].id] = rows[req[d].id]
        BY <2>1, <4>1
      <4>3. QED
        BY <3>1, <4>1, <4>2 DEF Tasks, TasksOpen, Exists
    <3>2. ASSUME NEW i \in Ids, Working(i)', Exists(i)' PROVE rows'[i].status = "downloading"
      BY <2>1, <2>3, <3>2, TasksHaveIds DEF Tasks, TasksOpen, Unstarted, Exists, Working
    <3>3. QED
      BY <3>1, <3>2 DEF TasksOpen
  <2>7. QED
    BY <2>4, <2>5, <2>6 DEF Tasks
<1>26. ASSUME NEW c \in Clients, ImportInsert(c) PROVE Tasks'
  <2>1. PICK f \in Filenames :
             /\ InsertRow(f, "downloading", None)
             /\ req' = [req EXCEPT ![c] = [Idle EXCEPT !.pc = "accept", !.file = f, !.id = nextId]]
    BY <1>26 DEF ImportInsert
  <2>2. /\ nextId \in Ids /\ nextId' = nextId + 1 /\ Unstarted(nextId)
        /\ rows'[nextId].status = "downloading"
        /\ \A j \in Ids : j # nextId => rows'[j] = rows[j]
    BY <2>1, NextIdUnstarted DEF InsertRow
  <2>3. \A d \in Clients : Pending(d)' =>
           \/ d = c /\ req'[d].id = nextId
           \/ d # c /\ Pending(d) /\ req'[d].id = req[d].id
    BY <2>1 DEF Idle, Pending
  <2>4. dl' = dl /\ \A i \in Ids : Working(i)' = Working(i)
    BY <1>26 DEF ImportInsert, Working
  <2>5. UnusedIds'
    BY <2>2, <2>3, <2>4, IdsAbove DEF Tasks, UnusedIds, Running, Exists
  <2>6. OneTask'
    BY <2>2, <2>3, <2>4 DEF Tasks, OneTask, Unstarted, Running
  <2>7. TasksOpen'
    <3>1. ASSUME NEW d \in Clients, Pending(d)', Exists(req[d].id)'
          PROVE  rows'[req'[d].id].status = "downloading"
      <4>1. CASE d = c
        BY <2>2, <2>3, <3>1, <4>1
      <4>2. CASE d # c
        <5>1. /\ Pending(d) /\ req'[d].id = req[d].id
              /\ req[d].id \in Ids /\ req[d].id # nextId
          BY <2>2, <2>3, <3>1, <4>2, TasksHaveIds DEF Unstarted
        <5>2. rows'[req[d].id] = rows[req[d].id]
          BY <2>2, <5>1
        <5>3. QED
          BY <3>1, <5>1, <5>2 DEF Tasks, TasksOpen, Exists
      <4>3. QED
        BY <4>1, <4>2
    <3>2. ASSUME NEW i \in Ids, Working(i)', Exists(i)' PROVE rows'[i].status = "downloading"
      BY <2>2, <2>4, <3>2, TasksHaveIds DEF Tasks, TasksOpen, Unstarted, Exists, Working
    <3>3. QED
      BY <3>1, <3>2 DEF TasksOpen
  <2>8. QED
    BY <2>5, <2>6, <2>7 DEF Tasks
<1>27. ASSUME NEW c \in Clients, ImportStart(c) PROVE Tasks'
  <2>1. Pending(c) /\ req[c].id \in Ids /\ ~Running(req[c].id)
    BY <1>27 DEF ImportStart, Pending, Request, Tasks, OneTask
  <2>2. \A j \in Ids : j # req[c].id => dl'[j] = dl[j]
    BY <1>27, <2>1 DEF ImportStart
  <2>3. ~Pending(c)' /\ \A d \in Clients : d # c => req'[d] = req[d]
    BY <1>27 DEF ImportStart, Return, Idle, Pending
  <2>4. UNCHANGED <<rows, nextId>>
    BY <1>27 DEF ImportStart
  <2>5. \A d \in Clients : Pending(d) => req[d].id \in Ids
    BY DEF Pending, Request
  <2>6. QED
    BY <2>1, <2>2, <2>3, <2>4, <2>5 DEF Tasks, UnusedIds, OneTask, TasksOpen, Pending, Working, Running, Exists
<1>28. CASE Restart
  BY <1>28, TasksShrink DEF Restart, Idle, NoDownload, Pending, Running, Working
<1>29. CASE UNCHANGED vars
  BY <1>29, TasksShrink DEF vars, Pending, Running, Working
<1>30. QED
  BY <1>1, <1>2, <1>3, <1>4, <1>5, <1>6, <1>7, <1>8, <1>9, <1>10, <1>11, <1>12, <1>13, <1>14, <1>15, <1>16, <1>17, <1>18, <1>19, <1>20, <1>21, <1>22, <1>23, <1>24, <1>25, <1>26, <1>27, <1>28, <1>29
     DEF Next, Upload, Import, Delete, RunDownload, Rest

(***************************************************************************)
(* An import's row is settled once: by one goroutine, from downloading.    *)
(***************************************************************************)
THEOREM TasksCorrect == Spec => []Tasks
BY TypeCorrect, TasksInit, TasksStep, PTL DEF Spec

---------------------------------------------------------------------------
(* Cancel functions *)

\* A registered goroutine that goes on, and is not cancelled, stays live.
LEMMA LiveKept ==
  ASSUME TypeOK, CancelFuncsAreLive, active' \subseteq active, nextId' \in {nextId, nextId + 1},
         \A i \in active' : (Running(i) => Running(i)') /\ dl'[i].cancelled = dl[i].cancelled
  PROVE  CancelFuncsAreLive'
BY DEF CancelFuncsAreLive, TypeOK, RowsType, Ids

LEMMA LiveStep == TypeOK /\ Tasks /\ CancelFuncsAreLive /\ [Next]_vars => CancelFuncsAreLive'
<1> SUFFICES ASSUME TypeOK, Tasks, CancelFuncsAreLive, [Next]_vars PROVE CancelFuncsAreLive'
  OBVIOUS
<1> USE DEF catalog, files, bounds
<1>1. ASSUME NEW i \in Ids, NEW pc, pc # "none", DownloadGoto(i, pc), active' = active,
             nextId' = nextId
      PROVE  CancelFuncsAreLive'
  <2>1. \A j \in Ids : (Running(j) => Running(j)') /\ dl'[j].cancelled = dl[j].cancelled
    BY <1>1 DEF TypeOK, DownloadGoto, Running, Download
  <2>2. QED
    BY <1>1, <2>1, LiveKept DEF TypeOK
<1>2. ASSUME dl' = dl, active' = active, nextId' \in {nextId, nextId + 1}
      PROVE  CancelFuncsAreLive'
  BY <1>2, LiveKept DEF Running
<1>3. ASSUME NEW c \in Clients, ImportStart(c) PROVE CancelFuncsAreLive'
  <2> DEFINE i == req[c].id
  <2>1. Pending(c) /\ i \in Ids
    BY <1>3 DEF ImportStart, At, Pending, TypeOK, Request
  <2>2. dl'[i] = [pc |-> "open", file |-> req[c].file, ino |-> None, cancelled |-> FALSE]
    BY <1>3, <2>1 DEF ImportStart, NoDownload, TypeOK
  <2>3. \A j \in Ids : j # i => dl'[j] = dl[j]
    BY <1>3, <2>1 DEF ImportStart, TypeOK
  <2>4. i < nextId
    <3>1. i \in Int /\ nextId \in Int
      BY <2>1 DEF TypeOK, RowsType, Ids
    <3>2. ~(i >= nextId)
      BY <2>1 DEF Tasks, UnusedIds
    <3>3. QED
      BY <3>1, <3>2
  <2>5. active' = active \union {i} /\ nextId' = nextId
    BY <1>3 DEF ImportStart
  <2>6. QED
    BY <2>2, <2>3, <2>4, <2>5 DEF CancelFuncsAreLive, TypeOK, Running
<1>4. ASSUME NEW c \in Clients, DeleteCancel(c) PROVE CancelFuncsAreLive'
  <2>1. req[c].id \in Ids /\ active' = active \ {req[c].id} /\ nextId' = nextId
    BY <1>4 DEF DeleteCancel, At, TypeOK, Request
  <2>2. \A j \in Ids : j # req[c].id => dl'[j] = dl[j]
    BY <1>4, <2>1 DEF DeleteCancel, TypeOK
  <2>3. QED
    BY <2>1, <2>2, LiveKept DEF TypeOK, Running
<1>5. ASSUME NEW i \in Ids, DownloadOpen(i) PROVE CancelFuncsAreLive'
  <2>1. \A j \in Ids : (Running(j) => Running(j)') /\ dl'[j].cancelled = dl[j].cancelled
    BY <1>5 DEF DownloadOpen, TypeOK, Running, Download
  <2>2. QED
    BY <1>5, <2>1, LiveKept DEF DownloadOpen, TypeOK
<1>6. ASSUME NEW i \in Ids, DownloadExit(i) PROVE CancelFuncsAreLive'
  <2>1. active' = active \ {i} /\ nextId' = nextId
    BY <1>6 DEF DownloadExit
  <2>2. \A j \in Ids : j # i => dl'[j] = dl[j]
    BY <1>6 DEF DownloadExit, TypeOK
  <2>3. QED
    BY <2>1, <2>2, LiveKept DEF TypeOK, Running
<1>7. CASE Restart
  BY <1>7 DEF Restart, CancelFuncsAreLive
<1>8. CASE \E c \in Clients :
          \/ UploadOpen(c) \/ ImportInsert(c) \/ DeleteLookup(c) \/ ServeLookup(c)
          \/ Upload(c) \/ ImportReread(c) \/ DeleteRow(c) \/ DeleteFile(c)
          \/ ServeOpen(c) \/ ServeDone(c)
  BY <1>8, <1>2
     DEF UploadOpen, ImportInsert, DeleteLookup, ServeLookup, Upload, UploadCopied, UploadBroken,
         UploadInsert, UploadRefused, UploadReread, UploadDiscard, ImportReread, DeleteRow,
         DeleteFile, ServeOpen, ServeDone, InsertRow, DeleteISO
<1>9. CASE \E i \in Ids :
          \/ DownloadRefused(i) \/ DownloadFetched(i) \/ DownloadBroken(i) \/ FailureReread(i)
          \/ MarkError(i) \/ SuccessReread(i) \/ MarkReady(i) \/ DownloadClean(i)
  BY <1>9, <1>1
     DEF DownloadRefused, DownloadFetched, DownloadBroken, FailureReread, MarkError,
         SuccessReread, MarkReady, DownloadClean, UpdateRow
<1>10. CASE UNCHANGED vars
  BY <1>10, <1>2 DEF vars
<1>11. QED
  BY <1>3, <1>4, <1>5, <1>6, <1>7, <1>8, <1>9, <1>10
     DEF Next, Import, Delete, RunDownload, Rest

(***************************************************************************)
(* activeDownloads never holds the cancel function of a goroutine that has *)
(* ended or was cancelled before, so a delete cancels the goroutine of its *)
(* own row or nothing.                                                     *)
(***************************************************************************)
THEOREM CancelFuncsCorrect == Spec => []CancelFuncsAreLive
<1>1. Init => CancelFuncsAreLive
  BY DEF Init, CancelFuncsAreLive
<1>2. QED
  BY <1>1, TypeCorrect, TasksCorrect, LiveStep, PTL DEF Spec

---------------------------------------------------------------------------
(* The catalogue *)

LEMMA CatalogInit == Init => Catalog!Init
BY BoundsAssumption DEF Init, Catalog!Init, life, Exists, NoRow, Ids

\* An INSERT is a birth.
LEMMA InsertIsBirth ==
  ASSUME TypeOK, Tasks, NEW f, NEW state \in {"downloading", "ready"}, NEW sha,
         InsertRow(f, state, sha)
  PROVE  Catalog!Next
<1>1. nextId \in Ids /\ Unstarted(nextId)
  BY NextIdUnstarted DEF InsertRow
<1>2. /\ rows'[nextId].status = state /\ \A j \in Ids : j # nextId => rows'[j] = rows[j]
      /\ nextId' = nextId + 1
  BY <1>1 DEF InsertRow, TypeOK, RowsType
<1>3. nextId \in Int /\ \A j \in Ids : j \in Int
  BY DEF TypeOK, RowsType, Ids
<1>4. life[nextId] = "unborn"
  BY <1>1, <1>3 DEF life, Unstarted
<1>5. life' = [life EXCEPT ![nextId] = state]
  <2>1. \A j \in Ids : j # nextId => ((j < nextId') <=> (j < nextId))
    BY <1>2, <1>3
  <2>2. life'[nextId] = state /\ \A j \in Ids : j # nextId => life'[j] = life[j]
    BY <1>1, <1>2, <2>1 DEF life, Exists
  <2>3. QED
    BY <1>1, <2>2 DEF life
<1>6. Catalog!Born(nextId, state)
  BY <1>4, <1>5 DEF Catalog!Born
<1>7. QED
  BY <1>1, <1>6 DEF Catalog!Next, Catalog!States

\* An UPDATE by the goroutine of a row settles it, or finds it gone.
LEMMA UpdateIsSettlement ==
  ASSUME TypeOK, Tasks, NEW i \in Ids, Working(i), NEW state \in {"ready", "error"}, NEW sha,
         UpdateRow(i, state, sha)
  PROVE  Catalog!Next \/ UNCHANGED life
<1>1. CASE Exists(i)
  <2>1. /\ rows'[i].status = state /\ \A j \in Ids : j # i => rows'[j] = rows[j]
        /\ nextId' = nextId
    BY <1>1 DEF UpdateRow, TypeOK, RowsType
  <2>2. life[i] = "downloading"
    BY <1>1 DEF Tasks, TasksOpen, life
  <2>3. life' = [life EXCEPT ![i] = state]
    BY <2>1 DEF life, Exists
  <2>4. Catalog!Settle(i, state)
    BY <2>2, <2>3 DEF Catalog!Settle
  <2>5. QED
    BY <2>4 DEF Catalog!Next, Catalog!States
<1>2. CASE ~Exists(i)
  BY <1>2 DEF UpdateRow, life, Exists
<1>3. QED
  BY <1>1, <1>2

\* A DELETE is a death, or finds the row gone.
LEMMA DeleteIsDeath ==
  ASSUME TypeOK, Tasks, NEW i \in Ids, DeleteISO(i)
  PROVE  Catalog!Next \/ UNCHANGED life
<1>1. /\ rows'[i].status = "absent" /\ \A j \in Ids : j # i => rows'[j] = rows[j]
      /\ nextId' = nextId
  BY DEF DeleteISO, NoRow, TypeOK, RowsType
<1>2. CASE Exists(i)
  <2>1. i < nextId
    <3>1. i \in Int /\ nextId \in Int
      BY DEF TypeOK, RowsType, Ids
    <3>2. ~(i >= nextId)
      BY <1>2 DEF Tasks, UnusedIds
    <3>3. QED
      BY <3>1, <3>2
  <2>2. life[i] \in {"downloading", "ready", "error"}
    BY <1>2 DEF life, TypeOK, RowsType, Rows, Exists, NoRow
  <2>3. life' = [life EXCEPT ![i] = "deleted"]
    BY <1>1, <2>1 DEF life, Exists
  <2>4. Catalog!Die(i)
    BY <2>2, <2>3 DEF Catalog!Die
  <2>5. QED
    BY <2>4 DEF Catalog!Next, Catalog!States
<1>3. CASE ~Exists(i)
  BY <1>1, <1>3 DEF life, Exists
<1>4. QED
  BY <1>2, <1>3

LEMMA CatalogStep == TypeOK /\ Tasks /\ [Next]_vars => [Catalog!Next]_life
<1> SUFFICES ASSUME TypeOK, Tasks, [Next]_vars PROVE Catalog!Next \/ UNCHANGED life
  OBVIOUS
<1> USE DEF catalog
<1>1. ASSUME UNCHANGED <<rows, nextId>> PROVE UNCHANGED life
  BY <1>1 DEF life, Exists
<1>2. ASSUME NEW c \in Clients, UploadInsert(c) \/ ImportInsert(c) PROVE Catalog!Next
  BY <1>2, InsertIsBirth DEF UploadInsert, ImportInsert
<1>3. ASSUME NEW i \in Ids, MarkReady(i) \/ MarkError(i) PROVE Catalog!Next \/ UNCHANGED life
  <2>1. Working(i)
    BY <1>3 DEF MarkReady, MarkError, Working
  <2>2. QED
    BY <1>1, <1>3, <2>1, UpdateIsSettlement DEF MarkReady, MarkError
<1>4. ASSUME NEW c \in Clients, DeleteRow(c) PROVE Catalog!Next \/ UNCHANGED life
  <2>1. req[c].id \in Ids
    BY <1>4 DEF DeleteRow, At, TypeOK, Request
  <2>2. QED
    BY <1>1, <1>4, <2>1, DeleteIsDeath DEF DeleteRow
<1>5. CASE \E c \in Clients :
          \/ UploadOpen(c) \/ DeleteLookup(c) \/ ServeLookup(c) \/ UploadCopied(c)
          \/ UploadBroken(c) \/ UploadRefused(c) \/ UploadReread(c) \/ UploadDiscard(c)
          \/ Import(c) \/ DeleteCancel(c) \/ DeleteFile(c) \/ ServeOpen(c) \/ ServeDone(c)
  BY <1>1, <1>5
     DEF UploadOpen, DeleteLookup, ServeLookup, UploadCopied, UploadBroken, UploadRefused,
         UploadReread, UploadDiscard, Import, ImportReread, ImportStart, DeleteCancel,
         DeleteFile, ServeOpen, ServeDone
<1>6. CASE \E i \in Ids :
          \/ DownloadOpen(i) \/ DownloadRefused(i) \/ DownloadFetched(i) \/ DownloadBroken(i)
          \/ FailureReread(i) \/ SuccessReread(i) \/ DownloadClean(i) \/ DownloadExit(i)
  BY <1>1, <1>6
     DEF DownloadOpen, DownloadRefused, DownloadFetched, DownloadBroken, FailureReread,
         SuccessReread, DownloadClean, DownloadExit
<1>7. CASE Restart \/ UNCHANGED vars
  BY <1>1, <1>7 DEF Restart, vars
<1>8. QED
  BY <1>2, <1>3, <1>4, <1>5, <1>6, <1>7 DEF Next, Upload, Delete, RunDownload, Rest

(***************************************************************************)
(* The library keeps the promise of IsoCatalog whatever fails and whoever  *)
(* interleaves: a row settles at most once, from downloading, and what was *)
(* deleted stays deleted.                                                  *)
(***************************************************************************)
THEOREM CatalogCorrect == Spec => CatalogSpec
BY TypeCorrect, TasksCorrect, CatalogInit, CatalogStep, PTL
   DEF Spec, CatalogSpec, Catalog!Spec

---------------------------------------------------------------------------
(* Files *)

\* What a step may do to the directory and its files.
LEMMA FilesStep ==
  ASSUME TypeOK, [Next]_vars
  PROVE  \/ UNCHANGED files
         \/ \E n \in Inodes : CompleteFile(n)
         \/ \E p \in Paths : CreateFile(p)
         \/ \E p : Unlink(p)
<1>1. ASSUME NEW c \in Clients, UploadOpen(c) PROVE \E p \in Paths : CreateFile(p)
  BY <1>1, BaseInPaths DEF UploadOpen
<1>2. ASSUME NEW i \in Ids, DownloadOpen(i) PROVE \E p \in Paths : CreateFile(p)
  BY <1>2, BaseInPaths DEF DownloadOpen, TypeOK, Download
<1>3. ASSUME NEW c \in Clients, UploadCopied(c) PROVE \E n \in Inodes : CompleteFile(n)
  BY <1>3 DEF UploadCopied, At, TypeOK, Request
<1>4. ASSUME NEW i \in Ids, DownloadFetched(i) PROVE \E n \in Inodes : CompleteFile(n)
  BY <1>4 DEF DownloadFetched, TypeOK, Download
<1>5. CASE \E c \in Clients :
          UploadBroken(c) \/ UploadDiscard(c) \/ DeleteFile(c)
  BY <1>5 DEF UploadBroken, UploadDiscard, DeleteFile
<1>6. CASE \E i \in Ids : DownloadBroken(i) \/ DownloadClean(i)
  BY <1>6 DEF DownloadBroken, DownloadClean
<1>7. CASE \E c \in Clients :
          \/ ImportInsert(c) \/ DeleteLookup(c) \/ ServeLookup(c) \/ UploadInsert(c)
          \/ UploadRefused(c) \/ UploadReread(c) \/ Import(c) \/ DeleteCancel(c)
          \/ DeleteRow(c) \/ ServeOpen(c) \/ ServeDone(c)
  BY <1>7
     DEF ImportInsert, DeleteLookup, ServeLookup, UploadInsert, UploadRefused, UploadReread,
         Import, ImportReread, ImportStart, DeleteCancel, DeleteRow, ServeOpen, ServeDone
<1>8. CASE \E i \in Ids :
          \/ DownloadRefused(i) \/ FailureReread(i) \/ MarkError(i) \/ SuccessReread(i)
          \/ MarkReady(i) \/ DownloadExit(i)
  BY <1>8
     DEF DownloadRefused, FailureReread, MarkError, SuccessReread, MarkReady, DownloadExit
<1>9. CASE Restart \/ UNCHANGED vars
  BY <1>9 DEF Restart, vars, files
<1>10. QED
  BY <1>1, <1>2, <1>3, <1>4, <1>5, <1>6, <1>7, <1>8, <1>9
     DEF Next, Upload, Delete, RunDownload, Rest

(***************************************************************************)
(* A complete file is never opened for writing again: O_EXCL always makes  *)
(* a file of its own.                                                      *)
(***************************************************************************)
THEOREM CompleteIsFinalCorrect == Spec => CompleteIsFinal
<1>1. TypeOK /\ Holding /\ [Next]_vars =>
         [\A n \in Inodes : content[n] = "complete" => content'[n] = "complete"]_content
  <2> SUFFICES ASSUME TypeOK, Holding, [Next]_vars, NEW n \in Inodes, content[n] = "complete"
               PROVE  content'[n] = "complete"
    OBVIOUS
  <2>1. n # nextIno
    BY DEF Holding, FreshInodes, TypeOK, FilesType, Inodes
  <2>2. QED
    BY <2>1, FilesStep DEF TypeOK, FilesType, files, CompleteFile, CreateFile, Unlink
<1>2. QED
  BY <1>1, TypeCorrect, HoldingCorrect, PTL DEF Spec, CompleteIsFinal

---------------------------------------------------------------------------
(***************************************************************************)
(* Partial files.  A path links an inode that was made, so a new file is   *)
(* found at its writer's path only.                                        *)
(***************************************************************************)
LinkedInodes == \A p \in Paths : disk[p] # None => disk[p] < nextIno

\* A transfer that stops writing has unlinked its file or completed it.
LEMMA WritersKept ==
  ASSUME TypeOK, PartialHasWriter, restarts' = restarts,
         \A p \in Paths : disk'[p] = None \/ disk'[p] = disk[p],
         \A n \in Inodes : content'[n] = "partial" => content[n] = "partial",
         \A c \in Clients : req[c].pc = "copy" =>
            \/ req'[c] = req[c]
            \/ disk'[Base[req[c].file]] = None \/ content'[req[c].ino] # "partial",
         \A i \in Ids : dl[i].pc = "fetch" =>
            \/ dl'[i].pc = "fetch" /\ dl'[i].file = dl[i].file /\ dl'[i].ino = dl[i].ino
            \/ disk'[Base[dl[i].file]] = None \/ content'[dl[i].ino] # "partial"
  PROVE  PartialHasWriter'
<1> SUFFICES ASSUME restarts' = 0, NEW p \in Paths, disk'[p] # None,
                    content'[disk'[p]] = "partial"
             PROVE  \/ \E c \in Clients : Uploading(c, disk[p])' /\ Base[req'[c].file] = p
                    \/ \E i \in Ids : Fetching(i, disk[p])' /\ Base[dl'[i].file] = p
  BY DEF PartialHasWriter, Uploading, Fetching
<1>1. disk'[p] = disk[p] /\ disk[p] \in Inodes /\ content[disk[p]] = "partial" /\ restarts = 0
  BY DEF TypeOK, FilesType
<1>2. CASE \E c \in Clients : Uploading(c, disk[p]) /\ Base[req[c].file] = p
  BY <1>1, <1>2 DEF Uploading
<1>3. CASE \E i \in Ids : Fetching(i, disk[p]) /\ Base[dl[i].file] = p
  BY <1>1, <1>3 DEF Fetching
<1>4. QED
  BY <1>1, <1>2, <1>3 DEF PartialHasWriter

LEMMA LinkedStep == TypeOK /\ LinkedInodes /\ [Next]_vars => LinkedInodes'
<1> SUFFICES ASSUME TypeOK, LinkedInodes, [Next]_vars PROVE LinkedInodes'
  OBVIOUS
<1> USE DEF TypeOK, FilesType, LinkedInodes
<1>1. CASE \E p \in Paths : CreateFile(p)
  BY <1>1 DEF CreateFile, Inodes
<1>2. CASE \E p : Unlink(p)
  BY <1>2 DEF Unlink
<1>3. QED
  BY <1>1, <1>2, FilesStep DEF files, CompleteFile

\* A new file has its writer, and links at no other path.
LEMMA NewWriter ==
  ASSUME TypeOK, Holding, LinkedInodes, PartialHasWriter, restarts' = restarts,
         NEW q \in Paths, CreateFile(q),
         \A c \in Clients : req[c].pc = "copy" => req'[c] = req[c],
         \A i \in Ids : dl[i].pc = "fetch" => dl'[i] = dl[i],
         \/ \E c \in Clients : Uploading(c, disk[q])' /\ Base[req'[c].file] = q
         \/ \E i \in Ids : Fetching(i, disk[q])' /\ Base[dl'[i].file] = q
  PROVE  PartialHasWriter'
<1> SUFFICES ASSUME restarts' = 0, NEW p \in Paths, p # q, disk'[p] # None,
                    content'[disk'[p]] = "partial"
             PROVE  \/ \E c \in Clients : Uploading(c, disk[p])' /\ Base[req'[c].file] = p
                    \/ \E i \in Ids : Fetching(i, disk[p])' /\ Base[dl'[i].file] = p
  BY DEF PartialHasWriter, Uploading, Fetching
<1>1. disk'[p] = disk[p] /\ disk[p] # nextIno
  BY DEF CreateFile, TypeOK, FilesType, LinkedInodes, Inodes
<1>2. content[disk[p]] = "partial" /\ restarts = 0
  BY <1>1 DEF CreateFile, TypeOK, FilesType
<1>3. QED
  BY <1>1, <1>2 DEF PartialHasWriter, Uploading, Fetching

LEMMA WritersStep ==
  TypeOK /\ Holding /\ Tasks /\ LinkedInodes /\ PartialHasWriter /\ [Next]_vars
    => PartialHasWriter'
<1> SUFFICES ASSUME TypeOK, Holding, Tasks, LinkedInodes, PartialHasWriter, [Next]_vars
             PROVE  PartialHasWriter'
  OBVIOUS
<1> DEFINE
      FilesKept ==
        /\ \A p \in Paths : disk'[p] = None \/ disk'[p] = disk[p]
        /\ \A n \in Inodes : content'[n] = "partial" => content[n] = "partial"
      UploadsKept == \A c \in Clients : req[c].pc = "copy" =>
        \/ req'[c] = req[c]
        \/ disk'[Base[req[c].file]] = None \/ content'[req[c].ino] # "partial"
      FetchesKept == \A i \in Ids : dl[i].pc = "fetch" =>
        \/ dl'[i].pc = "fetch" /\ dl'[i].file = dl[i].file /\ dl'[i].ino = dl[i].ino
        \/ disk'[Base[dl[i].file]] = None \/ content'[dl[i].ino] # "partial"
<1>1. ASSUME FilesKept, UploadsKept, FetchesKept, restarts' = restarts PROVE PartialHasWriter'
  BY <1>1, WritersKept
<1>2. ASSUME UNCHANGED files PROVE FilesKept
  BY <1>2 DEF files
<1>3. ASSUME NEW p, Unlink(p) PROVE FilesKept
  BY <1>3 DEF Unlink, TypeOK, FilesType
<1>4. ASSUME NEW n, CompleteFile(n) PROVE FilesKept
  BY <1>4 DEF CompleteFile, TypeOK, FilesType
<1>5. ASSUME UNCHANGED req PROVE UploadsKept
  BY <1>5
<1>6. ASSUME UNCHANGED dl PROVE FetchesKept
  BY <1>6
<1>7. ASSUME NEW c \in Clients, req[c].pc # "copy", \A d \in Clients : d # c => req'[d] = req[d]
      PROVE  UploadsKept
  BY <1>7
<1>8. ASSUME NEW i \in Ids, dl[i].pc # "fetch", \A j \in Ids : j # i => dl'[j] = dl[j]
      PROVE  FetchesKept
  BY <1>8
<1> HIDE DEF FilesKept, UploadsKept, FetchesKept
<1>9. ASSUME NEW c \in Clients, UploadOpen(c) PROVE PartialHasWriter'
  <2>1. PICK f \in Filenames :
             /\ CreateFile(Base[f]) /\ Base[f] \in Paths /\ Base[Base[f]] = Base[f]
             /\ req' = [req EXCEPT ![c] = [Idle EXCEPT !.pc = "copy",
                          !.file = Base[f], !.ino = disk'[Base[f]]]]
    BY <1>9, BaseInPaths, NamesAssumption DEF UploadOpen
  <2>2. /\ req'[c].pc = "copy" /\ req'[c].file = Base[f] /\ req'[c].ino = disk'[Base[f]]
        /\ \A d \in Clients : d # c => req'[d] = req[d]
    BY <2>1 DEF Idle, TypeOK
  <2>3. dl' = dl /\ restarts' = restarts /\ req[c].pc = "idle"
    BY <1>9 DEF UploadOpen, Arrives
  <2>4. QED
    BY <2>1, <2>2, <2>3, NewWriter DEF Uploading, Fetching
<1>10. ASSUME NEW i \in Ids, DownloadOpen(i) PROVE PartialHasWriter'
  <2>1. CreateFile(Base[dl[i].file]) /\ Base[dl[i].file] \in Paths
    BY <1>10, BaseInPaths DEF DownloadOpen, TypeOK, Download
  <2>2. /\ dl'[i].pc = "fetch" /\ dl'[i].file = dl[i].file
        /\ dl'[i].ino = disk'[Base[dl[i].file]]
        /\ \A j \in Ids : j # i => dl'[j] = dl[j]
    BY <1>10 DEF DownloadOpen, TypeOK, Download
  <2>3. req' = req /\ restarts' = restarts /\ dl[i].pc = "open"
    BY <1>10 DEF DownloadOpen, bounds
  <2>4. QED
    BY <2>1, <2>2, <2>3, NewWriter DEF Uploading, Fetching
<1>11. ASSUME NEW c \in Clients, UploadCopied(c) PROVE PartialHasWriter'
  <2>1. CompleteFile(req[c].ino) /\ req[c].ino \in Inodes
    BY <1>11 DEF UploadCopied, At, TypeOK, Request
  <2>2. content'[req[c].ino] = "complete"
    BY <2>1 DEF CompleteFile, TypeOK, FilesType
  <2>3. UploadsKept
    BY <1>11, <2>2 DEF UploadCopied, Goto, TypeOK, UploadsKept
  <2>4. QED
    BY <1>11, <2>1, <2>3, <1>1, <1>4, <1>6 DEF UploadCopied, bounds
<1>12. ASSUME NEW c \in Clients, UploadBroken(c) PROVE PartialHasWriter'
  <2>1. Unlink(Base[req[c].file]) /\ Base[req[c].file] \in Paths
    BY <1>12, BaseInPaths DEF UploadBroken, At, TypeOK, Request
  <2>2. disk'[Base[req[c].file]] = None
    BY <2>1 DEF Unlink, TypeOK, FilesType
  <2>3. UploadsKept
    BY <1>12, <2>2 DEF UploadBroken, Return, TypeOK, UploadsKept
  <2>4. QED
    BY <1>12, <2>1, <2>3, <1>1, <1>3, <1>6 DEF UploadBroken, bounds
<1>13. ASSUME NEW i \in Ids, DownloadFetched(i) PROVE PartialHasWriter'
  <2>1. CompleteFile(dl[i].ino) /\ dl[i].ino \in Inodes
    BY <1>13 DEF DownloadFetched, TypeOK, Download
  <2>2. content'[dl[i].ino] = "complete"
    BY <2>1 DEF CompleteFile, TypeOK, FilesType
  <2>3. \A j \in Ids : j # i => dl'[j] = dl[j]
    BY <1>13 DEF DownloadFetched, DownloadGoto, TypeOK
  <2>4. FetchesKept
    BY <2>2, <2>3 DEF FetchesKept
  <2>5. QED
    BY <1>13, <2>1, <2>4, <1>1, <1>4, <1>5 DEF DownloadFetched, bounds
<1>14. ASSUME NEW i \in Ids, DownloadBroken(i) PROVE PartialHasWriter'
  <2>1. Unlink(Base[dl[i].file]) /\ Base[dl[i].file] \in Paths
    BY <1>14, BaseInPaths DEF DownloadBroken, TypeOK, Download
  <2>2. disk'[Base[dl[i].file]] = None
    BY <2>1 DEF Unlink, TypeOK, FilesType
  <2>3. \A j \in Ids : j # i => dl'[j] = dl[j]
    BY <1>14 DEF DownloadBroken, DownloadGoto, TypeOK
  <2>4. FetchesKept
    BY <2>2, <2>3 DEF FetchesKept
  <2>5. QED
    BY <1>14, <2>1, <2>4, <1>1, <1>3, <1>5 DEF DownloadBroken, bounds
<1>15. CASE \E c \in Clients :
          \/ ImportInsert(c) \/ DeleteLookup(c) \/ ServeLookup(c) \/ UploadInsert(c)
          \/ UploadRefused(c) \/ UploadReread(c) \/ UploadDiscard(c) \/ ImportReread(c)
          \/ DeleteRow(c) \/ DeleteFile(c) \/ ServeOpen(c) \/ ServeDone(c)
  <2>1. PICK c \in Clients :
          \/ ImportInsert(c) \/ DeleteLookup(c) \/ ServeLookup(c) \/ UploadInsert(c)
          \/ UploadRefused(c) \/ UploadReread(c) \/ UploadDiscard(c) \/ ImportReread(c)
          \/ DeleteRow(c) \/ DeleteFile(c) \/ ServeOpen(c) \/ ServeDone(c)
    BY <1>15
  <2> USE DEF ImportInsert, DeleteLookup, ServeLookup, UploadInsert, UploadRefused,
              UploadReread, UploadDiscard, ImportReread, DeleteRow, DeleteFile, ServeOpen,
              ServeDone
  <2>2. req[c].pc # "copy"
    BY <2>1 DEF Arrives, At
  <2>3. \A d \in Clients : d # c => req'[d] = req[d]
    BY <2>1 DEF Goto, Return, TypeOK
  <2>4. UNCHANGED dl /\ restarts' = restarts
    BY <2>1 DEF bounds
  <2>5. UNCHANGED files \/ \E p : Unlink(p)
    BY <2>1
  <2>6. QED
    BY <2>2, <2>3, <2>4, <2>5, <1>1, <1>2, <1>3, <1>6, <1>7
<1>16. ASSUME NEW c \in Clients, ImportStart(c) PROVE PartialHasWriter'
  <2>1. Pending(c) /\ req[c].id \in Ids /\ req[c].pc # "copy"
    BY <1>16 DEF ImportStart, At, Pending, TypeOK, Request
  <2>2. ~Running(req[c].id)
    BY <2>1 DEF Tasks, OneTask
  <2>3. \A d \in Clients : d # c => req'[d] = req[d]
    BY <1>16 DEF ImportStart, Return, TypeOK
  <2>4. \A j \in Ids : j # req[c].id => dl'[j] = dl[j]
    BY <1>16, <2>1 DEF ImportStart, TypeOK
  <2>5. UNCHANGED files /\ restarts' = restarts
    BY <1>16 DEF ImportStart, bounds
  <2>6. QED
    BY <2>1, <2>2, <2>3, <2>4, <2>5, <1>1, <1>2, <1>7, <1>8 DEF Running
<1>17. ASSUME NEW c \in Clients, DeleteCancel(c) PROVE PartialHasWriter'
  <2>1. /\ req[c].pc # "copy" /\ \A d \in Clients : d # c => req'[d] = req[d]
    BY <1>17 DEF DeleteCancel, At, Goto, TypeOK
  <2>2. \A i \in Ids : dl'[i].pc = dl[i].pc /\ dl'[i].file = dl[i].file /\ dl'[i].ino = dl[i].ino
    BY <1>17 DEF DeleteCancel, TypeOK, Download
  <2>3. FetchesKept
    BY <2>2 DEF FetchesKept
  <2>4. UNCHANGED files /\ restarts' = restarts
    BY <1>17 DEF DeleteCancel, bounds
  <2>5. QED
    BY <2>1, <2>3, <2>4, <1>1, <1>2, <1>7
<1>18. CASE \E i \in Ids :
          \/ DownloadRefused(i) \/ FailureReread(i) \/ MarkError(i) \/ SuccessReread(i)
          \/ MarkReady(i) \/ DownloadClean(i) \/ DownloadExit(i)
  <2>1. PICK i \in Ids :
          \/ DownloadRefused(i) \/ FailureReread(i) \/ MarkError(i) \/ SuccessReread(i)
          \/ MarkReady(i) \/ DownloadClean(i) \/ DownloadExit(i)
    BY <1>18
  <2> USE DEF DownloadRefused, FailureReread, MarkError, SuccessReread, MarkReady,
              DownloadClean, DownloadExit
  <2>2. dl[i].pc # "fetch"
    BY <2>1
  <2>3. \A j \in Ids : j # i => dl'[j] = dl[j]
    BY <2>1 DEF DownloadGoto, TypeOK
  <2>4. UNCHANGED req /\ restarts' = restarts
    BY <2>1 DEF bounds
  <2>5. UNCHANGED files \/ \E p : Unlink(p)
    BY <2>1
  <2>6. QED
    BY <2>2, <2>3, <2>4, <2>5, <1>1, <1>2, <1>3, <1>5, <1>8
<1>19. CASE Restart
  BY <1>19 DEF Restart, PartialHasWriter, TypeOK
<1>20. CASE UNCHANGED vars
  BY <1>20, <1>1, <1>2, <1>5, <1>6 DEF vars, files
<1>21. QED
  BY <1>9, <1>10, <1>11, <1>12, <1>13, <1>14, <1>15, <1>16, <1>17, <1>18, <1>19, <1>20
     DEF Next, Upload, Import, Delete, RunDownload, Rest

(***************************************************************************)
(* Until a restart, every half-written file in the directory has its       *)
(* writer at work.                                                         *)
(***************************************************************************)
THEOREM PartialHasWriterCorrect == Spec => []PartialHasWriter
<1>1. Init => LinkedInodes /\ PartialHasWriter
  BY DEF Init, LinkedInodes, PartialHasWriter
<1>2. QED
  BY <1>1, TypeCorrect, HoldingCorrect, TasksCorrect, LinkedStep, WritersStep, PTL DEF Spec
===========================================================================
