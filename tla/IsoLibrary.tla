---------------------------- MODULE IsoLibrary ----------------------------
(***************************************************************************)
(* The ISO library: the isos table, the flat directory of .iso files and   *)
(* the HTTP handlers and background goroutines that keep the two in step   *)
(* (internal/handlers/isos.go, internal/isolib, internal/db/isos.go).      *)
(*                                                                         *)
(* The table and the directory share no transaction.  A handler is a chain *)
(* of single statements and single system calls, so every statement and    *)
(* every system call is a step of its own here, and the steps of all       *)
(* requests and goroutines interleave.                                     *)
(*                                                                         *)
(* A file is an inode.  Its bytes are abstracted to how far its transfer   *)
(* got, and a checksum to the inode it was computed over.                  *)
(***************************************************************************)
EXTENDS Integers, FiniteSets

CONSTANTS
    Clients,       \* concurrent HTTP requests of the process
    Filenames,     \* the names clients send, with the basenames of those
    Base,          \* filepath.Base: the file a transfer of a name writes
    Declared,      \* path.Join(root, name): the path the row records
    None,
    MaxTransfers,  \* bound: uploads and imports begun in one behaviour
    MaxRestarts,   \* bound: restarts of the process in one behaviour
    Requests,      \* which requests the clients send
    Faults,        \* which of "disconnect", "database", "restart" happen
    Overlap        \* how much the admins' operations on one file overlap

Ids    == 1..MaxTransfers
Inodes == 1..MaxTransfers
Paths  == {Declared[f] : f \in Filenames} \union {Base[f] : f \in Filenames}

(***************************************************************************)
(* A name is its own basename or lies in some directory; the library is    *)
(* flat, so the declared path of a basename is the file itself.            *)
(*                                                                         *)
(* Overlap "any" lets admins work on one file at the same time; "cancel"   *)
(* lets only a delete overlap the import it cancels; "none" nothing.       *)
(***************************************************************************)
ASSUME NamesAssumption ==
    /\ DOMAIN Base = Filenames /\ DOMAIN Declared = Filenames
    /\ \A f \in Filenames :
          Base[f] \in Filenames /\ Base[Base[f]] = Base[f] /\ Declared[Base[f]] = Base[f]

ASSUME NoneAssumption == None \notin Filenames \union Inodes \union Paths

ASSUME BoundsAssumption == MaxTransfers \in Nat /\ MaxRestarts \in Nat

ASSUME OverlapAssumption == Overlap \in {"any", "cancel", "none"}

VARIABLES
    rows,      \* the isos table
    nextId,    \* its AUTOINCREMENT counter
    disk,      \* directory entries: the inode linked at a path
    content,   \* how far the transfer into an inode got
    nextIno,   \* inode numbers are fresh
    req,       \* the requests in progress: program counter and locals
    dl,        \* runDownload goroutines, at most one for an id
    active,    \* activeDownloads: ids whose cancel function is registered
    begun,     \* transfers begun (bound)
    restarts   \* restarts (bound)

vars == <<rows, nextId, disk, content, nextIno, req, dl, active, begun, restarts>>

catalog == <<rows, nextId>>
files   == <<disk, content, nextIno>>
bounds  == <<begun, restarts>>

NoRow      == [status |-> "absent", filename |-> None, sha |-> None]
Idle       == [pc |-> "idle", file |-> None, id |-> None, ino |-> None, remove |-> FALSE]
NoDownload == [pc |-> "none", file |-> None, ino |-> None, cancelled |-> FALSE]

Init ==
    /\ rows = [i \in Ids |-> NoRow] /\ nextId = 1
    /\ disk = [p \in Paths |-> None]
    /\ content = [n \in Inodes |-> "unused"] /\ nextIno = 1
    /\ req = [c \in Clients |-> Idle]
    /\ dl = [i \in Ids |-> NoDownload]
    /\ active = {}
    /\ begun = 0 /\ restarts = 0

---------------------------------------------------------------------------
(* Table and directory operations the handlers call *)

Exists(i) == rows[i].status # "absent"

\* UNIQUE(filename)
Taken(f) == \E i \in Ids : Exists(i) /\ rows[i].filename = f

\* The INSERT of CreateISO; ids are never handed out twice (AUTOINCREMENT).
InsertRow(f, status, sha) ==
    /\ nextId \in Ids /\ ~Taken(f)
    /\ rows' = [rows EXCEPT ![nextId] = [status |-> status, filename |-> f, sha |-> sha]]
    /\ nextId' = nextId + 1

\* Mutant: an upsert, which brings a deleted row back.
UpdateRowUpserting(i, status, sha) ==
    /\ rows' = [rows EXCEPT ![i] = [status |-> status, filename |-> @.filename, sha |-> sha]]
    /\ UNCHANGED nextId

\* UPDATE ... WHERE id = ?: a missing row is not an error.
UpdateRow(i, status, sha) ==
    /\ rows' = IF Exists(i)
               THEN [rows EXCEPT ![i] = [status |-> status, filename |-> @.filename, sha |-> sha]]
               ELSE rows
    /\ UNCHANGED nextId

DeleteISO(i) == rows' = [rows EXCEPT ![i] = NoRow] /\ UNCHANGED nextId

\* Mutant: os.Create, which truncates a file that exists.
CreateFileTruncating(p) ==
    IF disk[p] = None
    THEN /\ nextIno \in Inodes
         /\ disk' = [disk EXCEPT ![p] = nextIno]
         /\ content' = [content EXCEPT ![nextIno] = "partial"]
         /\ nextIno' = nextIno + 1
    ELSE content' = [content EXCEPT ![disk[p]] = "partial"] /\ UNCHANGED <<disk, nextIno>>

\* open(O_CREATE|O_EXCL): the new inode is linked at a path that was free.
CreateFile(p) ==
    /\ disk[p] = None /\ nextIno \in Inodes
    /\ disk' = [disk EXCEPT ![p] = nextIno]
    /\ content' = [content EXCEPT ![nextIno] = "partial"]
    /\ nextIno' = nextIno + 1

\* The last byte is written and the file is closed, linked or not.
CompleteFile(n) ==
    /\ content' = [content EXCEPT ![n] = "complete"]
    /\ UNCHANGED <<disk, nextIno>>

\* unlink works on the path, whichever inode is linked there by now.
Unlink(p) ==
    /\ disk' = [disk EXCEPT ![p] = None]
    /\ UNCHANGED <<content, nextIno>>

Fails(kinds) == Faults \intersect kinds # {}

---------------------------------------------------------------------------
(* Who is at work on which file, and the admins' discipline *)

Running(i) == dl[i].pc # "none"

Writing(c) == req[c].pc \notin {"idle", "serve", "stream"}

Claimed(p) == \E c \in Clients : Writing(c) /\ Base[req[c].file] = p

Downloading(p) == \E i \in Ids : Running(i) /\ Base[dl[i].file] = p

MayTransfer(f) ==
    /\ begun < MaxTransfers
    /\ Overlap # "any" => ~Claimed(Base[f]) /\ ~Downloading(Base[f])

MayDelete(f) ==
    /\ Overlap # "any" => ~Claimed(Base[f])
    /\ Overlap = "none" => ~Downloading(Base[f])

Arrives(c, kind) == kind \in Requests /\ req[c].pc = "idle"
At(c, pc)        == req[c].pc = pc
Goto(c, pc)      == req' = [req EXCEPT ![c].pc = pc]
Return(c)        == req' = [req EXCEPT ![c] = Idle]

---------------------------------------------------------------------------
(* POST /api/isos/upload *)

UploadOpen(c) == \E f \in Filenames :
    /\ Arrives(c, "upload") /\ MayTransfer(f)
    /\ CreateFile(Base[f])
    /\ req' = [req EXCEPT ![c] =
                 [Idle EXCEPT !.pc = "copy", !.file = Base[f], !.ino = disk'[Base[f]]]]
    /\ begun' = begun + 1
    /\ UNCHANGED <<catalog, dl, active, restarts>>

UploadCopied(c) ==
    /\ At(c, "copy")
    /\ CompleteFile(req[c].ino)
    /\ Goto(c, "insert")
    /\ UNCHANGED <<catalog, dl, active, bounds>>

\* Mutant: the partial file stays when the copy fails.
UploadBrokenKeeping(c) ==
    /\ At(c, "copy")
    /\ Return(c)
    /\ UNCHANGED <<catalog, files, dl, active, bounds>>

\* The body ended early or was too large: the partial file is unlinked.
UploadBroken(c) ==
    /\ At(c, "copy")
    /\ Unlink(Base[req[c].file])
    /\ Return(c)
    /\ UNCHANGED <<catalog, dl, active, bounds>>

UploadInsert(c) ==
    /\ At(c, "insert")
    /\ InsertRow(req[c].file, "ready", req[c].ino)
    /\ req' = [req EXCEPT ![c] = [@ EXCEPT !.pc = "reread", !.id = nextId]]
    /\ UNCHANGED <<files, dl, active, bounds>>

UploadRefused(c) ==
    /\ At(c, "insert")
    /\ Taken(req[c].file) \/ Fails({"disconnect", "database"})
    /\ Goto(c, "discard")
    /\ UNCHANGED <<catalog, files, dl, active, bounds>>

\* CreateISO reads the row back in a second statement.
UploadReread(c) ==
    /\ At(c, "reread")
    /\ \/ Exists(req[c].id) /\ Return(c)
       \/ (~Exists(req[c].id) \/ Fails({"disconnect", "database"})) /\ Goto(c, "discard")
    /\ UNCHANGED <<catalog, files, dl, active, bounds>>

UploadDiscard(c) ==
    /\ At(c, "discard")
    /\ Unlink(Base[req[c].file])
    /\ Return(c)
    /\ UNCHANGED <<catalog, dl, active, bounds>>

---------------------------------------------------------------------------
(* POST /api/isos/import and the goroutine it starts *)

ImportInsert(c) == \E f \in Filenames :
    /\ Arrives(c, "import") /\ MayTransfer(f)
    /\ InsertRow(f, "downloading", None)
    /\ req' = [req EXCEPT ![c] = [Idle EXCEPT !.pc = "accept", !.file = f, !.id = nextId]]
    /\ begun' = begun + 1
    /\ UNCHANGED <<files, dl, active, restarts>>

ImportReread(c) ==
    /\ At(c, "accept")
    /\ \/ Exists(req[c].id) /\ Goto(c, "start")
       \/ (~Exists(req[c].id) \/ Fails({"disconnect", "database"})) /\ Return(c)
    /\ UNCHANGED <<catalog, files, dl, active, bounds>>

\* The cancel function is registered and the goroutine starts.
ImportStart(c) ==
    /\ At(c, "start")
    /\ active' = active \union {req[c].id}
    /\ dl' = [dl EXCEPT ![req[c].id] = [NoDownload EXCEPT !.pc = "open", !.file = req[c].file]]
    /\ Return(c)
    /\ UNCHANGED <<catalog, files, bounds>>

DownloadGoto(i, pc) == dl' = [dl EXCEPT ![i].pc = pc]

DownloadOpen(i) ==
    /\ dl[i].pc = "open"
    /\ CreateFile(Base[dl[i].file])
    /\ dl' = [dl EXCEPT ![i] = [@ EXCEPT !.pc = "fetch", !.ino = disk'[Base[dl[i].file]]]]
    /\ UNCHANGED <<catalog, req, active, bounds>>

\* ErrExists
DownloadRefused(i) ==
    /\ dl[i].pc = "open" /\ disk[Base[dl[i].file]] # None
    /\ DownloadGoto(i, "failed")
    /\ UNCHANGED <<catalog, files, req, active, bounds>>

DownloadFetched(i) ==
    /\ dl[i].pc = "fetch" /\ ~dl[i].cancelled
    /\ CompleteFile(dl[i].ino)
    /\ DownloadGoto(i, "fetched")
    /\ UNCHANGED <<catalog, req, active, bounds>>

\* Mutant: the error of the copy is dropped.
DownloadBrokenUnnoticed(i) ==
    /\ dl[i].pc = "fetch"
    /\ DownloadGoto(i, "fetched")
    /\ UNCHANGED <<catalog, files, req, active, bounds>>

\* Cancelled, timed out or refused by the mirror: the file is unlinked.
DownloadBroken(i) ==
    /\ dl[i].pc = "fetch"
    /\ Unlink(Base[dl[i].file])
    /\ DownloadGoto(i, "failed")
    /\ UNCHANGED <<catalog, req, active, bounds>>

\* Mutant: a failure is logged and never recorded.
FailureRereadSilent(i) ==
    /\ dl[i].pc = "failed"
    /\ DownloadGoto(i, "exit")
    /\ UNCHANGED <<catalog, files, req, active, bounds>>

\* GetISO after a failure: the error is recorded unless the row is gone.
FailureReread(i) ==
    /\ dl[i].pc = "failed"
    /\ \/ ~Exists(i) /\ DownloadGoto(i, "exit")
       \/ (Exists(i) \/ Fails({"database"})) /\ DownloadGoto(i, "report")
    /\ UNCHANGED <<catalog, files, req, active, bounds>>

MarkError(i) ==
    /\ dl[i].pc = "report"
    /\ UpdateRow(i, "error", rows[i].sha) \/ (Fails({"database"}) /\ UNCHANGED catalog)
    /\ DownloadGoto(i, "exit")
    /\ UNCHANGED <<files, req, active, bounds>>

\* GetISO after a success: the row may have been deleted meanwhile.
SuccessReread(i) ==
    /\ dl[i].pc = "fetched"
    /\ \/ Exists(i) /\ DownloadGoto(i, "commit")
       \/ ~Exists(i) /\ DownloadGoto(i, "clean")
       \/ Fails({"database"}) /\ DownloadGoto(i, "exit")
    /\ UNCHANGED <<catalog, files, req, active, bounds>>

MarkReady(i) ==
    /\ dl[i].pc = "commit"
    /\ UpdateRow(i, "ready", dl[i].ino) \/ (Fails({"database"}) /\ UNCHANGED catalog)
    /\ DownloadGoto(i, "exit")
    /\ UNCHANGED <<files, req, active, bounds>>

DownloadClean(i) ==
    /\ dl[i].pc = "clean"
    /\ Unlink(Base[dl[i].file])
    /\ DownloadGoto(i, "exit")
    /\ UNCHANGED <<catalog, req, active, bounds>>

\* Mutant: the cancel function is not deregistered.
DownloadExitLeaking(i) ==
    /\ dl[i].pc = "exit"
    /\ dl' = [dl EXCEPT ![i] = NoDownload]
    /\ UNCHANGED <<catalog, files, req, active, bounds>>

\* The deferred delete of the cancel function.
DownloadExit(i) ==
    /\ dl[i].pc = "exit"
    /\ active' = active \ {i}
    /\ dl' = [dl EXCEPT ![i] = NoDownload]
    /\ UNCHANGED <<catalog, files, req, bounds>>

---------------------------------------------------------------------------
(* DELETE /api/isos/{id}?delete_file=... *)

\* Status and path are read here and used three steps later.
DeleteLookup(c) == \E i \in Ids, deleteFile \in BOOLEAN :
    /\ Arrives(c, IF deleteFile THEN "delete" ELSE "delete_keep")
    /\ Exists(i) /\ MayDelete(rows[i].filename)
    /\ req' = [req EXCEPT ![c] = [Idle EXCEPT
                 !.pc = "cancel", !.file = rows[i].filename, !.id = i,
                 !.remove = (deleteFile /\ rows[i].status # "downloading")]]
    /\ UNCHANGED <<catalog, files, dl, active, bounds>>

\* Mutant: the file goes first and the row after it.
DeleteCancelFileFirst(c) ==
    /\ At(c, "cancel")
    /\ LET i == req[c].id IN
          /\ active' = active \ {i}
          /\ dl' = IF i \in active THEN [dl EXCEPT ![i].cancelled = TRUE] ELSE dl
    /\ IF req[c].remove THEN Unlink(Declared[req[c].file]) ELSE UNCHANGED files
    /\ Goto(c, "drop")
    /\ UNCHANGED <<catalog, bounds>>

DeleteCancel(c) ==
    /\ At(c, "cancel")
    /\ LET i == req[c].id IN
          /\ active' = active \ {i}
          /\ dl' = IF i \in active THEN [dl EXCEPT ![i].cancelled = TRUE] ELSE dl
    /\ Goto(c, "drop")
    /\ UNCHANGED <<catalog, files, bounds>>

DeleteRow(c) ==
    /\ At(c, "drop")
    /\ \/ /\ DeleteISO(req[c].id)
          /\ IF req[c].remove THEN Goto(c, "remove") ELSE Return(c)
       \/ /\ Fails({"disconnect", "database"})
          /\ Return(c) /\ UNCHANGED catalog
    /\ UNCHANGED <<files, dl, active, bounds>>

DeleteFile(c) ==
    /\ At(c, "remove")
    /\ Unlink(Declared[req[c].file])
    /\ Return(c)
    /\ UNCHANGED <<catalog, dl, active, bounds>>

---------------------------------------------------------------------------
(* GET /iso/{id}/{filename}, fetched by a BMC *)

ServeLookup(c) == \E i \in Ids :
    /\ Arrives(c, "serve") /\ rows[i].status = "ready"
    /\ req' = [req EXCEPT ![c] =
                 [Idle EXCEPT !.pc = "serve", !.file = rows[i].filename, !.id = i]]
    /\ UNCHANGED <<catalog, files, dl, active, bounds>>

ServeOpen(c) ==
    /\ At(c, "serve")
    /\ LET n == disk[Declared[req[c].file]] IN
          IF n = None THEN Return(c)
          ELSE req' = [req EXCEPT ![c] = [@ EXCEPT !.pc = "stream", !.ino = n]]
    /\ UNCHANGED <<catalog, files, dl, active, bounds>>

ServeDone(c) ==
    /\ At(c, "stream")
    /\ Return(c)
    /\ UNCHANGED <<catalog, files, dl, active, bounds>>

---------------------------------------------------------------------------
(* The process *)

\* Requests, goroutines and activeDownloads die; table and directory stay,
\* and start-up repairs neither.
Restart ==
    /\ Fails({"restart"}) /\ restarts < MaxRestarts
    /\ req' = [c \in Clients |-> Idle]
    /\ dl' = [i \in Ids |-> NoDownload]
    /\ active' = {}
    /\ restarts' = restarts + 1
    /\ UNCHANGED <<catalog, files, begun>>

Upload(c) ==
    \/ UploadCopied(c) \/ UploadBroken(c) \/ UploadInsert(c)
    \/ UploadRefused(c) \/ UploadReread(c) \/ UploadDiscard(c)

Import(c) == ImportReread(c) \/ ImportStart(c)

Delete(c) == DeleteCancel(c) \/ DeleteRow(c) \/ DeleteFile(c)

RunDownload(i) ==
    \/ DownloadOpen(i) \/ DownloadRefused(i) \/ DownloadFetched(i) \/ DownloadBroken(i)
    \/ FailureReread(i) \/ MarkError(i) \/ SuccessReread(i) \/ MarkReady(i)
    \/ DownloadClean(i) \/ DownloadExit(i)

Quiet == (\A c \in Clients : req[c] = Idle) /\ (\A i \in Ids : ~Running(i))

\* Nobody asks for anything; a request or goroutine that cannot go on is
\* a deadlock.
Rest == Quiet /\ UNCHANGED vars

Next ==
    \/ \E c \in Clients :
          \/ UploadOpen(c) \/ ImportInsert(c) \/ DeleteLookup(c) \/ ServeLookup(c)
          \/ Upload(c) \/ Import(c) \/ Delete(c) \/ ServeOpen(c) \/ ServeDone(c)
    \/ \E i \in Ids : RunDownload(i)
    \/ Restart
    \/ Rest

Spec == Init /\ [][Next]_vars

(***************************************************************************)
(* The scheduler runs every handler and goroutine that can go on; a fetch  *)
(* ends by itself or by downloadTimeout.  Nothing makes a client send a    *)
(* request, or finish the body of an upload: there is no read timeout.     *)
(***************************************************************************)
Fairness ==
    /\ \A c \in Clients : WF_vars(Import(c)) /\ WF_vars(Delete(c))
    /\ \A i \in Ids : WF_vars(RunDownload(i))

FairSpec == Spec /\ Fairness
---------------------------------------------------------------------------
(* Properties *)

Rows == {NoRow} \union
        [status : {"downloading", "ready", "error"}, filename : Filenames,
         sha : Inodes \union {None}]

RequestPcs == {"idle", "copy", "insert", "reread", "discard", "accept", "start",
               "cancel", "drop", "remove", "serve", "stream"}

DownloadPcs == {"none", "open", "fetch", "fetched", "failed", "report", "commit",
                "clean", "exit"}

Request == {r \in [pc : RequestPcs, file : Filenames \union {None}, id : Ids \union {None},
                    ino : Inodes \union {None}, remove : BOOLEAN] :
    /\ r.pc # "idle" => r.file \in Filenames
    /\ r.pc \in {"copy", "insert"} => r.ino \in Inodes
    /\ r.pc \in {"reread", "accept", "start", "cancel", "drop", "serve", "stream"}
         => r.id \in Ids}

Download == {d \in [pc : DownloadPcs, file : Filenames \union {None},
                     ino : Inodes \union {None}, cancelled : BOOLEAN] :
    /\ d.pc # "none" => d.file \in Filenames
    /\ d.pc \in {"fetch", "fetched", "commit"} => d.ino \in Inodes}

RowsType  == rows \in [Ids -> Rows] /\ nextId \in 1..(MaxTransfers + 1)

FilesType ==
    /\ disk \in [Paths -> Inodes \union {None}]
    /\ content \in [Inodes -> {"unused", "partial", "complete"}]
    /\ nextIno \in 1..(MaxTransfers + 1)

(***************************************************************************)
(* Every row that exists carries a filename (NOT NULL), every request and  *)
(* goroutine past its first step carries the locals that its next steps    *)
(* use.                                                                    *)
(***************************************************************************)
TypeOK ==
    /\ RowsType /\ FilesType
    /\ req \in [Clients -> Request]
    /\ dl \in [Ids -> Download]
    /\ active \subseteq Ids
    /\ begun \in 0..MaxTransfers /\ restarts \in 0..MaxRestarts

Uploading(c, n) == req[c].pc = "copy" /\ req[c].ino = n

Fetching(i, n) == dl[i].pc = "fetch" /\ dl[i].ino = n

(***************************************************************************)
(* O_EXCL: no two transfers ever write the same file, whatever the names   *)
(* and the deletes in between, and a writer's file is never one whose      *)
(* checksum has been taken.                                                *)
(***************************************************************************)
OneWriter == \A n \in Inodes :
    /\ \A c, d \in Clients : Uploading(c, n) /\ Uploading(d, n) => c = d
    /\ \A i, j \in Ids : Fetching(i, n) /\ Fetching(j, n) => i = j
    /\ \A c \in Clients, i \in Ids : ~(Uploading(c, n) /\ Fetching(i, n))
    /\ content[n] # "partial"
          => \A c \in Clients, i \in Ids : ~Uploading(c, n) /\ ~Fetching(i, n)

(***************************************************************************)
(* A ready row's checksum is that of a transfer that ran to its end, and   *)
(* no two rows are made from one transfer.                                 *)
(***************************************************************************)
ReadyIsComplete ==
    /\ \A i \in Ids : rows[i].status = "ready" =>
          rows[i].sha \in Inodes /\ content[rows[i].sha] = "complete"
    /\ \A i, j \in Ids : rows[i].status = "ready" /\ rows[j].status = "ready"
          /\ rows[i].sha = rows[j].sha => i = j

(***************************************************************************)
(* Bytes whose checksum may have been recorded, or that a BMC may be       *)
(* streaming, are never written again, linked or unlinked.                 *)
(***************************************************************************)
CompleteIsFinal ==
    [][\A n \in Inodes : content[n] = "complete" => content'[n] = "complete"]_content

(***************************************************************************)
(* activeDownloads holds no cancel function of a goroutine that is gone:   *)
(* a later delete never calls one, and the map does not grow for ever.     *)
(***************************************************************************)
CancelFuncsAreLive == \A i \in active : Running(i) /\ i < nextId /\ ~dl[i].cancelled

(***************************************************************************)
(* Until the process is restarted, a half-written file that can be found   *)
(* in the library has a transfer at work that will finish or unlink it.    *)
(* ("On any failure the partial file is removed", isolib.go)               *)
(***************************************************************************)
PartialHasWriter == restarts = 0 => \A p \in Paths :
    disk[p] # None /\ content[disk[p]] = "partial" =>
       \/ \E c \in Clients : Uploading(c, disk[p]) /\ Base[req[c].file] = p
       \/ \E i \in Ids : Fetching(i, disk[p]) /\ Base[dl[i].file] = p

(***************************************************************************)
(* "downloading -- HTTP fetch in progress" (0005_isos.sql): an import      *)
(* handler or a goroutine will still move the row on.                      *)
(***************************************************************************)
DownloadingIsTended == \A i \in Ids : rows[i].status = "downloading" =>
    \/ \E c \in Clients : req[c].pc \in {"accept", "start"} /\ req[c].id = i
    \/ Running(i)

\* Only a restart leaves such a row to nobody.
TendedUntilRestart == restarts = 0 => DownloadingIsTended

(***************************************************************************)
(* "ready -- file exists, sha256 populated" (0005_isos.sql): the file at   *)
(* the row's path is the one the checksum was taken of.                    *)
(***************************************************************************)
ReadyFileExists == \A i \in Ids :
    rows[i].status = "ready" => disk[Declared[rows[i].filename]] = rows[i].sha

(***************************************************************************)
(* While the row a BMC asked for exists, the stream it gets is the         *)
(* complete file that the row's checksum was taken of.                     *)
(***************************************************************************)
ServesReadyBytes == \A c \in Clients :
    req[c].pc = "stream" /\ Exists(req[c].id) =>
       req[c].ino = rows[req[c].id].sha /\ content[req[c].ino] = "complete"

(***************************************************************************)
(* Once nothing is in flight, every file in the library is named by a row: *)
(* a file that no row names can be neither listed nor deleted, and its     *)
(* name can be neither uploaded nor imported again.                        *)
(***************************************************************************)
NoOrphanFile == Quiet => \A p \in Paths :
    disk[p] # None => \E i \in Ids : Exists(i) /\ Declared[rows[i].filename] = p

(***************************************************************************)
(* Every import ends in a row that is ready, in error or deleted, unless   *)
(* the process is restarted first.                                         *)
(***************************************************************************)
ImportSettles == \A i \in Ids :
    rows[i].status = "downloading" ~> rows[i].status # "downloading" \/ restarts > 0

(***************************************************************************)
(* The catalogue the admins poll: see IsoCatalog.                          *)
(***************************************************************************)
life == [i \in Ids |-> IF Exists(i) THEN rows[i].status
                       ELSE IF i < nextId THEN "deleted" ELSE "unborn"]

Catalog == INSTANCE IsoCatalog

CatalogSpec == Catalog!Spec
===========================================================================
