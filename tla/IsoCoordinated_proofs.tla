---------------------- MODULE IsoCoordinated_proofs ----------------------
(***************************************************************************)
(* What the ISO library keeps as long as the admins do not work on one     *)
(* file at a time, and statements do not fail: proofs about IsoLibrary     *)
(* under assumptions on Overlap, Faults and the names, for every set of    *)
(* clients and every bound; the last part asks more of the requests, and   *)
(* gets a directory without files that no row names.                       *)
(***************************************************************************)
EXTENDS IsoLibrary_proofs

\* Statements succeed; transfers may fail, and the process may be restarted.
StatementsSucceed == Faults \subseteq {"restart"}

LEMMA NoStatementFails ==
  ASSUME StatementsSucceed
  PROVE  ~Fails({"disconnect", "database"}) /\ ~Fails({"database"})
BY DEF StatementsSucceed, Fails

---------------------------------------------------------------------------
(***************************************************************************)
(* Downloading rows.  A goroutine that is about to end has settled its row *)
(* or has found it gone.                                                   *)
(***************************************************************************)
Ending(i) == dl[i].pc \in {"clean", "exit"}

EndsSettled == \A i \in Ids : Ending(i) => rows[i].status # "downloading"

\* Tasks stay or have nothing left to do.
LEMMA TendedKept ==
  ASSUME TypeOK, EndsSettled, TendedUntilRestart, restarts' = restarts,
         \A i \in Ids : rows'[i].status = "downloading" => rows[i].status = "downloading",
         \A c \in Clients : Pending(c) =>
            \/ Pending(c)' /\ req'[c].id = req[c].id
            \/ rows'[req[c].id].status # "downloading"
            \/ dl'[req[c].id].pc # "none",
         \A i \in Ids : Running(i) => Running(i)' \/ rows'[i].status # "downloading",
         \A i \in Ids : Ending(i)' => Ending(i) \/ rows'[i].status # "downloading"
  PROVE  EndsSettled' /\ TendedUntilRestart'
<1>1. EndsSettled'
  BY DEF EndsSettled
<1>2. ASSUME restarts = 0, NEW i \in Ids, rows'[i].status = "downloading"
      PROVE  \/ \E c \in Clients : Pending(c)' /\ req'[c].id = i
             \/ Running(i)'
  <2>1. (\E c \in Clients : Pending(c) /\ req[c].id = i) \/ Running(i)
    BY <1>2 DEF TendedUntilRestart, DownloadingIsTended, Pending
  <2>2. QED
    BY <1>2, <2>1 DEF Running
<1>3. TendedUntilRestart'
  BY <1>2 DEF TendedUntilRestart, DownloadingIsTended, Pending
<1>4. QED
  BY <1>1, <1>3

LEMMA TendedStep ==
  ASSUME StatementsSucceed, TypeOK, Tasks, EndsSettled, TendedUntilRestart, [Next]_vars
  PROVE  EndsSettled' /\ TendedUntilRestart'
<1> DEFINE
      RowsKept == \A i \in Ids :
        rows'[i].status = "downloading" => rows[i].status = "downloading"
      RequestsKept == \A c \in Clients : Pending(c) =>
        \/ Pending(c)' /\ req'[c].id = req[c].id
        \/ rows'[req[c].id].status # "downloading"
        \/ dl'[req[c].id].pc # "none"
      DownloadsKept == \A i \in Ids :
        /\ Running(i) => Running(i)' \/ rows'[i].status # "downloading"
        /\ Ending(i)' => Ending(i) \/ rows'[i].status # "downloading"
<1>1. ASSUME RowsKept, RequestsKept, DownloadsKept, restarts' = restarts
      PROVE  EndsSettled' /\ TendedUntilRestart'
  BY <1>1, TendedKept
<1>2. ASSUME UNCHANGED catalog PROVE RowsKept
  BY <1>2 DEF catalog
<1>3. ASSUME UNCHANGED dl PROVE DownloadsKept
  BY <1>3 DEF Running, Ending
<1>4. ASSUME NEW c \in Clients, ~Pending(c), \A d \in Clients : d # c => req'[d] = req[d]
      PROVE  RequestsKept
  BY <1>4 DEF Pending
<1>5. ASSUME UNCHANGED req PROVE RequestsKept
  BY <1>5 DEF Pending
<1>6. ASSUME NEW i \in Ids, NEW pc, pc \notin {"none", "clean", "exit"}, DownloadGoto(i, pc)
      PROVE  DownloadsKept
  BY <1>6 DEF DownloadGoto, Running, Ending, TypeOK
<1>7. ASSUME NEW i \in Ids, NEW pc \in {"clean", "exit"}, DownloadGoto(i, pc),
             Ending(i) \/ rows'[i].status # "downloading"
      PROVE  DownloadsKept
  BY <1>7 DEF DownloadGoto, Running, Ending, TypeOK
<1> HIDE DEF RowsKept, RequestsKept, DownloadsKept
<1>8. CASE \E c \in Clients :
          \/ UploadOpen(c) \/ DeleteLookup(c) \/ ServeLookup(c) \/ UploadCopied(c)
          \/ UploadBroken(c) \/ UploadRefused(c) \/ UploadReread(c) \/ UploadDiscard(c)
          \/ DeleteFile(c) \/ ServeOpen(c) \/ ServeDone(c)
  <2>1. PICK c \in Clients :
          \/ UploadOpen(c) \/ DeleteLookup(c) \/ ServeLookup(c) \/ UploadCopied(c)
          \/ UploadBroken(c) \/ UploadRefused(c) \/ UploadReread(c) \/ UploadDiscard(c)
          \/ DeleteFile(c) \/ ServeOpen(c) \/ ServeDone(c)
    BY <1>8
  <2> USE DEF UploadOpen, DeleteLookup, ServeLookup, UploadCopied, UploadBroken, UploadRefused,
              UploadReread, UploadDiscard, DeleteFile, ServeOpen, ServeDone
  <2>2. ~Pending(c)
    BY <2>1 DEF Arrives, At, Pending
  <2>3. \A d \in Clients : d # c => req'[d] = req[d]
    BY <2>1 DEF Goto, Return, TypeOK
  <2>4. UNCHANGED dl /\ restarts' = restarts /\ UNCHANGED catalog
    BY <2>1 DEF bounds
  <2>5. QED
    BY <2>2, <2>3, <2>4, <1>1, <1>2, <1>3, <1>4
<1>9. ASSUME NEW c \in Clients, UploadInsert(c) PROVE EndsSettled' /\ TendedUntilRestart'
  <2>1. RowsKept
    BY <1>9 DEF UploadInsert, InsertRow, TypeOK, RowsType, RowsKept
  <2>2. ~Pending(c) /\ \A d \in Clients : d # c => req'[d] = req[d]
    BY <1>9 DEF UploadInsert, At, Pending, TypeOK
  <2>3. UNCHANGED dl /\ restarts' = restarts
    BY <1>9 DEF UploadInsert, bounds
  <2>4. QED
    BY <2>1, <2>2, <2>3, <1>1, <1>3, <1>4
<1>10. ASSUME NEW c \in Clients, ImportInsert(c) PROVE EndsSettled' /\ TendedUntilRestart'
  <2>1. PICK f \in Filenames :
           /\ InsertRow(f, "downloading", None)
           /\ req' = [req EXCEPT ![c] = [Idle EXCEPT !.pc = "accept", !.file = f, !.id = nextId]]
    BY <1>10 DEF ImportInsert
  <2>2. nextId \in Ids /\ \A i \in Ids : i # nextId => rows'[i] = rows[i]
    BY <2>1 DEF InsertRow, TypeOK, RowsType
  <2>3. /\ req'[c].pc = "accept" /\ req'[c].id = nextId
        /\ \A d \in Clients : d # c => req'[d] = req[d]
    BY <2>1 DEF Idle, TypeOK
  <2>4. ~Pending(c) /\ dl' = dl /\ restarts' = restarts
    BY <1>10 DEF ImportInsert, Arrives, Pending
  <2>5. ~Running(nextId)
    BY <2>2, NextIdUnstarted DEF Unstarted
  <2>6. EndsSettled'
    BY <2>2, <2>4, <2>5 DEF EndsSettled, Ending, Running
  <2>7. TendedUntilRestart'
    <3> SUFFICES ASSUME restarts = 0, NEW i \in Ids, rows'[i].status = "downloading"
                 PROVE  \/ \E d \in Clients : req'[d].pc \in {"accept", "start"} /\ req'[d].id = i
                        \/ Running(i)'
      BY <2>4 DEF TendedUntilRestart, DownloadingIsTended
    <3>1. CASE i = nextId
      BY <2>3, <3>1
    <3>2. CASE i # nextId
      BY <2>2, <2>3, <2>4, <3>2
         DEF TendedUntilRestart, DownloadingIsTended, Running, Pending
    <3>3. QED
      BY <3>1, <3>2
  <2>8. QED
    BY <2>6, <2>7
<1>11. ASSUME NEW c \in Clients, ImportReread(c) PROVE EndsSettled' /\ TendedUntilRestart'
  <2>1. Pending(c) /\ req[c].id \in Ids /\ UNCHANGED <<catalog, dl>> /\ restarts' = restarts
    BY <1>11 DEF ImportReread, At, Pending, TypeOK, Request, bounds
  <2>2. RequestsKept
    <3>1. CASE Exists(req[c].id) /\ Goto(c, "start")
      BY <3>1 DEF Goto, TypeOK, Request, RequestsKept, Pending
    <3>2. CASE ~Exists(req[c].id) /\ Return(c)
      BY <2>1, <3>2 DEF Return, TypeOK, RequestsKept, Pending, Exists, catalog
    <3>3. QED
      BY <1>11, <3>1, <3>2, NoStatementFails DEF ImportReread
  <2>3. QED
    BY <2>1, <2>2, <1>1, <1>2, <1>3
<1>12. ASSUME NEW c \in Clients, ImportStart(c) PROVE EndsSettled' /\ TendedUntilRestart'
  <2>1. Pending(c) /\ req[c].id \in Ids /\ UNCHANGED catalog /\ restarts' = restarts
    BY <1>12 DEF ImportStart, At, Pending, TypeOK, Request, bounds
  <2>2. /\ dl'[req[c].id].pc = "open"
        /\ \A j \in Ids : j # req[c].id => dl'[j] = dl[j]
    BY <1>12, <2>1 DEF ImportStart, TypeOK, NoDownload
  <2>3. \A d \in Clients : d # c => req'[d] = req[d]
    BY <1>12 DEF ImportStart, Return, TypeOK
  <2>4. RequestsKept
    BY <2>1, <2>2, <2>3 DEF RequestsKept, Pending, Running
  <2>5. DownloadsKept
    BY <2>1, <2>2 DEF DownloadsKept, Running, Ending
  <2>6. QED
    BY <2>1, <2>4, <2>5, <1>1, <1>2
<1>13. ASSUME NEW c \in Clients, DeleteCancel(c) PROVE EndsSettled' /\ TendedUntilRestart'
  <2>1. /\ ~Pending(c) /\ \A d \in Clients : d # c => req'[d] = req[d]
        /\ UNCHANGED catalog /\ restarts' = restarts
    BY <1>13 DEF DeleteCancel, At, Goto, Pending, TypeOK, bounds
  <2>2. \A i \in Ids : dl'[i].pc = dl[i].pc
    BY <1>13 DEF DeleteCancel, TypeOK, Download
  <2>3. DownloadsKept
    BY <2>2 DEF DownloadsKept, Running, Ending
  <2>4. QED
    BY <2>1, <2>3, <1>1, <1>2, <1>4
<1>14. ASSUME NEW c \in Clients, DeleteRow(c) PROVE EndsSettled' /\ TendedUntilRestart'
  <2>1. RowsKept
    BY <1>14 DEF DeleteRow, DeleteISO, NoRow, TypeOK, RowsType, RowsKept, catalog
  <2>2. /\ ~Pending(c) /\ \A d \in Clients : d # c => req'[d] = req[d]
        /\ UNCHANGED dl /\ restarts' = restarts
    BY <1>14 DEF DeleteRow, At, Goto, Return, Pending, TypeOK, bounds
  <2>3. QED
    BY <2>1, <2>2, <1>1, <1>3, <1>4
<1>15. ASSUME NEW i \in Ids,
              \/ DownloadOpen(i) \/ DownloadRefused(i) \/ DownloadFetched(i) \/ DownloadBroken(i)
              \/ FailureReread(i) \/ SuccessReread(i) \/ DownloadClean(i) \/ DownloadExit(i)
       PROVE  EndsSettled' /\ TendedUntilRestart'
  <2>1. UNCHANGED req /\ restarts' = restarts /\ UNCHANGED catalog
    BY <1>15
       DEF DownloadOpen, DownloadRefused, DownloadFetched, DownloadBroken, FailureReread,
           SuccessReread, DownloadClean, DownloadExit, bounds
  <2>2. CASE DownloadOpen(i)
    <3>1. dl'[i].pc = "fetch" /\ \A j \in Ids : j # i => dl'[j] = dl[j]
      BY <2>2 DEF DownloadOpen, TypeOK
    <3>2. DownloadsKept
      BY <3>1 DEF DownloadsKept, Running, Ending
    <3>3. QED
      BY <1>15, <2>1, <3>2, <1>1, <1>2, <1>5
  <2>3. CASE DownloadRefused(i) \/ DownloadFetched(i) \/ DownloadBroken(i)
    BY <1>15, <2>1, <2>3, <1>1, <1>2, <1>5, <1>6
       DEF DownloadRefused, DownloadFetched, DownloadBroken
  <2>4. CASE FailureReread(i)
    <3>1. CASE ~Exists(i) /\ DownloadGoto(i, "exit")
      BY <1>15, <2>1, <3>1, <1>1, <1>2, <1>5, <1>7 DEF Exists, catalog
    <3>2. CASE DownloadGoto(i, "report")
      BY <1>15, <2>1, <3>2, <1>1, <1>2, <1>5, <1>6
    <3>3. QED
      BY <2>4, <3>1, <3>2 DEF FailureReread
  <2>5. CASE SuccessReread(i)
    <3>1. CASE ~Exists(i) /\ DownloadGoto(i, "clean")
      BY <1>15, <2>1, <3>1, <1>1, <1>2, <1>5, <1>7 DEF Exists, catalog
    <3>2. CASE DownloadGoto(i, "commit")
      BY <1>15, <2>1, <3>2, <1>1, <1>2, <1>5, <1>6
    <3>3. QED
      BY <2>5, <3>1, <3>2, NoStatementFails DEF SuccessReread
  <2>6. CASE DownloadClean(i)
    BY <1>15, <2>1, <2>6, <1>1, <1>2, <1>5, <1>7 DEF DownloadClean, Ending
  <2>7. CASE DownloadExit(i)
    <3>1. /\ Ending(i) /\ dl'[i].pc = "none"
          /\ \A j \in Ids : j # i => dl'[j] = dl[j]
      BY <2>7 DEF DownloadExit, Ending, TypeOK, NoDownload
    <3>2. rows'[i].status # "downloading"
      BY <2>1, <3>1 DEF EndsSettled, catalog
    <3>3. DownloadsKept
      BY <3>1, <3>2 DEF DownloadsKept, Running, Ending
    <3>4. QED
      BY <1>15, <2>1, <3>3, <1>1, <1>2, <1>5
  <2>8. QED
    BY <1>15, <2>2, <2>3, <2>4, <2>5, <2>6, <2>7
<1>16. ASSUME NEW i \in Ids, MarkError(i) \/ MarkReady(i) PROVE EndsSettled' /\ TendedUntilRestart'
  <2>1. /\ UpdateRow(i, "error", rows[i].sha) \/ UpdateRow(i, "ready", dl[i].ino)
        /\ DownloadGoto(i, "exit") /\ UNCHANGED req /\ restarts' = restarts
    BY <1>16, NoStatementFails DEF MarkError, MarkReady, bounds
  <2>2. RowsKept /\ rows'[i].status # "downloading"
    BY <2>1 DEF UpdateRow, Exists, TypeOK, RowsType, RowsKept
  <2>3. QED
    BY <2>1, <2>2, <1>1, <1>5, <1>7
<1>17. CASE Restart
  <2>1. restarts' # 0 /\ rows' = rows /\ \A i \in Ids : dl'[i].pc = "none"
    BY <1>17 DEF Restart, NoDownload, catalog, TypeOK
  <2>2. QED
    BY <2>1 DEF EndsSettled, Ending, TendedUntilRestart
<1>18. CASE UNCHANGED vars
  BY <1>18, <1>1, <1>2, <1>3, <1>5 DEF vars, catalog
<1>19. QED
  BY <1>8, <1>9, <1>10, <1>11, <1>12, <1>13, <1>14, <1>15, <1>16, <1>17, <1>18
     DEF Next, Upload, Import, Delete, RunDownload, Rest

(***************************************************************************)
(* Where no statement fails, a downloading row has its handler or its      *)
(* goroutine at work until the process is restarted, however uploads,      *)
(* imports, deletes and failed transfers overlap.                          *)
(***************************************************************************)
THEOREM TendedCorrect ==
  ASSUME StatementsSucceed
  PROVE  Spec => []TendedUntilRestart
<1>1. Init => EndsSettled /\ TendedUntilRestart
  BY DEF Init, EndsSettled, Ending, TendedUntilRestart, DownloadingIsTended, NoRow, NoDownload
<1>2. TypeOK /\ Tasks /\ EndsSettled /\ TendedUntilRestart /\ [Next]_vars
        => EndsSettled' /\ TendedUntilRestart'
  BY TendedStep
<1>3. QED
  BY <1>1, <1>2, TypeCorrect, TasksCorrect, PTL DEF Spec

---------------------------------------------------------------------------
(***************************************************************************)
(* One file at a time.  Two admins never work on one file, nor two         *)
(* goroutines; an admin and a goroutine only where a delete cancels it,    *)
(* and such a delete leaves the file alone until the goroutine is done.    *)
(***************************************************************************)
PlainNames == \A f \in Filenames : Base[f] = f

OneAtATime == Overlap # "any"

Deleting(c) == req[c].pc \in {"cancel", "drop", "remove"}
Removing(c) == req[c].pc = "remove" \/ (req[c].pc \in {"cancel", "drop"} /\ req[c].remove)

AdminsApart == \A c, d \in Clients :
    Writing(c) /\ Writing(d) /\ req[c].file = req[d].file => c = d

DownloadsApart == \A i, j \in Ids :
    Running(i) /\ Running(j) /\ dl[i].file = dl[j].file => i = j

DownloadsSpared == \A c \in Clients, i \in Ids :
    Writing(c) /\ Running(i) /\ req[c].file = dl[i].file =>
       Deleting(c) /\ (Removing(c) => dl[i].pc = "exit")

Turns == AdminsApart /\ DownloadsApart /\ DownloadsSpared

(***************************************************************************)
(* Whose row is whose.  A name has one row; a goroutine's, or an import's  *)
(* or a delete's, is the row of the name it works on; an upload that has   *)
(* not yet a row of its own knows that no ready row has the name, and a    *)
(* delete that has dropped its row that no row has.                        *)
(***************************************************************************)
Named(i, f) == Exists(i) /\ rows[i].filename = f

UniqueNames == \A i, j \in Ids : Exists(i) /\ Named(j, rows[i].filename) => i = j

DownloadsOwn == \A i \in Ids : Running(i) =>
    /\ Exists(i) => Named(i, dl[i].file)
    /\ \A j \in Ids : Named(j, dl[i].file) => j = i
    /\ dl[i].pc = "clean" => ~Exists(i)

Making(c)  == req[c].pc \in {"copy", "insert", "discard"}
Knowing(c) == req[c].pc \in {"accept", "start", "cancel", "drop"}

AdminOwns(c) ==
    /\ Making(c) => \A j \in Ids : Named(j, req[c].file) => ~Ready(j)
    /\ Knowing(c) =>
          /\ req[c].id < nextId
          /\ Exists(req[c].id) => Named(req[c].id, req[c].file)
          /\ \A j \in Ids : Named(j, req[c].file) => j = req[c].id
    /\ req[c].pc = "reread" => Named(req[c].id, req[c].file)
    /\ req[c].pc = "remove" => \A j \in Ids : ~Named(j, req[c].file)

AdminsOwn == \A c \in Clients : AdminOwns(c)

\* The file a transfer or a ready row relies on is the one at its path.
Held(p, n) ==
    \/ \E i \in Ids : Ready(i) /\ rows[i].filename = p /\ rows[i].sha = n
    \/ \E c \in Clients : Uploads(c) /\ req[c].file = p /\ req[c].ino = n
    \/ \E i \in Ids : Downloads(i) /\ dl[i].file = p /\ dl[i].ino = n

OnDisk == \A p \in Filenames, n \in Inodes : Held(p, n) => disk[p] = n

Order == Turns /\ UniqueNames /\ DownloadsOwn /\ AdminsOwn /\ OnDisk

LEMMA PlainPaths ==
  ASSUME PlainNames
  PROVE  /\ \A f \in Filenames : Base[f] = f /\ Declared[f] = f
         /\ Paths = Filenames
BY NamesAssumption DEF PlainNames, Paths

\* The names that rows, requests and goroutines carry.
LEMMA NamesHeld ==
  ASSUME TypeOK
  PROVE  /\ \A i \in Ids : Exists(i) => rows[i].filename \in Filenames
         /\ \A c \in Clients : req[c].pc # "idle" => req[c].file \in Filenames
         /\ \A i \in Ids : Running(i) => dl[i].file \in Filenames
         /\ \A i \in Ids : Ready(i) => Exists(i)
BY DEF TypeOK, RowsType, Rows, NoRow, Exists, Request, Download, Running, Ready

LEMMA HoldersHaveInodes ==
  ASSUME TypeOK, Holding
  PROVE  \A p, n : Held(p, n) => n \in Inodes
BY HoldersInodes DEF Held, Holding, RowsHold

LEMMA AfterGoto ==
  ASSUME TypeOK, NEW c \in Clients, NEW pc, Goto(c, pc)
  PROVE  /\ req'[c].pc = pc /\ req'[c].file = req[c].file /\ req'[c].id = req[c].id
         /\ req'[c].ino = req[c].ino /\ req'[c].remove = req[c].remove
         /\ \A d \in Clients : d # c => req'[d] = req[d]
BY DEF Goto, TypeOK, Request

LEMMA AfterReturn ==
  ASSUME TypeOK, NEW c \in Clients, Return(c)
  PROVE  /\ req'[c].pc = "idle" /\ ~Writing(c)'
         /\ \A d \in Clients : d # c => req'[d] = req[d]
BY DEF Return, Idle, TypeOK, Writing

LEMMA AfterServeOpen ==
  ASSUME TypeOK, NEW c \in Clients, ServeOpen(c)
  PROVE  \/ Return(c)
         \/ /\ req'[c].pc = "stream" /\ req'[c].file = req[c].file /\ req'[c].id = req[c].id
            /\ req'[c].ino = disk[Declared[req[c].file]]
            /\ disk[Declared[req[c].file]] # None
            /\ \A d \in Clients : d # c => req'[d] = req[d]
<1> DEFINE n == disk[Declared[req[c].file]]
<1>1. CASE n = None
  BY <1>1 DEF ServeOpen
<1>2. CASE n # None
  <2>1. req' = [req EXCEPT ![c] = [@ EXCEPT !.pc = "stream", !.ino = n]]
    BY <1>2 DEF ServeOpen
  <2> HIDE DEF n
  <2>2. /\ req'[c].pc = "stream" /\ req'[c].file = req[c].file /\ req'[c].id = req[c].id
        /\ req'[c].ino = n
        /\ \A d \in Clients : d # c => req'[d] = req[d]
    BY <2>1 DEF TypeOK, Request
  <2>3. QED
    BY <1>2, <2>2 DEF n
<1>3. QED
  BY <1>1, <1>2

LEMMA AfterDownloadGoto ==
  ASSUME TypeOK, NEW i \in Ids, NEW pc, DownloadGoto(i, pc)
  PROVE  /\ dl'[i].pc = pc /\ dl'[i].file = dl[i].file /\ dl'[i].ino = dl[i].ino
         /\ \A j \in Ids : j # i => dl'[j] = dl[j]
BY DEF DownloadGoto, TypeOK, Download

---------------------------------------------------------------------------
(* Turns *)

\* Requests and goroutines that go on or end keep apart.
LEMMA TurnsKept ==
  ASSUME Turns,
         \A c \in Clients : Writing(c)' =>
            /\ Writing(c) /\ req'[c].file = req[c].file
            /\ Deleting(c) => Deleting(c)'
            /\ Removing(c)' => Removing(c),
         \A i \in Ids : Running(i)' =>
            /\ Running(i) /\ dl'[i].file = dl[i].file
            /\ dl[i].pc = "exit" => dl'[i].pc = "exit"
  PROVE  Turns'
<1>1. AdminsApart'
  BY DEF Turns, AdminsApart
<1>2. DownloadsApart'
  BY DEF Turns, DownloadsApart
<1>3. DownloadsSpared'
  BY DEF Turns, DownloadsSpared
<1>4. QED
  BY <1>1, <1>2, <1>3 DEF Turns

\* A request that begins on a file nobody works on, or only a goroutine that a
\* delete may cancel.
LEMMA TurnBegins ==
  ASSUME Turns, NEW c \in Clients, NEW f, UNCHANGED dl,
         \A d \in Clients : d # c => req'[d] = req[d],
         Writing(c)' => req'[c].file = f,
         \A d \in Clients : Writing(d) => req[d].file # f,
         \A i \in Ids : Running(i) /\ dl[i].file = f =>
            Deleting(c)' /\ (Removing(c)' => dl[i].pc = "exit")
  PROVE  Turns'
<1>1. AdminsApart'
  BY DEF Turns, AdminsApart, Writing
<1>2. DownloadsApart'
  BY DEF Turns, DownloadsApart, Running
<1>3. DownloadsSpared'
  BY DEF Turns, DownloadsSpared, Writing, Running, Deleting, Removing
<1>4. QED
  BY <1>1, <1>2, <1>3 DEF Turns

LEMMA MayTransferAlone ==
  ASSUME TypeOK, PlainNames, OneAtATime, NEW f \in Filenames, MayTransfer(f)
  PROVE  /\ \A d \in Clients : Writing(d) => req[d].file # f
         /\ \A i \in Ids : Running(i) => dl[i].file # f
<1>1. Base[f] = f /\ ~Claimed(f) /\ ~Downloading(f)
  BY PlainPaths DEF MayTransfer, OneAtATime
<1>2. ASSUME NEW d \in Clients, Writing(d) PROVE req[d].file # f
  BY <1>1, <1>2 DEF Claimed
<1>3. ASSUME NEW i \in Ids, Running(i) PROVE dl[i].file # f
  BY <1>1, <1>3 DEF Downloading
<1>4. QED
  BY <1>2, <1>3

\* A request that neither begins to write nor starts a goroutine.
GoesOn(c) ==
    \/ ServeLookup(c) \/ UploadCopied(c) \/ UploadBroken(c) \/ UploadInsert(c)
    \/ UploadRefused(c) \/ UploadReread(c) \/ UploadDiscard(c) \/ ImportReread(c)
    \/ DeleteCancel(c) \/ DeleteRow(c) \/ DeleteFile(c) \/ ServeOpen(c) \/ ServeDone(c)

LEMMA AdminGoesOn ==
  ASSUME TypeOK, NEW c \in Clients, GoesOn(c)
  PROVE  /\ \A d \in Clients : Writing(d)' =>
               /\ Writing(d) /\ req'[d].file = req[d].file
               /\ Deleting(d) => Deleting(d)'
               /\ Removing(d)' => Removing(d)
         /\ \A i \in Ids : dl'[i].pc = dl[i].pc /\ dl'[i].file = dl[i].file
<1>1. \A d \in Clients : d # c => req'[d] = req[d]
  BY DEF GoesOn, ServeLookup, UploadCopied, UploadBroken, UploadInsert, UploadRefused,
              UploadReread, UploadDiscard, ImportReread, DeleteCancel, DeleteRow, DeleteFile,
              ServeOpen, ServeDone, Goto, Return, TypeOK
<1>2. Writing(c)' =>
          /\ Writing(c) /\ req'[c].file = req[c].file
          /\ Deleting(c) => Deleting(c)'
          /\ Removing(c)' => Removing(c)
  <2>1. CASE UploadBroken(c) \/ UploadDiscard(c) \/ DeleteFile(c) \/ ServeDone(c)
    BY <2>1, AfterReturn DEF UploadBroken, UploadDiscard, DeleteFile, ServeDone
  <2>2. CASE ServeLookup(c)
    BY <2>2 DEF ServeLookup, Idle, Writing, TypeOK
  <2>3. CASE ServeOpen(c)
    <3>1. Return(c) \/ req'[c].pc = "stream"
      BY <2>3, AfterServeOpen
    <3>2. QED
      BY <3>1, AfterReturn DEF Writing
  <2>4. CASE \/ UploadCopied(c) \/ UploadRefused(c) \/ UploadReread(c) \/ ImportReread(c)
             \/ DeleteCancel(c) \/ DeleteRow(c)
    <3>1. \/ Return(c)
          \/ /\ req[c].pc \in {"copy", "insert", "reread", "accept"}
             /\ Goto(c, "insert") \/ Goto(c, "discard") \/ Goto(c, "start")
          \/ req[c].pc = "cancel" /\ Goto(c, "drop")
          \/ req[c].pc = "drop" /\ req[c].remove /\ Goto(c, "remove")
      BY <2>4 DEF UploadCopied, UploadRefused, UploadReread, ImportReread, DeleteCancel,
                  DeleteRow, At
    <3>2. QED
      BY <3>1, AfterGoto, AfterReturn DEF Writing, Deleting, Removing
  <2>5. CASE UploadInsert(c)
    <3>1. req[c].pc = "insert" /\ req'[c].pc = "reread" /\ req'[c].file = req[c].file
      BY <2>5 DEF UploadInsert, At, TypeOK, Request
    <3>2. QED
      BY <3>1 DEF Writing, Deleting, Removing
  <2>6. QED
    BY <2>1, <2>2, <2>3, <2>4, <2>5 DEF GoesOn
<1>3. \A i \in Ids : dl'[i].pc = dl[i].pc /\ dl'[i].file = dl[i].file
  <2>1. CASE DeleteCancel(c)
    BY <2>1 DEF DeleteCancel, TypeOK, Download
  <2>2. CASE UNCHANGED dl
    BY <2>2
  <2>3. QED
    BY <2>1, <2>2
       DEF GoesOn, ServeLookup, UploadCopied, UploadBroken, UploadInsert, UploadRefused,
           UploadReread, UploadDiscard, ImportReread, DeleteRow, DeleteFile, ServeOpen, ServeDone
<1>4. \A d \in Clients : Writing(d)' =>
          /\ Writing(d) /\ req'[d].file = req[d].file
          /\ Deleting(d) => Deleting(d)'
          /\ Removing(d)' => Removing(d)
  BY <1>1, <1>2 DEF Writing, Deleting, Removing
<1>5. QED
  BY <1>3, <1>4

LEMMA DownloadGoesOn ==
  ASSUME TypeOK, NEW i \in Ids, RunDownload(i)
  PROVE  /\ UNCHANGED req /\ \A j \in Ids : j # i => dl'[j] = dl[j]
         /\ Running(i)' =>
               /\ Running(i) /\ dl'[i].file = dl[i].file
               /\ dl[i].pc # "exit"
<1>1. UNCHANGED req /\ \A j \in Ids : j # i => dl'[j] = dl[j]
  BY DEF RunDownload, DownloadOpen, DownloadRefused, DownloadFetched, DownloadBroken,
              FailureReread, MarkError, SuccessReread, MarkReady, DownloadClean, DownloadExit,
              DownloadGoto, TypeOK
<1>2. Running(i)' =>
          /\ Running(i) /\ dl'[i].file = dl[i].file
          /\ dl[i].pc # "exit"
  <2>1. CASE DownloadOpen(i)
    BY <2>1 DEF DownloadOpen, Running, TypeOK, Download
  <2>2. CASE DownloadExit(i)
    BY <2>2 DEF DownloadExit, Running, NoDownload, TypeOK
  <2>3. CASE \E pc : DownloadGoto(i, pc) /\ dl[i].pc \notin {"none", "exit"}
    BY <2>3, AfterDownloadGoto DEF Running
  <2>4. QED
    BY <2>1, <2>2, <2>3
       DEF RunDownload, DownloadRefused, DownloadFetched, DownloadBroken, FailureReread,
           MarkError, SuccessReread, MarkReady, DownloadClean
<1>3. QED
  BY <1>1, <1>2

LEMMA TurnsStep ==
  ASSUME PlainNames, OneAtATime, TypeOK, Tasks, Order, [Next]_vars
  PROVE  Turns'
<1> USE DEF Order
<1>1. ASSUME NEW c \in Clients, UploadOpen(c) \/ ImportInsert(c) PROVE Turns'
  <2>1. PICK f \in Filenames : MayTransfer(f) /\ req'[c].file = f
    BY <1>1, PlainPaths DEF UploadOpen, ImportInsert, Idle, TypeOK
  <2>2. UNCHANGED dl /\ \A d \in Clients : d # c => req'[d] = req[d]
    BY <1>1 DEF UploadOpen, ImportInsert, TypeOK
  <2>3. QED
    BY <2>1, <2>2, TurnBegins, MayTransferAlone
<1>2. ASSUME NEW c \in Clients, DeleteLookup(c) PROVE Turns'
  <2>1. PICK i \in Ids, deleteFile \in BOOLEAN :
          /\ Exists(i) /\ MayDelete(rows[i].filename)
          /\ req' = [req EXCEPT ![c] = [Idle EXCEPT
                      !.pc = "cancel", !.file = rows[i].filename, !.id = i,
                      !.remove = (deleteFile /\ rows[i].status # "downloading")]]
    BY <1>2 DEF DeleteLookup
  <2>2. /\ req'[c].pc = "cancel" /\ req'[c].file = rows[i].filename
        /\ req'[c].remove => rows[i].status # "downloading"
        /\ UNCHANGED dl /\ \A d \in Clients : d # c => req'[d] = req[d]
    BY <1>2, <2>1 DEF DeleteLookup, Idle, TypeOK
  <2>3. rows[i].filename \in Filenames
    BY <2>1, NamesHeld
  <2>4. \A d \in Clients : Writing(d) => req[d].file # rows[i].filename
    BY <2>1, <2>3, PlainPaths, NamesHeld DEF MayDelete, OneAtATime, Claimed, Writing
  <2>5. ASSUME NEW j \in Ids, Running(j), dl[j].file = rows[i].filename
        PROVE  Deleting(c)' /\ (Removing(c)' => dl[j].pc = "exit")
    <3>1. j = i
      BY <2>1, <2>5 DEF DownloadsOwn, Named
    <3>2. rows[i].status # "downloading" => dl[i].pc \in {"clean", "exit"}
      BY <2>1, <2>5, <3>1
         DEF Tasks, TasksOpen, Working, Running, TypeOK, Download, DownloadPcs
    <3>3. dl[i].pc # "clean"
      BY <2>1, <2>5, <3>1 DEF DownloadsOwn
    <3>4. QED
      BY <2>2, <3>1, <3>2, <3>3 DEF Deleting, Removing
  <2>6. QED
    BY <2>2, <2>4, <2>5, TurnBegins
<1>3. ASSUME NEW c \in Clients, ImportStart(c) PROVE Turns'
  <2>1. /\ req[c].id \in Ids /\ Writing(c) /\ ~Deleting(c)
        /\ req'[c].pc = "idle" /\ \A d \in Clients : d # c => req'[d] = req[d]
    BY <1>3 DEF ImportStart, At, Return, Idle, Writing, Deleting, TypeOK, Request
  <2>2. /\ dl'[req[c].id].pc = "open" /\ dl'[req[c].id].file = req[c].file
        /\ \A j \in Ids : j # req[c].id => dl'[j] = dl[j]
    BY <1>3, <2>1 DEF ImportStart, TypeOK, NoDownload
  <2>3. \A j \in Ids : Running(j) => dl[j].file # req[c].file
    BY <2>1 DEF Turns, DownloadsSpared
  <2>4. \A d \in Clients : d # c /\ Writing(d) => req[d].file # req[c].file
    BY <2>1 DEF Turns, AdminsApart
  <2>5. AdminsApart'
    BY <2>1 DEF Turns, AdminsApart, Writing
  <2>6. DownloadsApart'
    BY <2>2, <2>3 DEF Turns, DownloadsApart, Running
  <2>7. DownloadsSpared'
    BY <2>1, <2>2, <2>4 DEF Turns, DownloadsSpared, Writing, Running, Deleting, Removing
  <2>8. QED
    BY <2>5, <2>6, <2>7 DEF Turns
<1>4. ASSUME NEW c \in Clients, GoesOn(c) PROVE Turns'
  BY <1>4, AdminGoesOn, TurnsKept DEF Running
<1>5. ASSUME NEW i \in Ids, RunDownload(i) PROVE Turns'
  BY <1>5, DownloadGoesOn, TurnsKept DEF Running, Writing, Deleting, Removing
<1>6. CASE Restart
  BY <1>6, TurnsKept DEF Restart, Idle, NoDownload, Writing, Running, TypeOK
<1>7. CASE UNCHANGED vars
  BY <1>7, TurnsKept DEF vars, Writing, Running, Deleting, Removing
<1>8. QED
  BY <1>1, <1>2, <1>3, <1>4, <1>5, <1>6, <1>7 DEF Next, Upload, Import, Delete, GoesOn, Rest

---------------------------------------------------------------------------
(* Rows *)

LEMMA AfterInsert ==
  ASSUME TypeOK, NEW f, NEW s \in {"downloading", "ready"}, NEW n, InsertRow(f, s, n)
  PROVE  /\ nextId \in Ids /\ nextId' = nextId + 1 /\ nextId < nextId'
         /\ \A j \in Ids : ~Named(j, f)
         /\ rows'[nextId] = [status |-> s, filename |-> f, sha |-> n]
         /\ rows'[nextId].status = s /\ rows'[nextId].filename = f
         /\ \A j \in Ids : j # nextId => rows'[j] = rows[j]
<1>1. nextId \in Ids /\ nextId' = nextId + 1 /\ ~Taken(f)
  BY DEF InsertRow
<1>2. nextId < nextId'
  BY <1>1 DEF Ids
<1>3. \A j \in Ids : ~Named(j, f)
  BY <1>1 DEF Taken, Named
<1>4. /\ rows'[nextId] = [status |-> s, filename |-> f, sha |-> n]
      /\ \A j \in Ids : j # nextId => rows'[j] = rows[j]
  BY <1>1 DEF InsertRow, TypeOK, RowsType
<1>5. QED
  BY <1>1, <1>2, <1>3, <1>4

LEMMA AfterUpdate ==
  ASSUME TypeOK, NEW i \in Ids, NEW s \in {"ready", "error"}, NEW n, UpdateRow(i, s, n)
  PROVE  /\ nextId' = nextId
         /\ \A j \in Ids : rows'[j].status # "absent" <=> rows[j].status # "absent"
         /\ \A j \in Ids : rows'[j].filename = rows[j].filename
         /\ \A j \in Ids : j # i => rows'[j] = rows[j]
         /\ Exists(i) => rows'[i].status = s /\ rows'[i].sha = n
         /\ ~Exists(i) => rows' = rows
BY DEF UpdateRow, TypeOK, RowsType, Exists

LEMMA AfterDelete ==
  ASSUME TypeOK, NEW i \in Ids, DeleteISO(i)
  PROVE  /\ nextId' = nextId /\ rows'[i].status = "absent"
         /\ \A j \in Ids : j # i => rows'[j] = rows[j]
BY DEF DeleteISO, TypeOK, RowsType, NoRow

\* Rows that go, or stay with their names, and goroutines that go on.
LEMMA NamesKept ==
  ASSUME UniqueNames, DownloadsOwn,
         \A j \in Ids : rows'[j].status # "absent" =>
            Exists(j) /\ rows'[j].filename = rows[j].filename,
         \A i \in Ids : dl'[i].pc # "none" =>
            /\ Running(i) /\ dl'[i].file = dl[i].file
            /\ dl'[i].pc = "clean" => dl[i].pc = "clean" \/ ~Exists(i)
  PROVE  UniqueNames' /\ DownloadsOwn'
<1>1. UniqueNames'
  BY DEF UniqueNames, Named, Exists
<1>2. DownloadsOwn'
  BY DEF DownloadsOwn, Named, Exists, Running
<1>3. QED
  BY <1>1, <1>2

LEMMA NamesInsert ==
  ASSUME TypeOK, Tasks, UniqueNames, DownloadsOwn,
         NEW f, NEW s \in {"downloading", "ready"}, NEW n, InsertRow(f, s, n),
         UNCHANGED dl, \A i \in Ids : Running(i) => dl[i].file # f
  PROVE  UniqueNames' /\ DownloadsOwn'
<1>1. /\ nextId \in Ids /\ rows'[nextId].status # "absent" /\ rows'[nextId].filename = f
      /\ \A j \in Ids : j # nextId => rows'[j] = rows[j]
      /\ \A j \in Ids : ~Named(j, f)
  BY AfterInsert
<1>2. ~Running(nextId)
  BY <1>1, NextIdUnstarted DEF Unstarted
<1>3. UniqueNames'
  BY <1>1 DEF UniqueNames, Named, Exists
<1>4. DownloadsOwn'
  BY <1>1, <1>2 DEF DownloadsOwn, Named, Exists, Running
<1>5. QED
  BY <1>3, <1>4

LEMMA NamesStep ==
  ASSUME PlainNames, OneAtATime, StatementsSucceed, TypeOK, Tasks, Order, [Next]_vars
  PROVE  UniqueNames' /\ DownloadsOwn'
<1> USE DEF Order
<1>1. ASSUME NEW c \in Clients, ImportInsert(c) PROVE UniqueNames' /\ DownloadsOwn'
  <2>1. PICK f \in Filenames : MayTransfer(f) /\ InsertRow(f, "downloading", None)
    BY <1>1 DEF ImportInsert
  <2>2. UNCHANGED dl
    BY <1>1 DEF ImportInsert
  <2>3. QED
    BY <2>1, <2>2, MayTransferAlone, NamesInsert
<1>2. ASSUME NEW c \in Clients, UploadInsert(c) PROVE UniqueNames' /\ DownloadsOwn'
  <2>1. /\ InsertRow(req[c].file, "ready", req[c].ino) /\ UNCHANGED dl
        /\ Writing(c) /\ ~Deleting(c)
    BY <1>2 DEF UploadInsert, At, Writing, Deleting
  <2>2. \A i \in Ids : Running(i) => dl[i].file # req[c].file
    BY <2>1 DEF Turns, DownloadsSpared
  <2>3. QED
    BY <2>1, <2>2, NamesInsert
<1>3. ASSUME NEW c \in Clients, ImportStart(c) PROVE UniqueNames' /\ DownloadsOwn'
  <2>1. req[c].id \in Ids /\ Knowing(c) /\ rows' = rows
    BY <1>3 DEF ImportStart, At, Knowing, TypeOK, Request, catalog
  <2>2. /\ dl'[req[c].id].pc = "open" /\ dl'[req[c].id].file = req[c].file
        /\ \A j \in Ids : j # req[c].id => dl'[j] = dl[j]
    BY <1>3, <2>1 DEF ImportStart, TypeOK, NoDownload
  <2>3. /\ Exists(req[c].id) => Named(req[c].id, req[c].file)
        /\ \A j \in Ids : Named(j, req[c].file) => j = req[c].id
    BY <2>1 DEF AdminsOwn, AdminOwns
  <2>4. UniqueNames'
    BY <2>1 DEF UniqueNames, Named, Exists
  <2>5. ASSUME NEW i \in Ids, Running(i)'
        PROVE  /\ Exists(i)' => Named(i, dl[i].file)'
               /\ \A j \in Ids : Named(j, dl[i].file)' => j = i
               /\ dl'[i].pc = "clean" => ~Exists(i)'
    <3>1. CASE i = req[c].id
      BY <2>1, <2>2, <2>3, <3>1 DEF Named, Exists
    <3>2. CASE i # req[c].id
      BY <2>1, <2>2, <2>5, <3>2 DEF DownloadsOwn, Named, Exists, Running
    <3>3. QED
      BY <3>1, <3>2
  <2>6. DownloadsOwn'
    BY <2>5 DEF DownloadsOwn
  <2>7. QED
    BY <2>4, <2>6
<1>4. ASSUME NEW c \in Clients, DeleteRow(c) PROVE UniqueNames' /\ DownloadsOwn'
  <2>1. req[c].id \in Ids /\ UNCHANGED dl /\ DeleteISO(req[c].id)
    BY <1>4, NoStatementFails DEF DeleteRow, At, TypeOK, Request
  <2>2. QED
    BY <2>1, AfterDelete, NamesKept DEF Exists, Running
<1>5. ASSUME NEW i \in Ids, MarkError(i) \/ MarkReady(i) PROVE UniqueNames' /\ DownloadsOwn'
  <2>1. /\ UpdateRow(i, "error", rows[i].sha) \/ UpdateRow(i, "ready", dl[i].ino)
        /\ DownloadGoto(i, "exit") /\ dl[i].pc # "none"
    BY <1>5, NoStatementFails DEF MarkError, MarkReady
  <2>2. QED
    BY <2>1, AfterUpdate, AfterDownloadGoto, NamesKept DEF Exists, Running
<1>6. ASSUME NEW i \in Ids,
             \/ DownloadOpen(i) \/ DownloadRefused(i) \/ DownloadFetched(i) \/ DownloadBroken(i)
             \/ FailureReread(i) \/ SuccessReread(i) \/ DownloadClean(i) \/ DownloadExit(i)
      PROVE  UniqueNames' /\ DownloadsOwn'
  <2>1. rows' = rows /\ \A j \in Ids : j # i => dl'[j] = dl[j]
    BY <1>6, AfterDownloadGoto
       DEF DownloadOpen, DownloadRefused, DownloadFetched, DownloadBroken, FailureReread,
           SuccessReread, DownloadClean, DownloadExit, catalog, TypeOK
  <2>2. dl'[i].pc # "none" =>
          /\ Running(i) /\ dl'[i].file = dl[i].file
          /\ dl'[i].pc = "clean" => ~Exists(i)
    <3>1. CASE DownloadOpen(i)
      BY <3>1 DEF DownloadOpen, Running, TypeOK, Download
    <3>2. CASE DownloadExit(i)
      BY <3>2 DEF DownloadExit, NoDownload, TypeOK
    <3>3. CASE \E pc : /\ DownloadGoto(i, pc) /\ dl[i].pc \notin {"none", "exit"}
                       /\ pc = "clean" => ~Exists(i)
      BY <3>3, AfterDownloadGoto DEF Running
    <3>4. QED
      BY <1>6, <3>1, <3>2, <3>3, NoStatementFails
         DEF DownloadRefused, DownloadFetched, DownloadBroken, FailureReread, SuccessReread,
             DownloadClean
  <2>3. QED
    BY <2>1, <2>2, NamesKept DEF Exists, Running
<1>7. CASE \E c \in Clients :
          \/ UploadOpen(c) \/ DeleteLookup(c) \/ ServeLookup(c) \/ UploadCopied(c)
          \/ UploadBroken(c) \/ UploadRefused(c) \/ UploadReread(c) \/ UploadDiscard(c)
          \/ ImportReread(c) \/ DeleteCancel(c) \/ DeleteFile(c) \/ ServeOpen(c) \/ ServeDone(c)
  <2>1. PICK c \in Clients :
          \/ UploadOpen(c) \/ DeleteLookup(c) \/ ServeLookup(c) \/ UploadCopied(c)
          \/ UploadBroken(c) \/ UploadRefused(c) \/ UploadReread(c) \/ UploadDiscard(c)
          \/ ImportReread(c) \/ DeleteCancel(c) \/ DeleteFile(c) \/ ServeOpen(c) \/ ServeDone(c)
    BY <1>7
  <2>2. UNCHANGED rows
    BY <2>1 DEF UploadOpen, DeleteLookup, ServeLookup, UploadCopied, UploadBroken, UploadRefused,
                UploadReread, UploadDiscard, ImportReread, DeleteCancel, DeleteFile, ServeOpen,
                ServeDone, catalog
  <2>3. \A i \in Ids : dl'[i].pc = dl[i].pc /\ dl'[i].file = dl[i].file
    <3>1. CASE DeleteCancel(c)
      BY <3>1 DEF DeleteCancel, TypeOK, Download
    <3>2. CASE UNCHANGED dl
      BY <3>2
    <3>3. QED
      BY <2>1, <3>1, <3>2
         DEF UploadOpen, DeleteLookup, ServeLookup, UploadCopied, UploadBroken, UploadRefused,
             UploadReread, UploadDiscard, ImportReread, DeleteFile, ServeOpen, ServeDone
  <2>4. QED
    BY <2>2, <2>3, NamesKept DEF Exists, Running
<1>8. CASE Restart
  <2>1. rows' = rows /\ \A i \in Ids : dl'[i].pc = "none"
    BY <1>8 DEF Restart, NoDownload, catalog, TypeOK
  <2>2. QED
    BY <2>1, NamesKept DEF Exists
<1>9. CASE UNCHANGED vars
  BY <1>9, NamesKept DEF vars, Exists, Running
<1>10. QED
  BY <1>1, <1>2, <1>3, <1>4, <1>5, <1>6, <1>7, <1>8, <1>9
     DEF Next, Upload, Import, Delete, RunDownload, Rest

---------------------------------------------------------------------------
(* Requests and their rows *)

\* A request that goes on or ends, while rows stay with their names or go.
LEMMA OwnerKept ==
  ASSUME TypeOK, NEW c \in Clients, AdminOwns(c), nextId' = nextId,
         Making(c)' => Making(c), Knowing(c)' => Knowing(c),
         req'[c].pc = "reread" => req[c].pc = "reread",
         req'[c].pc = "remove" => req[c].pc = "remove",
         req'[c].pc # "idle" => req'[c].file = req[c].file /\ req'[c].id = req[c].id,
         \A j \in Ids : rows'[j].status # "absent" =>
            Exists(j) /\ rows'[j].filename = rows[j].filename,
         Making(c) => \A j \in Ids : Named(j, req[c].file) /\ rows'[j].status = "ready" => Ready(j),
         req[c].pc = "reread" => rows'[req[c].id].status # "absent"
  PROVE  AdminOwns(c)'
<1>1. req[c].pc \in {"accept", "start", "cancel", "drop", "reread"} => req[c].id \in Ids
  BY DEF TypeOK, Request
<1>2. (Making(c) => \A j \in Ids : Named(j, req[c].file) => ~Ready(j))'
  BY DEF AdminOwns, Making, Named, Exists, Ready
<1>3. (Knowing(c) => /\ req[c].id < nextId
                     /\ Exists(req[c].id) => Named(req[c].id, req[c].file)
                     /\ \A j \in Ids : Named(j, req[c].file) => j = req[c].id)'
  BY <1>1 DEF AdminOwns, Knowing, Named, Exists
<1>4. (req[c].pc = "reread" => Named(req[c].id, req[c].file))'
  BY <1>1 DEF AdminOwns, Named, Exists
<1>5. (req[c].pc = "remove" => \A j \in Ids : ~Named(j, req[c].file))'
  BY DEF AdminOwns, Named, Exists
<1>6. QED
  BY <1>2, <1>3, <1>4, <1>5 DEF AdminOwns

\* Another request's new row has another name.
LEMMA OwnerBesideInsert ==
  ASSUME TypeOK, Tasks, NEW d \in Clients, AdminOwns(d), req'[d] = req[d],
         NEW f, NEW s \in {"downloading", "ready"}, NEW n, InsertRow(f, s, n),
         Writing(d) => req[d].file # f
  PROVE  AdminOwns(d)'
<1>1. /\ nextId \in Ids /\ nextId < nextId' /\ nextId' = nextId + 1
      /\ rows'[nextId].filename = f
      /\ \A j \in Ids : j # nextId => rows'[j] = rows[j]
  BY AfterInsert
<1>2. req[d].pc \in {"accept", "start", "cancel", "drop", "reread"} => req[d].id \in Ids
  BY DEF TypeOK, Request
<1>3. (Making(d) => \A j \in Ids : Named(j, req[d].file) => ~Ready(j))'
  BY <1>1 DEF AdminOwns, Making, Named, Exists, Ready, Writing
<1>4. (Knowing(d) => /\ req[d].id < nextId
                     /\ Exists(req[d].id) => Named(req[d].id, req[d].file)
                     /\ \A j \in Ids : Named(j, req[d].file) => j = req[d].id)'
  <2> SUFFICES ASSUME Knowing(d)
               PROVE  /\ req[d].id < nextId'
                      /\ rows'[req[d].id].status # "absent" =>
                            rows'[req[d].id].filename = req[d].file
                      /\ \A j \in Ids : rows'[j].status # "absent" /\ rows'[j].filename = req[d].file
                            => j = req[d].id
    BY DEF Knowing, Named, Exists
  <2>1. req[d].id \in Ids /\ req[d].id < nextId /\ Writing(d)
    BY <1>2 DEF Knowing, AdminOwns, Writing
  <2>2. req[d].id # nextId /\ req[d].id < nextId'
    BY <1>1, <2>1 DEF Ids
  <2>3. QED
    BY <1>1, <2>1, <2>2 DEF AdminOwns, Knowing, Named, Exists
<1>5. (req[d].pc = "reread" => Named(req[d].id, req[d].file))'
  <2> SUFFICES ASSUME req[d].pc = "reread"
               PROVE  /\ rows'[req[d].id].status # "absent"
                      /\ rows'[req[d].id].filename = req[d].file
    BY DEF Named, Exists
  <2>1. Named(req[d].id, req[d].file) /\ req[d].id \in Ids
    BY <1>2 DEF AdminOwns
  <2>2. req[d].id # nextId
    BY <1>1, <2>1, NextIdUnstarted DEF Named, Unstarted
  <2>3. QED
    BY <1>1, <2>1, <2>2 DEF Named, Exists
<1>6. (req[d].pc = "remove" => \A j \in Ids : ~Named(j, req[d].file))'
  BY <1>1 DEF AdminOwns, Named, Exists, Writing
<1>7. QED
  BY <1>3, <1>4, <1>5, <1>6 DEF AdminOwns

\* Nothing is claimed of a request that ended, or only serves.
LEMMA NothingOwned ==
  ASSUME NEW c \in Clients, ~Writing(c)'
  PROVE  AdminOwns(c)'
BY DEF AdminOwns, Writing, Making, Knowing

LEMMA AdminsStep ==
  ASSUME PlainNames, OneAtATime, StatementsSucceed, TypeOK, Holding, Tasks, Order, [Next]_vars
  PROVE  AdminsOwn'
<1> USE DEF Order
<1>1. ASSUME NEW d \in Clients, req'[d] = req[d], UNCHANGED catalog PROVE AdminOwns(d)'
  <2>1. AdminOwns(d)
    BY DEF AdminsOwn
  <2>2. QED
    BY <1>1, <2>1
       DEF AdminOwns, Making, Knowing, Named, Exists, Ready, catalog
<1>2. ASSUME NEW c \in Clients, UploadOpen(c) PROVE AdminsOwn'
  <2>1. PICK f \in Filenames :
          /\ CreateFile(f)
          /\ req' = [req EXCEPT ![c] = [Idle EXCEPT !.pc = "copy", !.file = f, !.ino = disk'[f]]]
    BY <1>2, PlainPaths DEF UploadOpen
  <2>2. /\ req'[c].pc = "copy" /\ req'[c].file = f
        /\ \A d \in Clients : d # c => req'[d] = req[d]
    BY <2>1 DEF Idle, TypeOK
  <2>3. UNCHANGED catalog /\ disk[f] = None
    BY <1>2, <2>1 DEF UploadOpen, CreateFile
  <2>4. ASSUME NEW j \in Ids, Named(j, f) PROVE ~Ready(j)
    <3>1. Ready(j) => Held(f, rows[j].sha) /\ rows[j].sha \in Inodes
      BY <2>4 DEF Named, Held, Holding, RowsHold
    <3>2. Ready(j) => disk[f] = rows[j].sha
      BY <3>1 DEF OnDisk
    <3>3. QED
      BY <2>3, <3>1, <3>2, NoneAssumption
  <2>5. AdminOwns(c)'
    BY <2>2, <2>3, <2>4 DEF AdminOwns, Making, Knowing, Named, Exists, Ready, catalog
  <2>6. QED
    BY <2>2, <2>3, <2>5, <1>1 DEF AdminsOwn
<1>3. ASSUME NEW c \in Clients, ImportInsert(c) PROVE AdminsOwn'
  <2>1. PICK f \in Filenames :
          /\ MayTransfer(f) /\ InsertRow(f, "downloading", None)
          /\ req' = [req EXCEPT ![c] = [Idle EXCEPT !.pc = "accept", !.file = f, !.id = nextId]]
    BY <1>3 DEF ImportInsert
  <2>2. /\ req'[c].pc = "accept" /\ req'[c].file = f /\ req'[c].id = nextId
        /\ \A d \in Clients : d # c => req'[d] = req[d]
    BY <2>1 DEF Idle, TypeOK
  <2>3. /\ nextId < nextId' /\ rows'[nextId].filename = f
        /\ \A j \in Ids : j # nextId => rows'[j] = rows[j]
        /\ \A j \in Ids : ~Named(j, f)
    BY <2>1, AfterInsert
  <2>4. AdminOwns(c)'
    BY <2>2, <2>3 DEF AdminOwns, Making, Knowing, Named, Exists
  <2>5. ASSUME NEW d \in Clients, d # c PROVE AdminOwns(d)'
    <3>1. AdminOwns(d) /\ req'[d] = req[d] /\ (Writing(d) => req[d].file # f)
      BY <2>1, <2>2, <2>5, MayTransferAlone DEF AdminsOwn
    <3>2. QED
      BY <2>1, <3>1, OwnerBesideInsert
  <2>6. QED
    BY <2>4, <2>5 DEF AdminsOwn
<1>4. ASSUME NEW c \in Clients, UploadInsert(c) PROVE AdminsOwn'
  <2>1. /\ InsertRow(req[c].file, "ready", req[c].ino) /\ Writing(c)
        /\ req' = [req EXCEPT ![c] = [@ EXCEPT !.pc = "reread", !.id = nextId]]
    BY <1>4 DEF UploadInsert, At, Writing
  <2>2. /\ req'[c].pc = "reread" /\ req'[c].file = req[c].file /\ req'[c].id = nextId
        /\ \A d \in Clients : d # c => req'[d] = req[d]
    BY <2>1 DEF TypeOK, Request
  <2>3. rows'[nextId].filename = req[c].file /\ rows'[nextId].status = "ready"
    BY <2>1, AfterInsert
  <2>4. AdminOwns(c)'
    BY <2>2, <2>3 DEF AdminOwns, Making, Knowing, Named, Exists
  <2>5. ASSUME NEW d \in Clients, d # c PROVE AdminOwns(d)'
    <3>1. AdminOwns(d) /\ req'[d] = req[d] /\ (Writing(d) => req[d].file # req[c].file)
      BY <2>1, <2>2, <2>5 DEF AdminsOwn, Turns, AdminsApart
    <3>2. QED
      BY <2>1, <3>1, OwnerBesideInsert
  <2>6. QED
    BY <2>4, <2>5 DEF AdminsOwn
<1>5. ASSUME NEW c \in Clients, DeleteLookup(c) PROVE AdminsOwn'
  <2>1. PICK i \in Ids, deleteFile \in BOOLEAN :
          /\ Exists(i)
          /\ req' = [req EXCEPT ![c] = [Idle EXCEPT
                      !.pc = "cancel", !.file = rows[i].filename, !.id = i,
                      !.remove = (deleteFile /\ rows[i].status # "downloading")]]
    BY <1>5 DEF DeleteLookup
  <2>2. /\ req'[c].pc = "cancel" /\ req'[c].file = rows[i].filename /\ req'[c].id = i
        /\ UNCHANGED catalog /\ \A d \in Clients : d # c => req'[d] = req[d]
    BY <1>5, <2>1 DEF DeleteLookup, Idle, TypeOK
  <2>3. i < nextId
    BY <2>1 DEF Tasks, UnusedIds, TypeOK, RowsType, Ids
  <2>4. \A j \in Ids : Named(j, rows[i].filename) => j = i
    BY <2>1 DEF UniqueNames
  <2>5. AdminOwns(c)'
    BY <2>1, <2>2, <2>3, <2>4 DEF AdminOwns, Making, Knowing, Named, Exists, catalog
  <2>6. QED
    BY <2>2, <2>5, <1>1 DEF AdminsOwn
<1>6. ASSUME NEW c \in Clients, DeleteRow(c) PROVE AdminsOwn'
  <2>1. /\ req[c].id \in Ids /\ req[c].pc = "drop" /\ Writing(c) /\ DeleteISO(req[c].id)
        /\ Return(c) \/ Goto(c, "remove")
    BY <1>6, NoStatementFails DEF DeleteRow, At, Writing, TypeOK, Request
  <2>2. /\ nextId' = nextId /\ rows'[req[c].id].status = "absent"
        /\ \A j \in Ids : j # req[c].id => rows'[j] = rows[j]
    BY <2>1, AfterDelete
  <2>3. \A d \in Clients : d # c => req'[d] = req[d]
    BY <2>1, AfterGoto, AfterReturn
  <2>4. /\ Exists(req[c].id) => Named(req[c].id, req[c].file)
        /\ \A j \in Ids : Named(j, req[c].file) => j = req[c].id
    BY <2>1 DEF AdminsOwn, AdminOwns, Knowing
  <2>5. AdminOwns(c)'
    <3>1. CASE Return(c)
      BY <3>1, AfterReturn, NothingOwned
    <3>2. CASE Goto(c, "remove")
      <4>1. req'[c].pc = "remove" /\ req'[c].file = req[c].file
        BY <3>2, AfterGoto
      <4>2. QED
        BY <2>2, <2>4, <4>1 DEF AdminOwns, Making, Knowing, Named, Exists
    <3>3. QED
      BY <2>1, <3>1, <3>2
  <2>6. ASSUME NEW d \in Clients, d # c PROVE AdminOwns(d)'
    <3>1. AdminOwns(d) /\ req'[d] = req[d]
      BY <2>3, <2>6 DEF AdminsOwn
    <3>2. req[d].pc = "reread" => rows'[req[d].id].status # "absent"
      <4> SUFFICES ASSUME req[d].pc = "reread" PROVE rows'[req[d].id].status # "absent"
        OBVIOUS
      <4>1. req[d].id \in Ids /\ Named(req[d].id, req[d].file)
        BY <3>1 DEF AdminOwns, TypeOK, Request
      <4>2. req[d].file # req[c].file
        BY <2>1, <2>6 DEF Turns, AdminsApart, Writing
      <4>3. req[d].id # req[c].id
        BY <2>4, <4>1, <4>2 DEF Named
      <4>4. QED
        BY <2>2, <4>1, <4>3 DEF Named, Exists
    <3>3. \A j \in Ids : rows'[j].status # "absent" => rows'[j] = rows[j] /\ Exists(j)
      BY <2>2 DEF Exists
    <3>4. QED
      BY <2>2, <3>1, <3>2, <3>3, OwnerKept DEF Making, Knowing, Ready
  <2>7. QED
    BY <2>5, <2>6 DEF AdminsOwn
<1>7. ASSUME NEW i \in Ids, MarkError(i) \/ MarkReady(i) PROVE AdminsOwn'
  <2>1. /\ UpdateRow(i, "error", rows[i].sha) \/ UpdateRow(i, "ready", dl[i].ino)
        /\ req' = req /\ Running(i)
    BY <1>7, NoStatementFails DEF MarkError, MarkReady, Running
  <2>2. /\ nextId' = nextId
        /\ \A j \in Ids : rows'[j].status # "absent" <=> Exists(j)
        /\ \A j \in Ids : rows'[j].filename = rows[j].filename
        /\ \A j \in Ids : j # i => rows'[j] = rows[j]
    BY <2>1, AfterUpdate DEF Exists
  <2>3. ASSUME NEW d \in Clients PROVE AdminOwns(d)'
    <3>1. AdminOwns(d)
      BY DEF AdminsOwn
    <3>2. req[d].pc = "reread" => rows'[req[d].id].status # "absent"
      BY <2>2, <3>1 DEF AdminOwns, Named, TypeOK, Request
    <3>3. Making(d) => ~Named(i, req[d].file)
      <4> SUFFICES ASSUME Making(d), Named(i, req[d].file) PROVE FALSE
        OBVIOUS
      <4>1. dl[i].file = req[d].file
        BY <2>1 DEF DownloadsOwn, Named
      <4>2. QED
        BY <2>1, <4>1 DEF Turns, DownloadsSpared, Making, Writing, Deleting
    <3>4. QED
      BY <2>1, <2>2, <3>1, <3>2, <3>3, OwnerKept DEF Making, Knowing, Ready
  <2>4. QED
    BY <2>3 DEF AdminsOwn
<1>8. CASE \E c \in Clients :
          \/ ServeLookup(c) \/ UploadCopied(c) \/ UploadBroken(c) \/ UploadRefused(c)
          \/ UploadReread(c) \/ UploadDiscard(c) \/ ImportReread(c) \/ ImportStart(c)
          \/ DeleteCancel(c) \/ DeleteFile(c) \/ ServeOpen(c) \/ ServeDone(c)
  <2>1. PICK c \in Clients :
          \/ ServeLookup(c) \/ UploadCopied(c) \/ UploadBroken(c) \/ UploadRefused(c)
          \/ UploadReread(c) \/ UploadDiscard(c) \/ ImportReread(c) \/ ImportStart(c)
          \/ DeleteCancel(c) \/ DeleteFile(c) \/ ServeOpen(c) \/ ServeDone(c)
    BY <1>8
  <2>2. UNCHANGED catalog
    BY <2>1 DEF ServeLookup, UploadCopied, UploadBroken, UploadRefused, UploadReread,
                UploadDiscard, ImportReread, ImportStart, DeleteCancel, DeleteFile, ServeOpen,
                ServeDone
  <2>3. AdminOwns(c)
    BY DEF AdminsOwn
  <2>4. CASE ~Writing(c)' /\ \A d \in Clients : d # c => req'[d] = req[d]
    BY <2>2, <2>4, <1>1, NothingOwned DEF AdminsOwn
  <2>5. CASE \/ At(c, "copy") /\ Goto(c, "insert")
             \/ At(c, "insert") /\ Goto(c, "discard")
             \/ At(c, "accept") /\ Goto(c, "start")
             \/ At(c, "cancel") /\ Goto(c, "drop")
    <3>1. /\ req'[c].pc \notin {"reread", "remove"} /\ req[c].pc # "reread"
          /\ req'[c].file = req[c].file /\ req'[c].id = req[c].id
          /\ \A d \in Clients : d # c => req'[d] = req[d]
      <4>1. PICK pc \in {"insert", "discard", "start", "drop"} : Goto(c, pc)
        BY <2>5
      <4>2. /\ req'[c].pc = pc /\ req'[c].file = req[c].file /\ req'[c].id = req[c].id
            /\ \A d \in Clients : d # c => req'[d] = req[d]
        BY <4>1, AfterGoto
      <4>3. QED
        BY <2>5, <4>2 DEF At
    <3>2. (Making(c)' => Making(c)) /\ (Knowing(c)' => Knowing(c))
      <4>1. \A q : Goto(c, q) => req'[c].pc = q
        BY AfterGoto
      <4>2. QED
        BY <2>5, <4>1 DEF At, Making, Knowing
    <3>3. AdminOwns(c)'
      BY <2>2, <2>3, <3>1, <3>2, OwnerKept DEF catalog, Exists, Ready
    <3>4. QED
      BY <2>2, <3>1, <3>3, <1>1 DEF AdminsOwn
  <2>6. QED
    <3>1. CASE ServeLookup(c)
      BY <2>4, <3>1 DEF ServeLookup, Idle, Writing, TypeOK
    <3>2. CASE \/ UploadBroken(c) \/ UploadDiscard(c) \/ ImportStart(c) \/ DeleteFile(c)
               \/ ServeDone(c)
      BY <2>4, <3>2, AfterReturn DEF UploadBroken, UploadDiscard, ImportStart, DeleteFile, ServeDone
    <3>3. CASE ServeOpen(c)
      <4>1. ~Writing(c)' /\ \A d \in Clients : d # c => req'[d] = req[d]
        BY <3>3, AfterServeOpen, AfterReturn DEF Writing
      <4>2. QED
        BY <2>4, <4>1
    <3>4. CASE UploadReread(c)
      <4>1. Exists(req[c].id)
        BY <2>3, <3>4 DEF UploadReread, At, AdminOwns, Named
      <4>2. Return(c)
        BY <3>4, <4>1, NoStatementFails DEF UploadReread
      <4>3. QED
        BY <2>4, <4>2, AfterReturn
    <3>5. CASE ImportReread(c)
      <4>1. Return(c) \/ (At(c, "accept") /\ Goto(c, "start"))
        BY <3>5 DEF ImportReread
      <4>2. QED
        BY <2>4, <2>5, <4>1, AfterReturn
    <3>6. CASE UploadCopied(c) \/ UploadRefused(c) \/ DeleteCancel(c)
      BY <2>5, <3>6 DEF UploadCopied, UploadRefused, DeleteCancel
    <3>7. QED
      BY <2>1, <3>1, <3>2, <3>3, <3>4, <3>5, <3>6
<1>9. CASE \E i \in Ids :
          \/ DownloadOpen(i) \/ DownloadRefused(i) \/ DownloadFetched(i) \/ DownloadBroken(i)
          \/ FailureReread(i) \/ SuccessReread(i) \/ DownloadClean(i) \/ DownloadExit(i)
  <2>1. UNCHANGED catalog /\ UNCHANGED req
    BY <1>9 DEF DownloadOpen, DownloadRefused, DownloadFetched, DownloadBroken, FailureReread,
                SuccessReread, DownloadClean, DownloadExit
  <2>2. QED
    BY <2>1, <1>1 DEF AdminsOwn
<1>10. CASE Restart
  <2>1. \A c \in Clients : ~Writing(c)'
    BY <1>10 DEF Restart, Writing, Idle
  <2>2. QED
    BY <2>1, NothingOwned DEF AdminsOwn
<1>11. CASE UNCHANGED vars
  BY <1>11, <1>1 DEF vars, catalog, AdminsOwn
<1>12. QED
  BY <1>2, <1>3, <1>4, <1>5, <1>6, <1>7, <1>8, <1>9, <1>10, <1>11
     DEF Next, Upload, Import, Delete, RunDownload, Rest

---------------------------------------------------------------------------
(* Files *)

LEMMA OnDiskKept ==
  ASSUME OnDisk,
         \A p \in Filenames, n \in Inodes :
            Held(p, n)' => disk'[p] = n \/ (Held(p, n) /\ disk'[p] = disk[p])
  PROVE  OnDisk'
BY DEF OnDisk

\* Holders that go, or stay with what they hold.
LEMMA HeldShrinks ==
  ASSUME \A i \in Ids : rows'[i].status = "ready" => Ready(i) /\ rows'[i] = rows[i],
         \A c \in Clients : req'[c].pc \in {"copy", "insert"} =>
            Uploads(c) /\ req'[c].file = req[c].file /\ req'[c].ino = req[c].ino,
         \A i \in Ids : dl'[i].pc \in {"fetch", "fetched", "commit"} =>
            Downloads(i) /\ dl'[i].file = dl[i].file /\ dl'[i].ino = dl[i].ino
  PROVE  \A p, n : Held(p, n)' => Held(p, n)
BY DEF Held, Ready, Uploads, Downloads

LEMMA RequestEnds ==
  ASSUME TypeOK, NEW c \in Clients, NEW pc, pc # "copy", pc = "insert" => Uploads(c),
         Goto(c, pc) \/ Return(c)
  PROVE  \A d \in Clients : req'[d].pc \in {"copy", "insert"} =>
            Uploads(d) /\ req'[d].file = req[d].file /\ req'[d].ino = req[d].ino
<1>1. \A d \in Clients : d # c => req'[d] = req[d]
  BY AfterGoto, AfterReturn
<1>2. req'[c].pc \in {"copy", "insert"} =>
         Uploads(c) /\ req'[c].file = req[c].file /\ req'[c].ino = req[c].ino
  <2>1. CASE Goto(c, pc)
    BY <2>1, AfterGoto
  <2>2. CASE Return(c)
    BY <2>2, AfterReturn
  <2>3. QED
    BY <2>1, <2>2
<1>3. QED
  BY <1>1, <1>2 DEF Uploads

LEMMA DownloadEnds ==
  ASSUME TypeOK, NEW i \in Ids, NEW pc, DownloadGoto(i, pc),
         pc \in {"fetch", "fetched", "commit"} => Downloads(i)
  PROVE  \A j \in Ids : dl'[j].pc \in {"fetch", "fetched", "commit"} =>
            Downloads(j) /\ dl'[j].file = dl[j].file /\ dl'[j].ino = dl[j].ino
<1>1. /\ dl'[i].pc = pc /\ dl'[i].file = dl[i].file /\ dl'[i].ino = dl[i].ino
      /\ \A j \in Ids : j # i => dl'[j] = dl[j]
  BY AfterDownloadGoto
<1>2. QED
  BY <1>1 DEF Downloads

\* What an admin unlinks, nobody else relies on.
LEMMA AdminAlone ==
  ASSUME Order, NEW c \in Clients, req[c].pc \in {"copy", "discard", "remove"}
  PROVE  /\ \A i \in Ids : ~(Ready(i) /\ rows[i].filename = req[c].file)
         /\ \A d \in Clients : Uploads(d) /\ req[d].file = req[c].file => d = c
         /\ \A i \in Ids : ~(Downloads(i) /\ dl[i].file = req[c].file)
<1> USE DEF Order
<1>1. \A i \in Ids : ~(Ready(i) /\ rows[i].filename = req[c].file)
  BY DEF AdminsOwn, AdminOwns, Making, Named, Ready, Exists
<1>2. \A d \in Clients : Uploads(d) /\ req[d].file = req[c].file => d = c
  BY DEF Turns, AdminsApart, Writing, Uploads
<1>3. \A i \in Ids : ~(Downloads(i) /\ dl[i].file = req[c].file)
  BY DEF Turns, DownloadsSpared, Writing, Running, Deleting, Removing, Downloads
<1>4. QED
  BY <1>1, <1>2, <1>3

\* What a goroutine unlinks, nobody else relies on.
LEMMA DownloadAlone ==
  ASSUME Tasks, Order, NEW i \in Ids, dl[i].pc \in {"fetch", "clean"}
  PROVE  /\ \A j \in Ids : ~(Ready(j) /\ rows[j].filename = dl[i].file)
         /\ \A c \in Clients : ~(Uploads(c) /\ req[c].file = dl[i].file)
         /\ \A j \in Ids : Downloads(j) /\ dl[j].file = dl[i].file => j = i
<1> USE DEF Order
<1>1. \A j \in Ids : ~(Ready(j) /\ rows[j].filename = dl[i].file)
  <2> SUFFICES ASSUME NEW j \in Ids, Ready(j), rows[j].filename = dl[i].file PROVE FALSE
    OBVIOUS
  <2>1. Named(j, dl[i].file) /\ Running(i)
    BY DEF Named, Exists, Ready, Running
  <2>2. j = i
    BY <2>1 DEF DownloadsOwn
  <2>3. dl[i].pc = "fetch" /\ Exists(i)
    BY <2>1, <2>2 DEF DownloadsOwn, Named
  <2>4. rows[i].status = "downloading"
    BY <2>3 DEF Tasks, TasksOpen, Working
  <2>5. QED
    BY <2>2, <2>4 DEF Ready
<1>2. \A c \in Clients : ~(Uploads(c) /\ req[c].file = dl[i].file)
  BY DEF Turns, DownloadsSpared, Writing, Running, Deleting, Uploads
<1>3. \A j \in Ids : Downloads(j) /\ dl[j].file = dl[i].file => j = i
  BY DEF Turns, DownloadsApart, Running, Downloads
<1>4. QED
  BY <1>1, <1>2, <1>3

\* Unlinking a path that nobody holds any more.
LEMMA UnlinkFree ==
  ASSUME TypeOK, PlainNames, OnDisk, NEW f \in Filenames, Unlink(f),
         \A p, n : Held(p, n)' => Held(p, n), \A n : ~Held(f, n)'
  PROVE  OnDisk'
<1>1. \A p \in Filenames : p # f => disk'[p] = disk[p]
  BY PlainPaths DEF Unlink, TypeOK, FilesType
<1>2. QED
  BY <1>1, OnDiskKept

\* A new file at a path where there was none, with its one new holder.
LEMMA CreateHeld ==
  ASSUME TypeOK, PlainNames, OnDisk, NEW f \in Filenames, CreateFile(f),
         \A p, n : Held(p, n)' => Held(p, n) \/ (p = f /\ n = disk'[f])
  PROVE  OnDisk'
<1>1. /\ disk[f] = None
      /\ \A p \in Filenames : p # f => disk'[p] = disk[p]
  BY PlainPaths DEF CreateFile, TypeOK, FilesType
<1>2. \A n \in Inodes : ~Held(f, n)
  BY <1>1, NoneAssumption DEF OnDisk
<1>3. QED
  BY <1>1, <1>2, OnDiskKept

LEMMA OnDiskStep ==
  ASSUME PlainNames, StatementsSucceed, TypeOK, Tasks, Order, [Next]_vars
  PROVE  OnDisk'
<1> DEFINE RowsStay == \A i \in Ids :
                 rows'[i].status = "ready" => Ready(i) /\ rows'[i] = rows[i]
           RequestsStay == \A c \in Clients : req'[c].pc \in {"copy", "insert"} =>
                 Uploads(c) /\ req'[c].file = req[c].file /\ req'[c].ino = req[c].ino
           DownloadsStay == \A i \in Ids : dl'[i].pc \in {"fetch", "fetched", "commit"} =>
                 Downloads(i) /\ dl'[i].file = dl[i].file /\ dl'[i].ino = dl[i].ino
<1>1. OnDisk
  BY DEF Order
<1>2. ASSUME RowsStay, RequestsStay, DownloadsStay PROVE \A p, n : Held(p, n)' => Held(p, n)
  BY <1>2, HeldShrinks
<1>3. ASSUME RowsStay, RequestsStay, DownloadsStay, disk' = disk PROVE OnDisk'
  BY <1>1, <1>2, <1>3, OnDiskKept
<1>4. UNCHANGED catalog => RowsStay
  BY DEF catalog, Ready
<1>5. UNCHANGED req => RequestsStay
  BY DEF Uploads
<1>6. UNCHANGED dl => DownloadsStay
  BY DEF Downloads
<1>7. ASSUME NEW c \in Clients, NEW pc, pc # "copy", pc = "insert" => Uploads(c),
             Goto(c, pc) \/ Return(c)
      PROVE  RequestsStay
  BY <1>7, RequestEnds
<1>8. ASSUME NEW i \in Ids, NEW pc, DownloadGoto(i, pc),
             pc \in {"fetch", "fetched", "commit"} => Downloads(i)
      PROVE  DownloadsStay
  BY <1>8, DownloadEnds
<1> HIDE DEF RowsStay, RequestsStay, DownloadsStay
<1>9. ASSUME NEW c \in Clients, UploadOpen(c) PROVE OnDisk'
  <2>1. PICK f \in Filenames :
          /\ CreateFile(f)
          /\ req' = [req EXCEPT ![c] = [Idle EXCEPT !.pc = "copy", !.file = f, !.ino = disk'[f]]]
    BY <1>9, PlainPaths DEF UploadOpen
  <2>2. /\ req'[c].file = f /\ req'[c].ino = disk'[f]
        /\ \A d \in Clients : d # c => req'[d] = req[d]
    BY <2>1 DEF Idle, TypeOK
  <2>3. rows' = rows /\ dl' = dl
    BY <1>9 DEF UploadOpen, catalog
  <2>4. \A p, n : Held(p, n)' => Held(p, n) \/ (p = f /\ n = disk'[f])
    BY <2>2, <2>3 DEF Held, Ready, Uploads, Downloads
  <2>5. QED
    BY <1>1, <2>1, <2>4, CreateHeld
<1>10. ASSUME NEW i \in Ids, DownloadOpen(i) PROVE OnDisk'
  <2>1. dl[i].file \in Filenames
    BY <1>10, NamesHeld DEF DownloadOpen, Running
  <2>2. /\ CreateFile(dl[i].file)
        /\ dl' = [dl EXCEPT ![i] = [@ EXCEPT !.pc = "fetch", !.ino = disk'[dl[i].file]]]
    BY <1>10, <2>1, PlainPaths DEF DownloadOpen
  <2>3. /\ dl'[i].file = dl[i].file /\ dl'[i].ino = disk'[dl[i].file]
        /\ \A j \in Ids : j # i => dl'[j] = dl[j]
    BY <2>2 DEF TypeOK, Download
  <2>4. rows' = rows /\ req' = req
    BY <1>10 DEF DownloadOpen, catalog
  <2>5. \A p, n : Held(p, n)' => Held(p, n) \/ (p = dl[i].file /\ n = disk'[dl[i].file])
    BY <2>3, <2>4 DEF Held, Ready, Uploads, Downloads
  <2>6. QED
    BY <1>1, <2>1, <2>2, <2>5, CreateHeld
<1>11. ASSUME NEW c \in Clients, UploadBroken(c) \/ UploadDiscard(c) \/ DeleteFile(c)
       PROVE  OnDisk'
  <2>1. /\ req[c].pc \in {"copy", "discard", "remove"} /\ req[c].file \in Filenames
        /\ Return(c) /\ UNCHANGED catalog /\ UNCHANGED dl
    BY <1>11, NamesHeld DEF UploadBroken, UploadDiscard, DeleteFile, At
  <2>2. PICK f \in Filenames : f = req[c].file
    BY <2>1
  <2>3. Unlink(f)
    BY <1>11, <2>2, PlainPaths DEF UploadBroken, UploadDiscard, DeleteFile
  <2>4. \A p, n : Held(p, n)' => Held(p, n)
    BY <2>1, <1>2, <1>4, <1>6, <1>7
  <2>5. req'[c].pc = "idle" /\ \A d \in Clients : d # c => req'[d] = req[d]
    BY <2>1, AfterReturn
  <2>6. \A n : ~Held(f, n)'
    BY <2>1, <2>2, <2>5, AdminAlone DEF Held, Ready, Uploads, Downloads, catalog
  <2>7. QED
    BY <1>1, <2>3, <2>4, <2>6, UnlinkFree
<1>12. ASSUME NEW i \in Ids, DownloadBroken(i) \/ DownloadClean(i) PROVE OnDisk'
  <2>1. PICK pc \in {"failed", "exit"} :
          /\ dl[i].pc \in {"fetch", "clean"} /\ dl[i].file \in Filenames
          /\ DownloadGoto(i, pc) /\ UNCHANGED catalog /\ UNCHANGED req
    BY <1>12, NamesHeld DEF DownloadBroken, DownloadClean, Running
  <2>2. PICK f \in Filenames : f = dl[i].file
    BY <2>1
  <2>3. Unlink(f)
    BY <1>12, <2>2, PlainPaths DEF DownloadBroken, DownloadClean
  <2>4. \A p, n : Held(p, n)' => Held(p, n)
    BY <2>1, <1>2, <1>4, <1>5, <1>8
  <2>5. dl'[i].pc = pc /\ \A j \in Ids : j # i => dl'[j] = dl[j]
    BY <2>1, AfterDownloadGoto
  <2>6. \A n : ~Held(f, n)'
    BY <2>1, <2>2, <2>5, DownloadAlone DEF Held, Ready, Uploads, Downloads, catalog
  <2>7. QED
    BY <1>1, <2>3, <2>4, <2>6, UnlinkFree
<1>13. ASSUME NEW c \in Clients, UploadInsert(c) PROVE OnDisk'
  <2>1. /\ InsertRow(req[c].file, "ready", req[c].ino) /\ Uploads(c)
        /\ dl' = dl /\ disk' = disk
    BY <1>13 DEF UploadInsert, At, Uploads, files
  <2>2. /\ rows'[nextId] = [status |-> "ready", filename |-> req[c].file, sha |-> req[c].ino]
        /\ \A j \in Ids : j # nextId => rows'[j] = rows[j]
    BY <2>1, AfterInsert
  <2>3. req'[c].pc = "reread" /\ \A d \in Clients : d # c => req'[d] = req[d]
    BY <1>13 DEF UploadInsert, TypeOK
  <2>4. \A p, n : Held(p, n)' => Held(p, n)
    BY <2>1, <2>2, <2>3 DEF Held, Ready, Uploads, Downloads
  <2>5. QED
    BY <1>1, <2>1, <2>4, OnDiskKept
<1>14. ASSUME NEW i \in Ids, MarkError(i) \/ MarkReady(i) PROVE OnDisk'
  <2>1. /\ \/ UpdateRow(i, "error", rows[i].sha)
           \/ UpdateRow(i, "ready", dl[i].ino) /\ Downloads(i)
        /\ DownloadGoto(i, "exit") /\ req' = req /\ disk' = disk
    BY <1>14, NoStatementFails DEF MarkError, MarkReady, Downloads, files
  <2>2. \A j \in Ids : j # i => dl'[j] = dl[j] /\ rows'[j] = rows[j]
    BY <2>1, AfterUpdate, AfterDownloadGoto
  <2>3. /\ dl'[i].pc = "exit"
        /\ rows'[i].status = "ready" =>
              \/ Ready(i) /\ rows'[i] = rows[i]
              \/ Downloads(i) /\ rows'[i].filename = dl[i].file /\ rows'[i].sha = dl[i].ino
    <3>1. dl'[i].pc = "exit"
      BY <2>1, AfterDownloadGoto
    <3>2. CASE ~Exists(i)
      BY <2>1, <3>1, <3>2, AfterUpdate DEF Ready
    <3>3. CASE Exists(i)
      <4>1. rows'[i].filename = rows[i].filename
        BY <2>1, AfterUpdate
      <4>2. Downloads(i) => rows[i].filename = dl[i].file
        BY <3>3 DEF Order, DownloadsOwn, Running, Named, Downloads
      <4>3. \/ rows'[i].status = "error"
            \/ Downloads(i) /\ rows'[i].sha = dl[i].ino
        BY <2>1, <3>3, AfterUpdate
      <4>4. QED
        BY <3>1, <4>1, <4>2, <4>3
    <3>4. QED
      BY <3>2, <3>3
  <2>4. \A p, n : Held(p, n)' => Held(p, n)
    BY <2>1, <2>2, <2>3 DEF Held, Ready, Uploads, Downloads
  <2>5. QED
    BY <1>1, <2>1, <2>4, OnDiskKept
<1>15. ASSUME NEW c \in Clients, ImportInsert(c) PROVE OnDisk'
  <2>1. PICK f \in Filenames : InsertRow(f, "downloading", None)
    BY <1>15 DEF ImportInsert
  <2>2. RowsStay
    BY <2>1, AfterInsert DEF RowsStay, Ready
  <2>3. req'[c].pc = "accept" /\ \A d \in Clients : d # c => req'[d] = req[d]
    BY <1>15 DEF ImportInsert, Idle, TypeOK
  <2>4. QED
    BY <1>15, <2>2, <2>3, <1>3, <1>6 DEF ImportInsert, RequestsStay, Uploads, files
<1>16. ASSUME NEW c \in Clients, DeleteLookup(c) \/ ServeLookup(c) PROVE OnDisk'
  <2>1. req'[c].pc \in {"cancel", "serve"} /\ \A d \in Clients : d # c => req'[d] = req[d]
    BY <1>16 DEF DeleteLookup, ServeLookup, Idle, TypeOK
  <2>2. RequestsStay
    BY <2>1 DEF RequestsStay, Uploads
  <2>3. QED
    BY <1>16, <2>2, <1>3, <1>4, <1>6 DEF DeleteLookup, ServeLookup, files
<1>17. ASSUME NEW c \in Clients,
              \/ UploadCopied(c) \/ UploadRefused(c) \/ UploadReread(c) \/ ImportReread(c)
              \/ ServeDone(c)
       PROVE  OnDisk'
  <2>1. UNCHANGED catalog /\ UNCHANGED dl /\ disk' = disk
    BY <1>17 DEF UploadCopied, UploadRefused, UploadReread, ImportReread, ServeDone,
                 CompleteFile, files
  <2>2. \/ Uploads(c) /\ Goto(c, "insert")
        \/ Goto(c, "discard") \/ Goto(c, "start") \/ Return(c)
    BY <1>17 DEF UploadCopied, UploadRefused, UploadReread, ImportReread, ServeDone, At, Uploads
  <2>3. RequestsStay
    BY <2>2, <1>7
  <2>4. QED
    BY <2>1, <2>3, <1>3, <1>4, <1>6
<1>18. ASSUME NEW c \in Clients, ServeOpen(c) PROVE OnDisk'
  <2>1. RequestsStay
    <3>1. CASE Return(c)
      BY <3>1, AfterReturn DEF RequestsStay, Uploads
    <3>2. CASE req'[c].pc = "stream" /\ \A d \in Clients : d # c => req'[d] = req[d]
      BY <3>2 DEF RequestsStay, Uploads
    <3>3. QED
      BY <1>18, <3>1, <3>2, AfterServeOpen
  <2>2. QED
    BY <1>18, <2>1, <1>3, <1>4, <1>6 DEF ServeOpen, files
<1>19. ASSUME NEW c \in Clients, ImportStart(c) PROVE OnDisk'
  <2>1. /\ req[c].id \in Ids /\ Return(c) /\ UNCHANGED catalog /\ disk' = disk
        /\ dl' = [dl EXCEPT ![req[c].id] =
                    [NoDownload EXCEPT !.pc = "open", !.file = req[c].file]]
    BY <1>19 DEF ImportStart, At, TypeOK, Request, files
  <2>2. /\ dl'[req[c].id].pc = "open"
        /\ \A j \in Ids : j # req[c].id => dl'[j] = dl[j]
    BY <2>1 DEF TypeOK, NoDownload
  <2>3. DownloadsStay
    BY <2>1, <2>2 DEF DownloadsStay, Downloads
  <2>4. QED
    BY <2>1, <2>3, <1>3, <1>4, <1>7
<1>20. ASSUME NEW c \in Clients, DeleteCancel(c) PROVE OnDisk'
  <2>1. \A j \in Ids : /\ dl'[j].pc = dl[j].pc /\ dl'[j].file = dl[j].file
                       /\ dl'[j].ino = dl[j].ino
    BY <1>20 DEF DeleteCancel, TypeOK, Download
  <2>2. DownloadsStay
    BY <2>1 DEF DownloadsStay, Downloads
  <2>3. QED
    BY <1>20, <2>2, <1>3, <1>4, <1>7 DEF DeleteCancel, files
<1>21. ASSUME NEW c \in Clients, DeleteRow(c) PROVE OnDisk'
  <2>1. /\ req[c].id \in Ids /\ DeleteISO(req[c].id) /\ disk' = disk /\ UNCHANGED dl
        /\ Return(c) \/ Goto(c, "remove")
    BY <1>21, NoStatementFails DEF DeleteRow, At, TypeOK, Request, files
  <2>2. RowsStay
    BY <2>1, AfterDelete DEF RowsStay, Ready
  <2>3. QED
    BY <2>1, <2>2, <1>3, <1>6, <1>7
<1>22. ASSUME NEW i \in Ids,
              \/ DownloadRefused(i) \/ DownloadFetched(i) \/ FailureReread(i) \/ SuccessReread(i)
       PROVE  OnDisk'
  <2>1. UNCHANGED catalog /\ UNCHANGED req /\ disk' = disk
    BY <1>22 DEF DownloadRefused, DownloadFetched, FailureReread, SuccessReread, CompleteFile, files
  <2>2. PICK pc : DownloadGoto(i, pc) /\ (pc \in {"fetch", "fetched", "commit"} => Downloads(i))
    BY <1>22 DEF DownloadRefused, DownloadFetched, FailureReread, SuccessReread, Downloads
  <2>3. QED
    BY <2>1, <2>2, <1>3, <1>4, <1>5, <1>8
<1>23. ASSUME NEW i \in Ids, DownloadExit(i) PROVE OnDisk'
  <2>1. dl'[i].pc = "none" /\ \A j \in Ids : j # i => dl'[j] = dl[j]
    BY <1>23 DEF DownloadExit, NoDownload, TypeOK
  <2>2. DownloadsStay
    BY <2>1 DEF DownloadsStay, Downloads
  <2>3. QED
    BY <1>23, <2>2, <1>3, <1>4, <1>5 DEF DownloadExit, files
<1>24. CASE Restart
  <2>1. RequestsStay /\ DownloadsStay
    BY <1>24 DEF Restart, Idle, NoDownload, RequestsStay, DownloadsStay
  <2>2. QED
    BY <1>24, <2>1, <1>3, <1>4 DEF Restart, files
<1>25. CASE UNCHANGED vars
  BY <1>25, <1>3, <1>4, <1>5, <1>6 DEF vars, catalog
<1>26. QED
  BY <1>9, <1>10, <1>11, <1>12, <1>13, <1>14, <1>15, <1>16, <1>17, <1>18, <1>19, <1>20, <1>21,
     <1>22, <1>23, <1>24, <1>25
     DEF Next, Upload, Import, Delete, RunDownload, Rest

---------------------------------------------------------------------------

LEMMA OrderInit == Init => Order
<1> SUFFICES ASSUME Init PROVE Order
  OBVIOUS
<1>1. /\ \A i \in Ids : rows[i].status = "absent" /\ dl[i].pc = "none"
      /\ \A c \in Clients : req[c].pc = "idle"
  BY DEF Init, NoRow, NoDownload, Idle
<1>2. QED
  BY <1>1 DEF Order, Turns, AdminsApart, DownloadsApart, DownloadsSpared, UniqueNames, DownloadsOwn,
              AdminsOwn, AdminOwns, Making, Knowing, OnDisk, Held, Named, Exists, Ready, Uploads,
              Downloads, Running, Writing

LEMMA OrderStep ==
  ASSUME PlainNames, OneAtATime, StatementsSucceed, TypeOK, Holding, Tasks, Order, [Next]_vars
  PROVE  Order'
BY TurnsStep, NamesStep, AdminsStep, OnDiskStep DEF Order

LEMMA OrderCorrect ==
  ASSUME PlainNames, OneAtATime, StatementsSucceed
  PROVE  Spec => []Order
<1>1. TypeOK /\ Holding /\ Tasks /\ Order /\ [Next]_vars => Order'
  BY OrderStep
<1>2. QED
  BY <1>1, OrderInit, TypeCorrect, HoldingCorrect, TasksCorrect, PTL DEF Spec

(***************************************************************************)
(* Where admins do not work on one file at a time, send plain names and    *)
(* no statement fails, the file a ready row promises is there, and is the  *)
(* one its checksum was taken of, also after restarts.                     *)
(***************************************************************************)
THEOREM ReadyFileExistsCorrect ==
  ASSUME PlainNames, OneAtATime, StatementsSucceed
  PROVE  Spec => []ReadyFileExists
<1>1. TypeOK /\ Holding /\ Order => ReadyFileExists
  <2> SUFFICES ASSUME TypeOK, Holding, Order, NEW i \in Ids, Ready(i)
               PROVE  disk[Declared[rows[i].filename]] = rows[i].sha
    BY DEF ReadyFileExists, Ready
  <2>1. rows[i].filename \in Filenames /\ rows[i].sha \in Inodes
    BY NamesHeld DEF Holding, RowsHold
  <2>2. Held(rows[i].filename, rows[i].sha)
    BY DEF Held
  <2>3. QED
    BY <2>1, <2>2, PlainPaths DEF Order, OnDisk
<1>2. QED
  BY <1>1, OrderCorrect, TypeCorrect, HoldingCorrect, PTL

---------------------------------------------------------------------------
(***************************************************************************)
(* What a BMC is served.  A ready row stays as it is until it is deleted,  *)
(* so the request has the name of the row it looked up, and its file.      *)
(***************************************************************************)
Serving(c) == req[c].pc \in {"serve", "stream"}

Serves == \A c \in Clients : Serving(c) =>
    /\ req[c].id < nextId
    /\ Exists(req[c].id) =>
          /\ Ready(req[c].id) /\ rows[req[c].id].filename = req[c].file
          /\ req[c].pc = "stream" => req[c].ino = rows[req[c].id].sha

LEMMA ReadyRowsStay ==
  ASSUME StatementsSucceed, TypeOK, Tasks, [Next]_vars
  PROVE  \A i \in Ids : i < nextId =>
            /\ i < nextId'
            /\ rows'[i].status # "absent" => Exists(i)
            /\ Ready(i) /\ rows'[i].status # "absent" => rows'[i] = rows[i]
<1> SUFFICES ASSUME NEW i \in Ids, i < nextId
             PROVE  /\ i < nextId'
                    /\ rows'[i].status # "absent" => Exists(i)
                    /\ Ready(i) /\ rows'[i].status # "absent" => rows'[i] = rows[i]
  OBVIOUS
<1>1. ASSUME NEW f, NEW s \in {"downloading", "ready"}, NEW n, InsertRow(f, s, n)
      PROVE  i < nextId' /\ rows'[i] = rows[i]
  <2>1. /\ nextId' = nextId + 1 /\ nextId \in Ids
        /\ \A j \in Ids : j # nextId => rows'[j] = rows[j]
    BY <1>1, AfterInsert
  <2>2. i < nextId + 1 /\ i # nextId
    BY <2>1 DEF Ids
  <2>3. QED
    BY <2>1, <2>2
<1>2. CASE \E c \in Clients : UploadInsert(c) \/ ImportInsert(c)
  BY <1>1, <1>2 DEF UploadInsert, ImportInsert, Exists
<1>3. ASSUME NEW c \in Clients, DeleteRow(c)
      PROVE  /\ i < nextId'
             /\ rows'[i].status # "absent" => rows'[i] = rows[i]
  <2>1. req[c].id \in Ids /\ DeleteISO(req[c].id)
    BY <1>3, NoStatementFails DEF DeleteRow, At, TypeOK, Request
  <2>2. QED
    BY <2>1, AfterDelete
<1>4. ASSUME NEW j \in Ids, MarkError(j) \/ MarkReady(j)
      PROVE  /\ i < nextId'
             /\ rows'[i].status # "absent" => Exists(i)
             /\ Ready(i) => rows'[i] = rows[i]
  <2>1. /\ UpdateRow(j, "error", rows[j].sha) \/ UpdateRow(j, "ready", dl[j].ino)
        /\ Working(j)
    BY <1>4, NoStatementFails DEF MarkError, MarkReady, Working
  <2>2. Exists(j) => ~Ready(j)
    BY <2>1 DEF Tasks, TasksOpen, Ready
  <2>3. QED
    BY <2>1, <2>2, AfterUpdate DEF Exists, Ready
<1>5. CASE UNCHANGED catalog
  BY <1>5 DEF catalog, Exists
<1>6. QED
  BY <1>2, <1>3, <1>4, <1>5
     DEF Exists, Next, vars, catalog, Upload, Import, Delete, RunDownload, Rest, Restart,
         UploadOpen, DeleteLookup, ServeLookup, UploadCopied, UploadBroken, UploadRefused,
         UploadReread, UploadDiscard, ImportReread, ImportStart, DeleteCancel, DeleteFile,
         ServeOpen, ServeDone, DownloadOpen, DownloadRefused, DownloadFetched, DownloadBroken,
         FailureReread, SuccessReread, DownloadClean, DownloadExit

LEMMA ServesStep ==
  ASSUME PlainNames, StatementsSucceed, TypeOK, Holding, Tasks, Order, Serves, [Next]_vars
  PROVE  Serves'
<1> DEFINE Fits(c) == /\ req[c].id < nextId
                      /\ Exists(req[c].id) =>
                            /\ Ready(req[c].id) /\ rows[req[c].id].filename = req[c].file
                            /\ req[c].pc = "stream" => req[c].ino = rows[req[c].id].sha
<1>1. ASSUME NEW c \in Clients, req'[c].pc \in {"serve", "stream"}, req'[c] = req[c]
      PROVE  Fits(c)'
  <2>1. req[c].id \in Ids /\ Fits(c)
    BY <1>1 DEF Serves, Serving, TypeOK, Request
  <2>2. /\ req[c].id < nextId'
        /\ rows'[req[c].id].status # "absent" =>
              Exists(req[c].id) /\ rows'[req[c].id] = rows[req[c].id]
    BY <2>1, ReadyRowsStay
  <2>3. QED
    BY <1>1, <2>1, <2>2 DEF Exists, Ready
<1>2. ASSUME NEW c \in Clients, ServeLookup(c) PROVE Fits(c)'
  <2>1. PICK i \in Ids :
          /\ Ready(i)
          /\ req' = [req EXCEPT ![c] =
                       [Idle EXCEPT !.pc = "serve", !.file = rows[i].filename, !.id = i]]
    BY <1>2 DEF ServeLookup, Ready
  <2>2. req'[c].pc = "serve" /\ req'[c].file = rows[i].filename /\ req'[c].id = i
    BY <2>1 DEF Idle, TypeOK
  <2>3. i < nextId
    BY <2>1 DEF Tasks, UnusedIds, TypeOK, RowsType, Ids, Ready, Exists
  <2>4. UNCHANGED catalog
    BY <1>2 DEF ServeLookup
  <2>5. QED
    BY <2>1, <2>2, <2>3, <2>4 DEF Exists, Ready, catalog
<1>3. ASSUME NEW c \in Clients, ServeOpen(c), req'[c].pc \in {"serve", "stream"} PROVE Fits(c)'
  <2>1. /\ req[c].pc = "serve" /\ req[c].id \in Ids /\ req[c].file \in Filenames
        /\ UNCHANGED catalog
    BY <1>3 DEF ServeOpen, At, TypeOK, Request
  <2>2. /\ req'[c].file = req[c].file /\ req'[c].id = req[c].id
        /\ req'[c].ino = disk[req[c].file]
    BY <1>3, <2>1, AfterServeOpen, AfterReturn, PlainPaths
  <2>3. Fits(c)
    BY <2>1 DEF Serves, Serving
  <2>4. Exists(req[c].id) => disk[req[c].file] = rows[req[c].id].sha
    <3> SUFFICES ASSUME Exists(req[c].id) PROVE disk[req[c].file] = rows[req[c].id].sha
      OBVIOUS
    <3>1. Held(req[c].file, rows[req[c].id].sha) /\ rows[req[c].id].sha \in Inodes
      BY <2>1, <2>3 DEF Held, Holding, RowsHold
    <3>2. QED
      BY <2>1, <3>1 DEF Order, OnDisk
  <2>5. QED
    BY <2>1, <2>2, <2>3, <2>4 DEF Exists, Ready, catalog
<1>4. ASSUME NEW c \in Clients, req'[c].pc \in {"serve", "stream"}
      PROVE  req'[c] = req[c] \/ ServeLookup(c) \/ ServeOpen(c)
  <2>1. CASE \E d \in Clients :
          \/ UploadOpen(d) \/ UploadInsert(d) \/ ImportInsert(d) \/ DeleteLookup(d)
    <3>1. PICK d \in Clients :
            UploadOpen(d) \/ UploadInsert(d) \/ ImportInsert(d) \/ DeleteLookup(d)
      BY <2>1
    <3>2. /\ req'[d].pc \in {"copy", "reread", "accept", "cancel"}
          /\ \A e \in Clients : e # d => req'[e] = req[e]
      <4>1. CASE UploadInsert(d)
        BY <4>1 DEF UploadInsert, TypeOK, Request
      <4>2. CASE UploadOpen(d)
        BY <4>2 DEF UploadOpen, Idle, TypeOK
      <4>3. CASE ImportInsert(d)
        BY <4>3 DEF ImportInsert, Idle, TypeOK
      <4>4. CASE DeleteLookup(d)
        BY <4>4 DEF DeleteLookup, Idle, TypeOK
      <4>5. QED
        BY <3>1, <4>1, <4>2, <4>3, <4>4
    <3>3. QED
      BY <1>4, <3>2
  <2>2. CASE \E d \in Clients : ServeLookup(d) \/ ServeOpen(d)
    <3>1. PICK d \in Clients : ServeLookup(d) \/ ServeOpen(d)
      BY <2>2
    <3>2. \A e \in Clients : e # d => req'[e] = req[e]
      BY <3>1 DEF ServeLookup, ServeOpen, Return, TypeOK
    <3>3. QED
      BY <3>1, <3>2
  <2>3. CASE \E d \in Clients, pc \in {"insert", "discard", "start", "drop", "remove"} :
               Goto(d, pc) \/ Return(d)
    BY <1>4, <2>3, AfterGoto, AfterReturn
  <2>4. CASE UNCHANGED req
    BY <2>4
  <2>5. CASE Restart
    BY <1>4, <2>5 DEF Restart, Idle
  <2>6. QED
    BY <2>1, <2>2, <2>3, <2>4, <2>5
       DEF Next, vars, Upload, Import, Delete, RunDownload, Rest,
           UploadCopied, UploadBroken, UploadRefused, UploadReread, UploadDiscard, ImportReread,
           ImportStart, DeleteCancel, DeleteRow, DeleteFile, ServeDone, DownloadOpen,
           DownloadRefused, DownloadFetched, DownloadBroken, FailureReread, MarkError,
           SuccessReread, MarkReady, DownloadClean, DownloadExit
<1>5. \A c \in Clients : req'[c].pc \in {"serve", "stream"} => Fits(c)'
  BY <1>1, <1>2, <1>3, <1>4
<1>6. QED
  BY <1>5 DEF Serves, Serving

LEMMA ServesCorrect ==
  ASSUME PlainNames, OneAtATime, StatementsSucceed
  PROVE  Spec => []Serves
<1>1. Init => Serves
  BY DEF Init, Serves, Serving, Idle
<1>2. TypeOK /\ Holding /\ Tasks /\ Order /\ Serves /\ [Next]_vars => Serves'
  BY ServesStep
<1>3. QED
  BY <1>1, <1>2, OrderCorrect, TypeCorrect, HoldingCorrect, TasksCorrect, PTL DEF Spec

(***************************************************************************)
(* Under the same assumptions a BMC streams the complete file its row's    *)
(* checksum was taken of, whatever became of other rows and files between  *)
(* the look-up and the open.                                               *)
(***************************************************************************)
THEOREM ServesReadyBytesCorrect ==
  ASSUME PlainNames, OneAtATime, StatementsSucceed
  PROVE  Spec => []ServesReadyBytes
<1>1. TypeOK /\ Holding /\ Serves => ServesReadyBytes
  <2> SUFFICES ASSUME TypeOK, Holding, Serves, NEW c \in Clients, req[c].pc = "stream",
                      Exists(req[c].id)
               PROVE  req[c].ino = rows[req[c].id].sha /\ content[req[c].ino] = "complete"
    BY DEF ServesReadyBytes
  <2>1. req[c].id \in Ids
    BY DEF TypeOK, Request
  <2>2. Ready(req[c].id) /\ req[c].ino = rows[req[c].id].sha
    BY DEF Serves, Serving
  <2>3. QED
    BY <2>1, <2>2 DEF Holding, RowsHold
<1>2. QED
  BY <1>1, ServesCorrect, TypeCorrect, HoldingCorrect, PTL
---------------------------------------------------------------------------
(***************************************************************************)
(* No orphans.  As long as nothing overlaps on one file, not even a delete *)
(* and the import it would cancel, nobody asks to keep a file and no       *)
(* statement fails, every file of the library has a row or a request that  *)
(* will insert the row or unlink the file.                                 *)
(***************************************************************************)
NothingOverlaps == Overlap = "none"

NobodyKeeps == "delete_keep" \notin Requests

\* Neither works an admin on a goroutine's file.
Alone == \A c \in Clients, i \in Ids : Writing(c) /\ Running(i) => req[c].file # dl[i].file

\* An import's row stays until its goroutine is done.
RowsHeld ==
    /\ \A c \in Clients : Pending(c) => Exists(req[c].id)
    /\ \A i \in Ids : Running(i) => Exists(i)

\* A delete that drops a row goes on to unlink its file.
DeletesUnlink == restarts = 0 =>
    \A c \in Clients : req[c].pc \in {"cancel", "drop"} => req[c].remove

Handling(c, p) == req[c].pc \in {"copy", "insert", "discard", "remove"} /\ req[c].file = p

FilesTended == restarts = 0 => \A p \in Paths : disk[p] # None =>
    \/ \E i \in Ids : Named(i, p)
    \/ \E c \in Clients : Handling(c, p)

Tidy == Alone /\ RowsHeld /\ DeletesUnlink /\ FilesTended

LEMMA AloneKept ==
  ASSUME Alone,
         \A c \in Clients : Writing(c)' => Writing(c) /\ req'[c].file = req[c].file,
         \A i \in Ids : Running(i)' => Running(i) /\ dl'[i].file = dl[i].file
  PROVE  Alone'
BY DEF Alone

LEMMA MayDeleteAlone ==
  ASSUME TypeOK, PlainNames, NothingOverlaps, NEW f \in Filenames, MayDelete(f)
  PROVE  /\ \A d \in Clients : Writing(d) => req[d].file # f
         /\ \A i \in Ids : Running(i) => dl[i].file # f
<1>1. Base[f] = f /\ ~Claimed(f) /\ ~Downloading(f)
  BY PlainPaths DEF MayDelete, NothingOverlaps
<1>2. ASSUME NEW d \in Clients, Writing(d) PROVE req[d].file # f
  BY <1>1, <1>2 DEF Claimed
<1>3. ASSUME NEW i \in Ids, Running(i) PROVE dl[i].file # f
  BY <1>1, <1>3 DEF Downloading
<1>4. QED
  BY <1>2, <1>3

\* What a delete looks up: a row on whose file nobody works.
LEMMA AfterDeleteLookup ==
  ASSUME TypeOK, PlainNames, NothingOverlaps, NobodyKeeps, NEW c \in Clients, DeleteLookup(c)
  PROVE  \E i \in Ids :
           /\ Exists(i) /\ MayDelete(rows[i].filename)
           /\ req'[c].pc = "cancel" /\ req'[c].file = rows[i].filename /\ req'[c].id = i
           /\ req'[c].remove <=> rows[i].status # "downloading"
           /\ \A d \in Clients : Writing(d) => req[d].file # rows[i].filename
           /\ \A j \in Ids : Running(j) => dl[j].file # rows[i].filename
<1>1. PICK i \in Ids, deleteFile \in BOOLEAN :
        /\ Arrives(c, IF deleteFile THEN "delete" ELSE "delete_keep")
        /\ Exists(i) /\ MayDelete(rows[i].filename)
        /\ req' = [req EXCEPT ![c] = [Idle EXCEPT
                    !.pc = "cancel", !.file = rows[i].filename, !.id = i,
                    !.remove = (deleteFile /\ rows[i].status # "downloading")]]
  BY DEF DeleteLookup
<1>2. deleteFile
  BY <1>1 DEF Arrives, NobodyKeeps
<1>3. /\ req'[c].pc = "cancel" /\ req'[c].file = rows[i].filename /\ req'[c].id = i
      /\ req'[c].remove <=> rows[i].status # "downloading"
  BY <1>1, <1>2 DEF Idle, TypeOK
<1>4. rows[i].filename \in Filenames
  BY <1>1, NamesHeld
<1>5. QED
  BY <1>1, <1>3, <1>4, MayDeleteAlone

LEMMA AloneStep ==
  ASSUME PlainNames, NothingOverlaps, NobodyKeeps, TypeOK, Order, Alone, [Next]_vars
  PROVE  Alone'
<1>0. OneAtATime
  BY DEF NothingOverlaps, OneAtATime
<1>1. ASSUME NEW c \in Clients, NEW f, UNCHANGED dl,
             \A d \in Clients : d # c => req'[d] = req[d],
             req'[c].file = f, \A i \in Ids : Running(i) => dl[i].file # f
      PROVE  Alone'
  BY <1>1 DEF Alone, Writing, Running
<1>2. ASSUME NEW c \in Clients, UploadOpen(c) \/ ImportInsert(c) PROVE Alone'
  <2>1. PICK f \in Filenames : MayTransfer(f) /\ req'[c].file = f
    BY <1>2, PlainPaths DEF UploadOpen, ImportInsert, Idle, TypeOK
  <2>2. UNCHANGED dl /\ \A d \in Clients : d # c => req'[d] = req[d]
    BY <1>2 DEF UploadOpen, ImportInsert, TypeOK
  <2>3. QED
    BY <1>0, <1>1, <2>1, <2>2, MayTransferAlone
<1>3. ASSUME NEW c \in Clients, DeleteLookup(c) PROVE Alone'
  <2>1. PICK i \in Ids :
          /\ req'[c].file = rows[i].filename
          /\ \A j \in Ids : Running(j) => dl[j].file # rows[i].filename
    BY <1>3, AfterDeleteLookup
  <2>2. UNCHANGED dl /\ \A d \in Clients : d # c => req'[d] = req[d]
    BY <1>3 DEF DeleteLookup, TypeOK
  <2>3. QED
    BY <1>1, <2>1, <2>2
<1>4. ASSUME NEW c \in Clients, ImportStart(c) PROVE Alone'
  <2>1. /\ req[c].id \in Ids /\ Writing(c)
        /\ req'[c].pc = "idle" /\ \A d \in Clients : d # c => req'[d] = req[d]
    BY <1>4 DEF ImportStart, At, Return, Idle, Writing, TypeOK, Request
  <2>2. /\ dl'[req[c].id].file = req[c].file
        /\ \A j \in Ids : j # req[c].id => dl'[j] = dl[j]
    BY <1>4, <2>1 DEF ImportStart, TypeOK, NoDownload
  <2>3. \A d \in Clients : d # c /\ Writing(d) => req[d].file # req[c].file
    BY <2>1 DEF Order, Turns, AdminsApart
  <2>4. QED
    BY <2>1, <2>2, <2>3 DEF Alone, Writing, Running
<1>5. ASSUME NEW c \in Clients, GoesOn(c) PROVE Alone'
  BY <1>5, AdminGoesOn, AloneKept DEF Running
<1>6. ASSUME NEW i \in Ids, RunDownload(i) PROVE Alone'
  BY <1>6, DownloadGoesOn, AloneKept DEF Running, Writing
<1>7. CASE Restart
  BY <1>7, AloneKept DEF Restart, Idle, NoDownload, Writing, Running, TypeOK
<1>8. CASE UNCHANGED vars
  BY <1>8, AloneKept DEF vars, Writing, Running
<1>9. QED
  BY <1>2, <1>3, <1>4, <1>5, <1>6, <1>7, <1>8 DEF Next, Upload, Import, Delete, GoesOn, Rest

LEMMA RowsHeldKept ==
  ASSUME TypeOK, RowsHeld,
         \A i \in Ids : Exists(i) => rows'[i].status # "absent",
         \A c \in Clients : Pending(c)' =>
            \/ Pending(c) /\ req'[c].id = req[c].id
            \/ rows'[req'[c].id].status # "absent",
         \A i \in Ids : Running(i)' => Running(i) \/ Exists(i)
  PROVE  RowsHeld'
<1>1. \A c \in Clients : Pending(c) => req[c].id \in Ids
  BY TasksHaveIds
<1>2. QED
  BY <1>1 DEF RowsHeld, Exists

LEMMA RowsHeldStep ==
  ASSUME PlainNames, NothingOverlaps, TypeOK, Tasks, Order, Alone, RowsHeld, [Next]_vars
  PROVE  RowsHeld'
<1> DEFINE RowsStay == \A i \in Ids : Exists(i) => rows'[i].status # "absent"
           RequestsStay == \A c \in Clients : Pending(c)' =>
              \/ Pending(c) /\ req'[c].id = req[c].id
              \/ rows'[req'[c].id].status # "absent"
           DownloadsStay == \A i \in Ids : Running(i)' => Running(i) \/ Exists(i)
<1>1. ASSUME RowsStay, RequestsStay, DownloadsStay PROVE RowsHeld'
  BY <1>1, RowsHeldKept
<1>2. UNCHANGED catalog => RowsStay
  BY DEF catalog, Exists
<1>3. UNCHANGED req => RequestsStay
  BY DEF Pending
<1>4. UNCHANGED dl => DownloadsStay
  BY DEF Running
<1>5. ASSUME NEW f, NEW st \in {"downloading", "ready"}, NEW n, InsertRow(f, st, n)
      PROVE  RowsStay /\ nextId \in Ids /\ rows'[nextId].status # "absent"
  BY <1>5, AfterInsert DEF Exists
<1>6. ASSUME NEW c \in Clients, \A d \in Clients : d # c => req'[d] = req[d],
             Pending(c)' => Pending(c) /\ req'[c].id = req[c].id
      PROVE  RequestsStay
  BY <1>6 DEF Pending
<1>7. ASSUME NEW c \in Clients, NEW pc, pc \notin {"accept", "start"} \/ Pending(c),
             Goto(c, pc) \/ Return(c)
      PROVE  RequestsStay
  BY <1>7, RequestMovesOn DEF TypeOK
<1>8. ASSUME NEW c \in Clients,
             UploadOpen(c) \/ DeleteLookup(c) \/ ServeLookup(c) \/ ServeOpen(c)
      PROVE  RowsHeld'
  <2>1. /\ req'[c].pc \notin {"accept", "start"} /\ \A d \in Clients : d # c => req'[d] = req[d]
        /\ UNCHANGED <<catalog, dl>>
    <3>1. CASE ServeOpen(c)
      BY <3>1, AfterServeOpen, AfterReturn DEF ServeOpen
    <3>2. CASE UploadOpen(c) \/ DeleteLookup(c) \/ ServeLookup(c)
      BY <3>2 DEF UploadOpen, DeleteLookup, ServeLookup, Idle, TypeOK, catalog
    <3>3. QED
      BY <1>8, <3>1, <3>2
  <2>2. RequestsStay
    BY <1>6, <2>1 DEF Pending
  <2>3. QED
    BY <2>1, <2>2, <1>1, <1>2, <1>4
<1>9. ASSUME NEW c \in Clients,
             \/ UploadCopied(c) \/ UploadBroken(c) \/ UploadRefused(c) \/ UploadReread(c)
             \/ UploadDiscard(c) \/ ImportReread(c) \/ DeleteFile(c) \/ ServeDone(c)
      PROVE  RowsHeld'
  <2>1. UNCHANGED <<catalog, dl>>
    BY <1>9 DEF UploadCopied, UploadBroken, UploadRefused, UploadReread, UploadDiscard,
                ImportReread, DeleteFile, ServeDone, catalog
  <2>2. RequestsStay
    <3>1. \/ Return(c)
          \/ Goto(c, "insert") \/ Goto(c, "discard")
          \/ Goto(c, "start") /\ Pending(c)
      BY <1>9 DEF UploadCopied, UploadBroken, UploadRefused, UploadReread, UploadDiscard,
                  ImportReread, DeleteFile, ServeDone, At, Pending
    <3> HIDE DEF RequestsStay
    <3>2. QED
      BY <3>1, <1>7
  <2>3. QED
    BY <2>1, <2>2, <1>1, <1>2, <1>4
<1>10. ASSUME NEW c \in Clients, UploadInsert(c) PROVE RowsHeld'
  <2>1. RowsStay /\ UNCHANGED dl
    BY <1>5, <1>10 DEF UploadInsert
  <2>2. req'[c].pc = "reread" /\ \A d \in Clients : d # c => req'[d] = req[d]
    BY <1>10 DEF UploadInsert, TypeOK, Request
  <2>3. QED
    BY <2>1, <2>2, <1>1, <1>4, <1>6 DEF Pending
<1>11. ASSUME NEW c \in Clients, ImportInsert(c) PROVE RowsHeld'
  <2>1. RowsStay /\ UNCHANGED dl /\ rows'[nextId].status # "absent"
    BY <1>5, <1>11 DEF ImportInsert
  <2>2. req'[c].id = nextId /\ \A d \in Clients : d # c => req'[d] = req[d]
    BY <1>11 DEF ImportInsert, Idle, TypeOK
  <2>3. RequestsStay
    BY <2>1, <2>2 DEF Pending
  <2>4. QED
    BY <2>1, <2>3, <1>1, <1>4
<1>12. ASSUME NEW c \in Clients, ImportStart(c) PROVE RowsHeld'
  <2>1. Pending(c) /\ Exists(req[c].id) /\ req[c].id \in Ids /\ UNCHANGED catalog /\ Return(c)
    BY <1>12, TasksHaveIds DEF ImportStart, At, Pending, RowsHeld
  <2>2. \A j \in Ids : j # req[c].id => dl'[j] = dl[j]
    BY <1>12, <2>1 DEF ImportStart, TypeOK
  <2>3. DownloadsStay
    BY <2>1, <2>2 DEF Running
  <2>4. RequestsStay
    BY <2>1, <1>7
  <2>5. QED
    BY <2>1, <2>3, <2>4, <1>1, <1>2
<1>13. ASSUME NEW c \in Clients, DeleteCancel(c) PROVE RowsHeld'
  <2>1. UNCHANGED catalog /\ Goto(c, "drop")
    BY <1>13 DEF DeleteCancel
  <2>2. DownloadsStay
    BY <1>13 DEF DeleteCancel, Running, TypeOK, Download
  <2>3. RequestsStay
    BY <2>1, <1>7
  <2>4. QED
    BY <2>1, <2>2, <2>3, <1>1, <1>2
<1>14. ASSUME NEW c \in Clients, DeleteRow(c) PROVE RowsHeld'
  <2>1. req[c].pc = "drop" /\ req[c].id \in Ids /\ Writing(c) /\ UNCHANGED dl
    BY <1>14 DEF DeleteRow, At, Writing, TypeOK, Request
  <2>2. Return(c) \/ Goto(c, "remove")
    BY <1>14 DEF DeleteRow
  <2>3. RequestsStay
    BY <2>2, <1>7
  <2>4. CASE UNCHANGED catalog
    BY <2>1, <2>3, <2>4, <1>1, <1>2, <1>4
  <2>5. CASE DeleteISO(req[c].id)
    <3> DEFINE i == req[c].id
    <3>1. \A j \in Ids : j # i => rows'[j] = rows[j]
      BY <2>1, <2>5, AfterDelete
    <3>2. ~Running(i)
      <4>1. Running(i) => Named(i, dl[i].file) /\ Named(i, req[c].file)
        BY <2>1 DEF RowsHeld, Order, DownloadsOwn, AdminsOwn, AdminOwns, Knowing
      <4>2. QED
        BY <2>1, <4>1 DEF Alone, Named
    <3>3. \A d \in Clients : Pending(d) => req[d].id # i
      <4> SUFFICES ASSUME NEW d \in Clients, Pending(d), req[d].id = i PROVE FALSE
        OBVIOUS
      <4>1. Exists(i) /\ Writing(d) /\ d # c
        BY <2>1 DEF RowsHeld, Pending, Writing
      <4>2. Named(i, req[c].file) /\ Named(i, req[d].file)
        BY <2>1, <4>1 DEF Order, AdminsOwn, AdminOwns, Knowing, Pending
      <4>3. QED
        BY <2>1, <4>1, <4>2 DEF Named, Order, Turns, AdminsApart
    <3>4. \A d \in Clients : Pending(d)' => Pending(d) /\ req'[d].id = req[d].id
      BY <2>2, RequestMovesOn DEF TypeOK
    <3>5. \A d \in Clients : Pending(d) => req[d].id \in Ids
      BY TasksHaveIds
    <3> HIDE DEF i
    <3>6. ASSUME NEW d \in Clients, Pending(d)' PROVE rows'[req'[d].id].status # "absent"
      <4>1. Pending(d) /\ req'[d].id = req[d].id /\ req[d].id \in Ids /\ req[d].id # i
        BY <3>3, <3>4, <3>5, <3>6
      <4>2. QED
        BY <4>1, <3>1 DEF RowsHeld, Exists
    <3>7. ASSUME NEW j \in Ids, Running(j)' PROVE rows'[j].status # "absent"
      <4>1. Running(j) /\ j # i
        BY <2>1, <3>2, <3>7 DEF Running
      <4>2. QED
        BY <4>1, <3>1 DEF RowsHeld, Exists
    <3>8. QED
      BY <3>6, <3>7 DEF RowsHeld, Exists
  <2>6. QED
    BY <1>14, <2>4, <2>5 DEF DeleteRow
<1>15. ASSUME NEW i \in Ids, RunDownload(i) PROVE RowsHeld'
  <2>1. RequestsStay /\ DownloadsStay
    BY <1>15, <1>3, DownloadGoesOn DEF Running
  <2>2. RowsStay
    <3>1. CASE UNCHANGED catalog
      BY <3>1, <1>2
    <3>2. ASSUME NEW st \in {"ready", "error"}, NEW n, UpdateRow(i, st, n) PROVE RowsStay
      BY <3>2, AfterUpdate DEF Exists
    <3>3. QED
      BY <1>15, <3>1, <3>2
         DEF RunDownload, DownloadOpen, DownloadRefused, DownloadFetched, DownloadBroken,
             FailureReread, MarkError, SuccessReread, MarkReady, DownloadClean, DownloadExit
  <2>3. QED
    BY <2>1, <2>2, <1>1
<1>16. CASE Restart
  BY <1>16, <1>1, <1>2 DEF Restart, Idle, NoDownload, Pending, Running
<1>17. CASE UNCHANGED vars
  BY <1>17, <1>1, <1>2, <1>3, <1>4 DEF vars, catalog
<1>18. QED
  BY <1>8, <1>9, <1>10, <1>11, <1>12, <1>13, <1>14, <1>15, <1>16, <1>17
     DEF Next, Upload, Import, Delete, Rest

\* A row that a delete finds is no longer downloading: nobody works on its file.
LEMMA DeletesUnlinkStep ==
  ASSUME PlainNames, NothingOverlaps, NobodyKeeps, TypeOK, Tasks, Order, RowsHeld,
         TendedUntilRestart, DeletesUnlink, [Next]_vars
  PROVE  DeletesUnlink'
<1>1. ASSUME restarts' # 0 => restarts # 0 \/ Restart,
             \A c \in Clients : req'[c].pc \in {"cancel", "drop"} =>
                req[c].pc \in {"cancel", "drop"} /\ req'[c].remove = req[c].remove
      PROVE  restarts' = restarts => DeletesUnlink'
  BY <1>1 DEF DeletesUnlink
<1>2. ASSUME NEW c \in Clients, DeleteLookup(c), restarts = 0 PROVE DeletesUnlink'
  <2>1. PICK i \in Ids :
          /\ Exists(i)
          /\ req'[c].remove <=> rows[i].status # "downloading"
          /\ \A d \in Clients : Writing(d) => req[d].file # rows[i].filename
          /\ \A j \in Ids : Running(j) => dl[j].file # rows[i].filename
    BY <1>2, AfterDeleteLookup
  <2>2. ~Running(i)
    BY <2>1 DEF Order, DownloadsOwn, Named
  <2>3. \A d \in Clients : ~(Pending(d) /\ req[d].id = i)
    BY <2>1 DEF Order, AdminsOwn, AdminOwns, Knowing, Named, Pending, Writing
  <2>4. rows[i].status # "downloading"
    BY <1>2, <2>2, <2>3 DEF TendedUntilRestart, DownloadingIsTended, Pending
  <2>5. req'[c].remove /\ \A d \in Clients : d # c => req'[d] = req[d]
    BY <1>2, <2>1, <2>4 DEF DeleteLookup, TypeOK
  <2>6. QED
    BY <1>2, <2>5 DEF DeletesUnlink
<1>3. ASSUME NEW c \in Clients, restarts' = restarts,
             \A d \in Clients : d # c => req'[d] = req[d],
             req'[c].pc \in {"cancel", "drop"} =>
                req[c].pc \in {"cancel", "drop"} /\ req'[c].remove = req[c].remove
      PROVE  DeletesUnlink'
  BY <1>3 DEF DeletesUnlink
<1>4. ASSUME NEW c \in Clients, UploadOpen(c) \/ ImportInsert(c) \/ UploadInsert(c)
                                \/ ServeLookup(c) \/ ServeOpen(c)
      PROVE  DeletesUnlink'
  <2>1. \A d \in Clients : d # c => req'[d] = req[d]
    BY <1>4, AfterServeOpen, AfterReturn
       DEF UploadOpen, ImportInsert, UploadInsert, ServeLookup, TypeOK
  <2>2. req'[c].pc \notin {"cancel", "drop"}
    <3>1. CASE ServeOpen(c)
      BY <3>1, AfterServeOpen, AfterReturn
    <3>2. CASE UploadInsert(c)
      BY <3>2 DEF UploadInsert, TypeOK, Request
    <3>3. QED
      BY <1>4, <3>1, <3>2 DEF UploadOpen, ImportInsert, ServeLookup, Idle, TypeOK
  <2>3. restarts' = restarts
    BY <1>4 DEF UploadOpen, ImportInsert, UploadInsert, ServeLookup, ServeOpen, bounds
  <2>4. QED
    BY <2>1, <2>2, <2>3, <1>3
<1>5. ASSUME NEW c \in Clients,
             \/ UploadCopied(c) \/ UploadBroken(c) \/ UploadRefused(c) \/ UploadReread(c)
             \/ UploadDiscard(c) \/ ImportReread(c) \/ ImportStart(c) \/ DeleteCancel(c)
             \/ DeleteRow(c) \/ DeleteFile(c) \/ ServeDone(c)
      PROVE  DeletesUnlink'
  <2>1. restarts' = restarts
    BY <1>5 DEF UploadCopied, UploadBroken, UploadRefused, UploadReread, UploadDiscard,
                ImportReread, ImportStart, DeleteCancel, DeleteRow, DeleteFile, ServeDone, bounds
  <2>2. \/ Return(c)
        \/ Goto(c, "insert") \/ Goto(c, "discard") \/ Goto(c, "start") \/ Goto(c, "remove")
        \/ Goto(c, "drop") /\ req[c].pc = "cancel"
    BY <1>5 DEF UploadCopied, UploadBroken, UploadRefused, UploadReread, UploadDiscard,
                ImportReread, ImportStart, DeleteCancel, DeleteRow, DeleteFile, ServeDone, At
  <2>3. /\ \A d \in Clients : d # c => req'[d] = req[d]
        /\ req'[c].pc \in {"cancel", "drop"} =>
              req[c].pc \in {"cancel", "drop"} /\ req'[c].remove = req[c].remove
    BY <2>2, AfterGoto, AfterReturn
  <2>4. QED
    BY <2>1, <2>3, <1>3
<1>6. ASSUME NEW i \in Ids, RunDownload(i) PROVE DeletesUnlink'
  <2>1. restarts' = restarts
    BY <1>6 DEF RunDownload, DownloadOpen, DownloadRefused, DownloadFetched, DownloadBroken,
                FailureReread, MarkError, SuccessReread, MarkReady, DownloadClean, DownloadExit,
                bounds
  <2>2. req' = req
    BY <1>6, DownloadGoesOn
  <2>3. QED
    BY <2>1, <2>2 DEF DeletesUnlink
<1>7. CASE Restart
  BY <1>7 DEF Restart, DeletesUnlink, TypeOK
<1>8. CASE UNCHANGED vars
  BY <1>8 DEF vars, DeletesUnlink
<1>9. ASSUME NEW c \in Clients, DeleteLookup(c) PROVE DeletesUnlink'
  <2>1. restarts' = restarts
    BY <1>9 DEF DeleteLookup, bounds
  <2>2. QED
    BY <1>2, <1>9, <2>1 DEF DeletesUnlink
<1>10. QED
  BY <1>4, <1>5, <1>6, <1>7, <1>8, <1>9 DEF Next, Upload, Import, Delete, Rest

\* No file appears, no row goes, and whoever handled a file still does, or has
\* unlinked it or given it its row.
LEMMA FilesTendedKept ==
  ASSUME FilesTended, restarts' = restarts,
         \A p \in Paths : disk'[p] # None => disk[p] # None,
         \A i \in Ids : Exists(i) =>
            rows'[i].status # "absent" /\ rows'[i].filename = rows[i].filename,
         \A c \in Clients, p \in Paths : Handling(c, p) =>
            Handling(c, p)' \/ disk'[p] = None \/ (\E i \in Ids : Named(i, p)')
  PROVE  FilesTended'
BY DEF FilesTended, Named, Exists

LEMMA FilesTendedStep ==
  ASSUME PlainNames, TypeOK, Tasks, Order, RowsHeld, DeletesUnlink, FilesTended, [Next]_vars
  PROVE  FilesTended'
<1> DEFINE DiskStays == \A p \in Paths : disk'[p] # None => disk[p] # None
           RowsStay == \A i \in Ids : Exists(i) =>
              rows'[i].status # "absent" /\ rows'[i].filename = rows[i].filename
           RequestsStay == \A c \in Clients, p \in Paths : Handling(c, p) =>
              Handling(c, p)' \/ disk'[p] = None \/ (\E i \in Ids : Named(i, p)')
<1>1. ASSUME restarts' = restarts, DiskStays, RowsStay, RequestsStay PROVE FilesTended'
  BY <1>1, FilesTendedKept
<1>2. UNCHANGED catalog => RowsStay
  BY DEF catalog, Exists
<1>3. UNCHANGED req => RequestsStay
  BY DEF Handling
<1>4. UNCHANGED files => DiskStays
  BY DEF files
<1>5. ASSUME NEW p \in Paths, Unlink(p) PROVE DiskStays /\ disk'[p] = None
  BY <1>5 DEF Unlink, TypeOK, FilesType
<1>6. ASSUME NEW c \in Clients, \A d \in Clients : d # c => req'[d] = req[d],
             \A p \in Paths : ~Handling(c, p)
      PROVE  RequestsStay
  BY <1>6 DEF Handling
<1>7. ASSUME NEW f, NEW st \in {"downloading", "ready"}, NEW n, InsertRow(f, st, n)
      PROVE  RowsStay /\ \E i \in Ids : rows'[i].status # "absent" /\ rows'[i].filename = f
  <2>1. nextId \in Ids /\ rows'[nextId].status # "absent" /\ rows'[nextId].filename = f
    BY <1>7, AfterInsert
  <2>2. ~Exists(nextId) /\ \A j \in Ids : j # nextId => rows'[j] = rows[j]
    BY <1>7, <2>1, AfterInsert, NextIdUnstarted DEF Unstarted
  <2>3. RowsStay
    BY <2>2 DEF Exists
  <2>4. QED
    BY <2>1, <2>3
<1>8. ASSUME NEW c \in Clients, UploadOpen(c) PROVE FilesTended'
  <2>1. PICK f \in Filenames :
          /\ CreateFile(f)
          /\ req' = [req EXCEPT ![c] = [Idle EXCEPT !.pc = "copy", !.file = f, !.ino = disk'[f]]]
    BY <1>8, PlainPaths DEF UploadOpen
  <2>2. /\ Handling(c, f)' /\ req[c].pc = "idle" /\ UNCHANGED catalog /\ restarts' = restarts
        /\ \A d \in Clients : d # c => req'[d] = req[d]
    BY <1>8, <2>1 DEF UploadOpen, Arrives, Handling, Idle, TypeOK
  <2>3. \A p \in Paths : p # f => disk'[p] = disk[p]
    BY <2>1 DEF CreateFile, TypeOK, FilesType
  <2>4. QED
    BY <2>2, <2>3 DEF FilesTended, Named, Exists, Handling, catalog
<1>9. ASSUME NEW c \in Clients,
             \/ ImportReread(c) \/ ImportStart(c) \/ DeleteCancel(c) \/ DeleteLookup(c)
             \/ ServeLookup(c) \/ ServeOpen(c) \/ ServeDone(c)
      PROVE  FilesTended'
  <2>1. UNCHANGED <<catalog, files>> /\ restarts' = restarts
    BY <1>9 DEF ImportReread, ImportStart, DeleteCancel, DeleteLookup, ServeLookup, ServeOpen,
                ServeDone, bounds, catalog, files
  <2>2. \A d \in Clients : d # c => req'[d] = req[d]
    BY <1>9, AfterServeOpen, AfterReturn
       DEF ImportReread, ImportStart, DeleteCancel, DeleteLookup, ServeLookup, ServeDone, Goto,
           Return, TypeOK
  <2>3. \A p \in Paths : ~Handling(c, p)
    BY <1>9 DEF ImportReread, ImportStart, DeleteCancel, DeleteLookup, ServeLookup, ServeOpen,
                ServeDone, At, Arrives, Handling
  <2>4. QED
    BY <2>1, <2>2, <2>3, <1>1, <1>2, <1>4, <1>6
<1>10. ASSUME NEW c \in Clients, UploadCopied(c) \/ UploadRefused(c) PROVE FilesTended'
  <2>1. UNCHANGED <<catalog, disk>> /\ restarts' = restarts
    BY <1>10 DEF UploadCopied, UploadRefused, CompleteFile, catalog, files, bounds
  <2>2. Goto(c, "insert") \/ Goto(c, "discard")
    BY <1>10 DEF UploadCopied, UploadRefused
  <2>3. RequestsStay
    BY <2>2, AfterGoto DEF Handling
  <2>4. DiskStays
    BY <2>1
  <2>5. QED
    BY <2>1, <2>3, <2>4, <1>1, <1>2
<1>11. ASSUME NEW c \in Clients, UploadBroken(c) \/ UploadDiscard(c) \/ DeleteFile(c)
       PROVE  FilesTended'
  <2>1. Return(c) /\ UNCHANGED catalog /\ restarts' = restarts
    BY <1>11 DEF UploadBroken, UploadDiscard, DeleteFile, bounds
  <2>2. req[c].file \in Filenames
    BY <1>11, NamesHeld DEF UploadBroken, UploadDiscard, DeleteFile, At
  <2>3. Unlink(req[c].file) /\ req[c].file \in Paths
    BY <1>11, <2>2, PlainPaths DEF UploadBroken, UploadDiscard, DeleteFile
  <2>4. DiskStays /\ disk'[req[c].file] = None
    BY <2>3, <1>5
  <2>5. RequestsStay
    BY <2>1, <2>4, AfterReturn DEF Handling
  <2>6. QED
    BY <2>1, <2>4, <2>5, <1>1, <1>2
<1>12. ASSUME NEW c \in Clients, UploadInsert(c) PROVE FilesTended'
  <2>1. RowsStay /\ \E i \in Ids : rows'[i].status # "absent" /\ rows'[i].filename = req[c].file
    BY <1>12, <1>7 DEF UploadInsert
  <2>2. UNCHANGED files /\ restarts' = restarts /\ \A d \in Clients : d # c => req'[d] = req[d]
    BY <1>12 DEF UploadInsert, bounds, TypeOK
  <2>3. ASSUME NEW d \in Clients, NEW p \in Paths, Handling(d, p)
        PROVE  Handling(d, p)' \/ \E i \in Ids : Named(i, p)'
    <3>1. CASE d = c
      <4>1. p = req[c].file
        BY <2>3, <3>1 DEF Handling
      <4>2. QED
        BY <2>1, <4>1 DEF Named, Exists
    <3>2. CASE d # c
      BY <2>2, <2>3, <3>2 DEF Handling
    <3>3. QED
      BY <3>1, <3>2
  <2>4. RequestsStay
    BY <2>3
  <2>5. QED
    BY <2>1, <2>2, <2>4, <1>1, <1>4
<1>13. ASSUME NEW c \in Clients, UploadReread(c) PROVE FilesTended'
  <2>1. UNCHANGED <<catalog, files>> /\ restarts' = restarts /\ req[c].pc = "reread"
    BY <1>13 DEF UploadReread, bounds, catalog, files, At
  <2>2. \A d \in Clients : d # c => req'[d] = req[d]
    BY <1>13, AfterGoto, AfterReturn DEF UploadReread
  <2>3. QED
    BY <2>1, <2>2, <1>1, <1>2, <1>4, <1>6 DEF Handling
<1>14. ASSUME NEW c \in Clients, ImportInsert(c) PROVE FilesTended'
  <2>1. RowsStay
    BY <1>14, <1>7 DEF ImportInsert
  <2>2. UNCHANGED files /\ restarts' = restarts /\ req[c].pc = "idle"
        /\ \A d \in Clients : d # c => req'[d] = req[d]
    BY <1>14 DEF ImportInsert, Arrives, TypeOK
  <2>3. QED
    BY <2>1, <2>2, <1>1, <1>4, <1>6 DEF Handling
<1>15. ASSUME NEW c \in Clients, DeleteRow(c) PROVE FilesTended'
  <2>1. /\ req[c].pc = "drop" /\ req[c].id \in Ids
        /\ UNCHANGED files /\ restarts' = restarts
    BY <1>15 DEF DeleteRow, At, bounds, TypeOK, Request
  <2>2. Return(c) \/ Goto(c, "remove")
    BY <1>15 DEF DeleteRow
  <2>3. \A d \in Clients : d # c => req'[d] = req[d]
    BY <2>2, AfterGoto, AfterReturn
  <2>4. CASE UNCHANGED catalog
    BY <2>1, <2>3, <2>4, <1>1, <1>2, <1>4, <1>6 DEF Handling
  <2>5. CASE /\ restarts = 0 /\ DeleteISO(req[c].id)
             /\ IF req[c].remove THEN Goto(c, "remove") ELSE Return(c)
    <3>1. Goto(c, "remove")
      BY <2>1, <2>5 DEF DeletesUnlink
    <3>2. \A p : p = req[c].file => Handling(c, p)'
      BY <3>1, AfterGoto DEF Handling
    <3>3. \A j \in Ids : j # req[c].id => rows'[j] = rows[j]
      BY <2>1, <2>5, AfterDelete
    <3>4. Exists(req[c].id) => rows[req[c].id].filename = req[c].file
      BY <2>1 DEF Order, AdminsOwn, AdminOwns, Knowing, Named
    <3>5. ASSUME NEW p \in Paths, disk'[p] # None
          PROVE  (\E i \in Ids : Named(i, p)') \/ (\E d \in Clients : Handling(d, p)')
      <4>1. (\E i \in Ids : Named(i, p)) \/ (\E d \in Clients : Handling(d, p))
        BY <2>1, <2>5, <3>5 DEF FilesTended, files
      <4>2. ASSUME NEW i \in Ids, Named(i, p)
            PROVE  (\E j \in Ids : Named(j, p)') \/ (\E d \in Clients : Handling(d, p)')
        <5>1. CASE i = req[c].id
          <6>1. p = req[c].file
            BY <3>4, <4>2, <5>1 DEF Named
          <6>2. QED
            BY <3>2, <6>1
        <5>2. CASE i # req[c].id
          <6>1. rows'[i] = rows[i]
            BY <3>3, <5>2
          <6>2. Named(i, p)'
            BY <4>2, <6>1 DEF Named, Exists
          <6>3. QED
            BY <6>2
        <5>3. QED
          BY <5>1, <5>2
      <4>3. ASSUME NEW d \in Clients, Handling(d, p) PROVE Handling(d, p)'
        BY <2>1, <2>3, <4>3 DEF Handling
      <4>4. QED
        BY <4>1, <4>2, <4>3
    <3>6. QED
      BY <3>5 DEF FilesTended
  <2>6. CASE restarts # 0
    BY <2>1, <2>6 DEF FilesTended
  <2>7. QED
    BY <1>15, <2>4, <2>5, <2>6 DEF DeleteRow
<1>16. ASSUME NEW i \in Ids, DownloadOpen(i) PROVE FilesTended'
  <2>1. dl[i].file \in Filenames /\ Named(i, dl[i].file)
    BY <1>16, NamesHeld DEF DownloadOpen, Running, RowsHeld, Order, DownloadsOwn
  <2>2. CreateFile(dl[i].file) /\ UNCHANGED <<catalog, req>> /\ restarts' = restarts
    BY <1>16, <2>1, PlainPaths DEF DownloadOpen, bounds, catalog
  <2>3. \A p \in Paths : p # dl[i].file => disk'[p] = disk[p]
    BY <2>2 DEF CreateFile, TypeOK, FilesType
  <2>4. QED
    BY <2>1, <2>2, <2>3 DEF FilesTended, Named, Exists, Handling, catalog
<1>17. ASSUME NEW i \in Ids, DownloadBroken(i) \/ DownloadClean(i) PROVE FilesTended'
  <2>1. UNCHANGED <<catalog, req>> /\ restarts' = restarts
    BY <1>17 DEF DownloadBroken, DownloadClean, bounds, catalog
  <2>2. dl[i].file \in Filenames
    BY <1>17, NamesHeld DEF DownloadBroken, DownloadClean, Running
  <2>3. Unlink(dl[i].file) /\ dl[i].file \in Paths
    BY <1>17, <2>2, PlainPaths DEF DownloadBroken, DownloadClean
  <2>4. DiskStays
    BY <2>3, <1>5
  <2>5. QED
    BY <2>1, <2>4, <1>1, <1>2, <1>3
<1>18. ASSUME NEW i \in Ids,
              \/ DownloadRefused(i) \/ DownloadFetched(i) \/ FailureReread(i) \/ MarkError(i)
              \/ SuccessReread(i) \/ MarkReady(i) \/ DownloadExit(i)
       PROVE  FilesTended'
  <2>1. UNCHANGED <<disk, req>> /\ restarts' = restarts
    BY <1>18 DEF DownloadRefused, DownloadFetched, FailureReread, MarkError, SuccessReread,
                 MarkReady, DownloadExit, CompleteFile, files, bounds
  <2>2. RowsStay
    <3>1. CASE UNCHANGED catalog
      BY <3>1, <1>2
    <3>2. ASSUME NEW st \in {"ready", "error"}, NEW n, UpdateRow(i, st, n) PROVE RowsStay
      BY <3>2, AfterUpdate DEF Exists
    <3>3. QED
      BY <1>18, <3>1, <3>2
         DEF DownloadRefused, DownloadFetched, FailureReread, MarkError, SuccessReread,
             MarkReady, DownloadExit
  <2>3. DiskStays
    BY <2>1
  <2>4. QED
    BY <2>1, <2>2, <2>3, <1>1, <1>3
<1>19. CASE Restart
  BY <1>19 DEF Restart, FilesTended, TypeOK
<1>20. CASE UNCHANGED vars
  BY <1>20, <1>1, <1>2, <1>3, <1>4 DEF vars, catalog, files
<1>21. QED
  BY <1>8, <1>9, <1>10, <1>11, <1>12, <1>13, <1>14, <1>15, <1>16, <1>17, <1>18, <1>19, <1>20
     DEF Next, Upload, Import, Delete, RunDownload, Rest

LEMMA TidyInit == Init => Tidy
<1> SUFFICES ASSUME Init PROVE Tidy
  OBVIOUS
<1>1. /\ \A i \in Ids : dl[i].pc = "none"
      /\ \A c \in Clients : req[c].pc = "idle"
      /\ \A p \in Paths : disk[p] = None
  BY DEF Init, NoDownload, Idle
<1>2. QED
  BY <1>1 DEF Tidy, Alone, RowsHeld, DeletesUnlink, FilesTended, Writing, Running, Pending

LEMMA TidyStep ==
  ASSUME PlainNames, NothingOverlaps, NobodyKeeps, TypeOK, Tasks, Order, TendedUntilRestart,
         Tidy, [Next]_vars
  PROVE  Tidy'
BY AloneStep, RowsHeldStep, DeletesUnlinkStep, FilesTendedStep DEF Tidy

(***************************************************************************)
(* Where nothing overlaps on one file, nobody asks to keep a file and no   *)
(* statement fails, the library at rest has no file without a row, until   *)
(* the process is restarted: what leaves one is a delete that meets the    *)
(* download it cancels (or a kept file, a failed statement or a restart).  *)
(***************************************************************************)
THEOREM NoOrphanFileCorrect ==
  ASSUME PlainNames, NothingOverlaps, NobodyKeeps, StatementsSucceed
  PROVE  Spec => [](restarts = 0 => NoOrphanFile)
<1>1. FilesTended => (restarts = 0 => NoOrphanFile)
  <2> SUFFICES ASSUME FilesTended, restarts = 0, Quiet, NEW p \in Paths, disk[p] # None
               PROVE  \E i \in Ids : Exists(i) /\ Declared[rows[i].filename] = p
    BY DEF NoOrphanFile
  <2>1. \A c \in Clients : ~Handling(c, p)
    BY DEF Quiet, Idle, Handling
  <2>2. PICK i \in Ids : Named(i, p)
    BY <2>1 DEF FilesTended
  <2>3. Declared[p] = p
    BY PlainPaths
  <2>4. QED
    BY <2>2, <2>3 DEF Named
<1>2. OneAtATime
  BY DEF NothingOverlaps, OneAtATime
<1>3. TypeOK /\ Tasks /\ Order /\ TendedUntilRestart /\ Tidy /\ [Next]_vars => Tidy'
  BY TidyStep
<1>4. Spec => []Order
  BY <1>2, OrderCorrect
<1>5. Spec => []TendedUntilRestart
  BY TendedCorrect
<1>6. Tidy => FilesTended
  BY DEF Tidy
<1>7. QED
  BY <1>1, <1>3, <1>4, <1>5, <1>6, TidyInit, TypeCorrect, TasksCorrect, PTL DEF Spec
===========================================================================
