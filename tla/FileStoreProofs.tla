-------------------------- MODULE FileStoreProofs --------------------------
(***************************************************************************)
(* Proofs about FileStore, for every number of requests and associations   *)
(* and every set of callers.                                               *)
(***************************************************************************)
EXTENDS FileStore, TLAPS

UploadSteps == {"create", "copy", "insert", "undo"}
DeleteSteps == {"findForDelete", "deleteRow", "unlink"}
GetSteps    == {"findForGet", "open"}

\* What a request is doing fits what it asked for, and items are uploads.
Doing ==
  \A r \in Requests :
    /\ pc[r] = "idle" => req[r] = NoReq
    /\ pc[r] \in UploadSteps => req[r] \in UploadReq
    /\ pc[r] \in DeleteSteps => req[r] \in ItemReq /\ req[r].op = "delete"
    /\ pc[r] \in GetSteps \cup {"missing"} => req[r] \in ItemReq /\ req[r].op = "get"
    /\ req[r] \in ItemReq => row[req[r].item] # "none"

\* How far an upload has come with its file and its row.
Written ==
  \A q \in Requests :
    /\ row[q] # "none" => req[q] \in UploadReq /\ pc[q] \in {"undo", "ok", "error", "crashed"}
    /\ pc[q] \in {"idle", "create"} \cup DeleteSteps \cup GetSteps => disk[q] = "none"
    /\ pc[q] = "copy" => disk[q] = "partial"
    /\ pc[q] = "insert" => disk[q] = "whole"
    /\ disk[q] # "none" => req[q] \in UploadReq

\* The request that deletes a row is the only one that goes on to remove the file.
OneUnlinks ==
  /\ \A r \in Requests :
       (req[r] \in ItemReq /\ req[r].op = "delete" /\ pc[r] \in {"unlink", "ok"}) =>
         row[req[r].item] = "deleted"
  /\ \A p, r \in Requests :
       ( /\ req[p] \in ItemReq /\ req[r] \in ItemReq
         /\ req[p].op = "delete" /\ req[r].op = "delete"
         /\ pc[p] \in {"unlink", "ok"} /\ pc[r] \in {"unlink", "ok"}
         /\ req[p].item = req[r].item ) => p = r

\* A late download never gets past its lookup.
LateStuck ==
  \A r \in late : /\ req[r] \in ItemReq
                  /\ row[req[r].item] = "deleted"
                  /\ pc[r] \in {"findForGet", "notfound", "error", "crashed"}

\* The inductive invariant: what a request does fits its item, a row and its file go
\* through the steps of their upload and deletion in order, and the three claims about
\* rows, orphans and misses, each of which the steps of the others could disturb.
IInv ==
  /\ TypeOK
  /\ Doing
  /\ Written
  /\ OneUnlinks
  /\ LateStuck
  /\ RowsHaveFiles
  /\ OrphansExplained
  /\ MissingExplained

LEMMA InitInv == Init => IInv
BY DEF Init, IInv, TypeOK, Doing, Written, OneUnlinks, LateStuck, RowsHaveFiles,
   OrphansExplained, MissingExplained, UploadSteps, DeleteSteps, GetSteps, NoReq, ItemReq

-----------------------------------------------------------------------------
(* Steps *)

\* The steps of a request that has started.
Step(r) ==
  \/ CreateFile(r) \/ CopyFile(r) \/ WriteImage(r) \/ InsertRow(r) \/ UndoUpload(r)
  \/ FindForDelete(r) \/ DeleteRow(r) \/ Unlink(r) \/ FindForGet(r) \/ OpenFile(r)
  \/ Fails(r) \/ Crash(r)

LEMMA Split ==
  ASSUME Next
  PROVE  \/ \E r \in Requests, c \in Callers, kind \in Kinds, a \in Assocs : StartUpload(r, c, a, kind)
         \/ \E r \in Requests, c \in Callers, q \in Requests : StartDelete(r, c, q)
         \/ \E r \in Requests, c \in Callers, q \in Requests : StartGet(r, c, q)
         \/ \E r \in Requests : Step(r)
BY DEF Next, Step, UploadFile, UploadImage, Kinds

LEMMA TypeStep == ASSUME TypeOK, Doing, Next PROVE TypeOK'
<1>. USE DEF TypeOK, Goto, Steps, Finished, UploadReq, ItemReq
<1>1. ASSUME NEW r \in Requests, NEW c \in Callers, NEW kind \in Kinds, NEW a \in Assocs,
             StartUpload(r, c, a, kind)
      PROVE  TypeOK'
  BY <1>1 DEF StartUpload
<1>2. ASSUME NEW r \in Requests, NEW c \in Callers, NEW q \in Requests,
             StartDelete(r, c, q) \/ StartGet(r, c, q)
      PROVE  TypeOK'
  BY <1>2 DEF StartDelete, StartGet
<1>3. ASSUME NEW r \in Requests, CreateFile(r) \/ CopyFile(r) \/ WriteImage(r) \/ InsertRow(r) \/ UndoUpload(r)
      PROVE  TypeOK'
  BY <1>3 DEF CreateFile, CopyFile, WriteImage, InsertRow, UndoUpload, Remove
<1>4. ASSUME NEW r \in Requests, FindForDelete(r) \/ DeleteRow(r) \/ Unlink(r)
      PROVE  TypeOK'
  <2>1. req[r].item \in Requests
    BY <1>4 DEF Doing, DeleteSteps, FindForDelete, DeleteRow, Unlink
  <2>. QED
    BY <1>4, <2>1 DEF FindForDelete, DeleteRow, Unlink, Remove
<1>5. ASSUME NEW r \in Requests, FindForGet(r) \/ OpenFile(r) \/ Fails(r) \/ Crash(r)
      PROVE  TypeOK'
  BY <1>5 DEF FindForGet, OpenFile, Fails, Crash
<1>. QED
  BY <1>1, <1>2, <1>3, <1>4, <1>5, Split DEF Step

\* A request keeps what it asked for and its outcome, a row is never made again.
LEMMA Frame ==
  ASSUME TypeOK, Doing, Written, Next
  PROVE  /\ \A r \in Requests : pc[r] # "idle" => pc'[r] # "idle" /\ req'[r] = req[r]
         /\ \A r \in Requests : pc[r] \in Finished => pc'[r] = pc[r]
         /\ \A q \in Requests : row[q] # "none" => row'[q] # "none"
         /\ \A q \in Requests : row[q] = "deleted" => row'[q] = "deleted"
<1>. USE DEF TypeOK, Goto, Steps, Finished
<1>1. ASSUME NEW r \in Requests, Step(r) PROVE UNCHANGED req
  BY <1>1 DEF Step, CreateFile, CopyFile, WriteImage, InsertRow, UndoUpload, FindForDelete, DeleteRow,
     Unlink, FindForGet, OpenFile, Fails, Crash
<1>2. ASSUME NEW r \in Requests, Step(r)
      PROVE  pc[r] \in Steps /\ \E step \in Steps \cup Finished : Goto(r, step)
  BY <1>2 DEF Step, CreateFile, CopyFile, WriteImage, InsertRow, UndoUpload, FindForDelete, DeleteRow,
     Unlink, FindForGet, OpenFile, Fails, Crash
<1>3. ASSUME NEW r \in Requests, Step(r)
      PROVE  \A q \in Requests :
               /\ row[q] # "none" => row'[q] # "none"
               /\ row[q] = "deleted" => row'[q] = "deleted"
  BY <1>3 DEF Written, Step, CreateFile, CopyFile, WriteImage, InsertRow, UndoUpload, FindForDelete, DeleteRow,
     Unlink, FindForGet, OpenFile, Fails, Crash
<1>4. ASSUME NEW r \in Requests, pc[r] = "idle", NEW step \in Steps, Goto(r, step),
             UNCHANGED row, NEW x, req' = [req EXCEPT ![r] = x]
      PROVE  /\ \A q \in Requests : pc[q] # "idle" => pc'[q] # "idle" /\ req'[q] = req[q]
             /\ \A q \in Requests : pc[q] \in Finished => pc'[q] = pc[q]
  BY <1>4
<1>. QED
  BY <1>1, <1>2, <1>3, <1>4, Split DEF StartUpload, StartDelete, StartGet

\* What moves a request is its start or one of its own steps.
LEMMA Moves ==
  ASSUME TypeOK, Next, NEW r \in Requests, pc'[r] # pc[r]
  PROVE  \/ \E c \in Callers, kind \in Kinds, a \in Assocs : StartUpload(r, c, a, kind)
         \/ \E c \in Callers, q \in Requests : StartDelete(r, c, q) \/ StartGet(r, c, q)
         \/ Step(r)
<1>1. ASSUME NEW p \in Requests, p # r
      PROVE  /\ \A c \in Callers, kind \in Kinds, a \in Assocs : ~StartUpload(p, c, a, kind)
             /\ \A c \in Callers, q \in Requests : ~StartDelete(p, c, q) /\ ~StartGet(p, c, q)
             /\ ~Step(p)
  BY <1>1 DEF TypeOK, Goto, Step, StartUpload, StartDelete, StartGet, CreateFile, CopyFile, WriteImage,
     InsertRow, UndoUpload, FindForDelete, DeleteRow, Unlink, FindForGet, OpenFile, Fails, Crash
<1>. QED
  BY <1>1, Split

\* Rows change where an upload inserts or a deletion deletes.
LEMMA RowStep ==
  ASSUME TypeOK, Next, NEW q \in Requests, row'[q] # row[q]
  PROVE  InsertRow(q) \/ \E r \in Requests : DeleteRow(r) /\ req[r].item = q
BY Split DEF TypeOK, Goto, Step, StartUpload, StartDelete, StartGet, CreateFile, CopyFile, WriteImage,
   InsertRow, UndoUpload, FindForDelete, DeleteRow, Unlink, FindForGet, OpenFile, Fails, Crash

\* Files change where an upload writes or removes, or a deletion removes.
LEMMA DiskStep ==
  ASSUME TypeOK, Next, NEW q \in Requests, disk'[q] # disk[q]
  PROVE  \/ CreateFile(q) \/ CopyFile(q) \/ WriteImage(q) \/ UndoUpload(q)
         \/ \E r \in Requests : Unlink(r) /\ req[r].item = q
BY Split DEF TypeOK, Goto, Step, StartUpload, StartDelete, StartGet, CreateFile, CopyFile, WriteImage,
   InsertRow, UndoUpload, FindForDelete, DeleteRow, Unlink, FindForGet, OpenFile, Fails, Crash,
   Remove

LEMMA DoingStep == ASSUME IInv, Next PROVE Doing'
<1>. USE DEF IInv, TypeOK
<1> SUFFICES ASSUME NEW r \in Requests
             PROVE  /\ pc'[r] = "idle" => req'[r] = NoReq
                    /\ pc'[r] \in UploadSteps => req'[r] \in UploadReq
                    /\ pc'[r] \in DeleteSteps => req'[r] \in ItemReq /\ req'[r].op = "delete"
                    /\ pc'[r] \in GetSteps \cup {"missing"} =>
                         req'[r] \in ItemReq /\ req'[r].op = "get"
                    /\ req'[r] \in ItemReq => row'[req'[r].item] # "none"
  BY DEF Doing
<1>1. CASE \E c \in Callers, kind \in Kinds, a \in Assocs : StartUpload(r, c, a, kind)
  BY <1>1 DEF StartUpload, Goto, UploadReq, ItemReq, UploadSteps, DeleteSteps, GetSteps
<1>2. CASE \E c \in Callers, q \in Requests : StartDelete(r, c, q) \/ StartGet(r, c, q)
  BY <1>2 DEF StartDelete, StartGet, Goto, Known, ItemReq, UploadSteps, DeleteSteps, GetSteps
<1>3. CASE Step(r)
  <2>1. req'[r] = req[r] /\ pc[r] # "idle"
    BY <1>3, Frame DEF Step, CreateFile, CopyFile, WriteImage, InsertRow, UndoUpload, FindForDelete,
       DeleteRow, Unlink, FindForGet, OpenFile, Fails, Crash, Steps
  <2>2. req'[r] \in ItemReq => row'[req'[r].item] # "none"
    BY <2>1, Frame DEF Doing, ItemReq
  <2>. QED
    BY <1>3, <2>1, <2>2 DEF Step, CreateFile, CopyFile, WriteImage, InsertRow, UndoUpload, FindForDelete,
       DeleteRow, Unlink, FindForGet, OpenFile, Fails, Crash, Goto, Doing, UploadSteps,
       DeleteSteps, GetSteps
<1>4. CASE pc'[r] = pc[r]
  <2>1. req'[r] = req[r]
    BY <1>4, Frame, Split DEF Step, StartUpload, StartDelete, StartGet, Goto, CreateFile,
       CopyFile, WriteImage, InsertRow, UndoUpload, FindForDelete, DeleteRow, Unlink, FindForGet, OpenFile,
       Fails, Crash
  <2>. QED
    BY <1>4, <2>1, Frame DEF Doing, ItemReq
<1>. QED
  BY <1>1, <1>2, <1>3, <1>4, Moves

LEMMA WrittenStep == ASSUME IInv, Next PROVE Written'
<1>. USE DEF IInv, TypeOK
<1> SUFFICES ASSUME NEW q \in Requests
             PROVE  /\ row'[q] # "none" => /\ req'[q] \in UploadReq
                                           /\ pc'[q] \in {"undo", "ok", "error", "crashed"}
                    /\ pc'[q] \in {"idle", "create"} \cup DeleteSteps \cup GetSteps =>
                         disk'[q] = "none"
                    /\ pc'[q] = "copy" => disk'[q] = "partial"
                    /\ pc'[q] = "insert" => disk'[q] = "whole"
                    /\ disk'[q] # "none" => req'[q] \in UploadReq
  BY DEF Written
<1>1. CASE UNCHANGED <<pc[q], row[q], disk[q]>>
  BY <1>1, Frame DEF Written
<1>2. CASE \/ \E c \in Callers, kind \in Kinds, a \in Assocs : StartUpload(q, c, a, kind)
           \/ \E c \in Callers, p \in Requests : StartDelete(q, c, p) \/ StartGet(q, c, p)
  BY <1>2 DEF StartUpload, StartDelete, StartGet, Goto, Written, DeleteSteps, GetSteps
<1>3. ASSUME NEW r \in Requests, DeleteRow(r) \/ Unlink(r)
      PROVE  req[r].item \in Requests /\ req[r].item # r /\ req[r] \notin UploadReq
  BY <1>3 DEF DeleteRow, Unlink, Doing, Written, DeleteSteps, ItemReq, UploadReq
<1>4. ASSUME NEW r \in Requests, DeleteRow(r) \/ Unlink(r), req[r].item = q
      PROVE  row'[q] # "none" /\ pc'[q] = pc[q] /\ req'[q] = req[q]
             /\ row[q] # "none" /\ disk'[q] \in {disk[q], "none"}
  BY <1>3, <1>4 DEF DeleteRow, Unlink, Remove, Goto, Doing, DeleteSteps, Kinds
<1>5. CASE \E r \in Requests : (DeleteRow(r) \/ Unlink(r)) /\ req[r].item = q
  BY <1>4, <1>5 DEF Written, DeleteSteps, GetSteps
<1>6. CASE CreateFile(q) \/ CopyFile(q) \/ WriteImage(q) \/ InsertRow(q) \/ UndoUpload(q)
  BY <1>6 DEF CreateFile, CopyFile, WriteImage, InsertRow, UndoUpload, Remove, Goto, Doing, Written,
     UploadSteps, DeleteSteps, GetSteps
<1>7. CASE FindForDelete(q) \/ FindForGet(q) \/ OpenFile(q) \/ Fails(q) \/ Crash(q)
  BY <1>7 DEF FindForDelete, FindForGet, OpenFile, Fails, Crash, Steps, Goto, Doing, Written,
     UploadSteps, DeleteSteps, GetSteps
<1>8. CASE DeleteRow(q) \/ Unlink(q)
  BY <1>3, <1>8 DEF DeleteRow, Unlink, Remove, Goto, Doing, Written, UploadSteps, DeleteSteps,
     GetSteps
<1>. QED
  BY <1>1, <1>2, <1>5, <1>6, <1>7, <1>8, Moves, RowStep, DiskStep DEF Step

\* A deletion goes on to remove the file only after it deleted the row itself.
LEMMA OneUnlinksStep == ASSUME IInv, Next PROVE OneUnlinks'
<1>. USE DEF IInv, TypeOK
<1>1. ASSUME NEW r \in Requests, req'[r] \in ItemReq, req'[r].op = "delete",
             pc'[r] \in {"unlink", "ok"}
      PROVE  /\ req[r] = req'[r]
             /\ row'[req[r].item] = "deleted"
             /\ \/ pc[r] \in {"unlink", "ok"}
                \/ DeleteRow(r) /\ row[req[r].item] = "live"
  <2>1. pc[r] # "idle" /\ req[r] = req'[r]
    BY <1>1, Frame, Split DEF StartUpload, StartDelete, StartGet, Goto, Step, CreateFile,
       CopyFile, WriteImage, InsertRow, UndoUpload, FindForDelete, DeleteRow, Unlink, FindForGet, OpenFile,
       Fails, Crash, Doing, NoReq, ItemReq
  <2>2. CASE pc[r] \in {"unlink", "ok"}
    BY <1>1, <2>1, <2>2, Frame DEF OneUnlinks, ItemReq
  <2>3. CASE pc[r] \notin {"unlink", "ok"}
    <3>1. DeleteRow(r) /\ row[req[r].item] = "live"
      BY <1>1, <2>1, <2>3, Moves DEF StartUpload, StartDelete, StartGet, Goto, Step, CreateFile,
         CopyFile, WriteImage, InsertRow, UndoUpload, FindForDelete, DeleteRow, Unlink, FindForGet, OpenFile,
         Fails, Crash, Doing, UploadSteps, GetSteps, ItemReq, UploadReq
    <3>. QED
      BY <1>1, <2>1, <3>1 DEF DeleteRow, Goto, ItemReq
  <2>. QED
    BY <2>2, <2>3
<1>2. ASSUME NEW p \in Requests, NEW r \in Requests,
             req'[p] \in ItemReq, req'[p].op = "delete", pc'[p] \in {"unlink", "ok"},
             req'[r] \in ItemReq, req'[r].op = "delete", pc'[r] \in {"unlink", "ok"},
             req'[p].item = req'[r].item
      PROVE  p = r
  <2>1. CASE pc[p] \in {"unlink", "ok"} /\ pc[r] \in {"unlink", "ok"}
    BY <1>1, <1>2, <2>1 DEF OneUnlinks
  <2>2. CASE DeleteRow(p) /\ row[req[p].item] = "live"
    BY <1>1, <1>2, <2>2 DEF OneUnlinks, DeleteRow, Goto
  <2>3. CASE DeleteRow(r) /\ row[req[r].item] = "live"
    BY <1>1, <1>2, <2>3 DEF OneUnlinks, DeleteRow, Goto
  <2>. QED
    BY <1>1, <1>2, <2>1, <2>2, <2>3
<1>. QED
  BY <1>1, <1>2 DEF OneUnlinks

\* A late download finds no live row.
LEMMA LateStuckStep == ASSUME IInv, Next PROVE LateStuck'
<1>. USE DEF IInv, TypeOK
<1> SUFFICES ASSUME NEW r \in late'
             PROVE  /\ req'[r] \in ItemReq
                    /\ row'[req'[r].item] = "deleted"
                    /\ pc'[r] \in {"findForGet", "notfound", "error", "crashed"}
  BY DEF LateStuck
<1>1. CASE r \in late
  <2>1. r \in Requests /\ pc[r] # "idle" /\ req[r] \in ItemReq /\ req'[r] = req[r]
    BY <1>1, Frame DEF LateStuck
  <2>2. row'[req[r].item] = "deleted"
    BY <1>1, <2>1, Frame DEF LateStuck, ItemReq
  <2>3. pc'[r] \in {"findForGet", "notfound", "error", "crashed"}
    BY <1>1, <2>1, Moves DEF LateStuck, StartUpload, StartDelete, StartGet, Goto, Step,
       CreateFile, CopyFile, WriteImage, InsertRow, UndoUpload, FindForDelete, DeleteRow, Unlink,
       FindForGet, Found, OpenFile, Fails, Crash
  <2>. QED
    BY <2>1, <2>2, <2>3
<1>2. CASE r \notin late
  <2>1. PICK c \in Callers, q \in Requests : r \in Requests /\ StartGet(r, c, q)
    BY <1>2, Split DEF StartUpload, StartDelete, StartGet, Step, CreateFile, CopyFile, WriteImage,
       InsertRow, UndoUpload, FindForDelete, DeleteRow, Unlink, FindForGet, OpenFile, Fails,
       Crash
  <2>2. PICK p \in Requests : pc[p] = "ok" /\ req[p].op = "delete" /\ req[p].item = q
    BY <1>2, <2>1 DEF StartGet
  <2>3. req[p] \in ItemReq
    BY <2>2 DEF UploadReq, NoReq
  <2>4. row[q] = "deleted"
    BY <2>2, <2>3 DEF OneUnlinks
  <2>. QED
    BY <2>1, <2>4 DEF StartGet, Goto, ItemReq
<1>. QED
  BY <1>1, <1>2

\* What removes a file is an upload that has failed or a deletion that marked the row.
LEMMA RowsHaveFilesStep == ASSUME IInv, Next PROVE RowsHaveFiles'
<1>. USE DEF IInv, TypeOK
<1> SUFFICES ASSUME NEW q \in Requests, row'[q] = "live", pc'[q] # "error"
             PROVE  disk'[q] = "whole"
  BY DEF RowsHaveFiles
<1>1. CASE row[q] # row'[q]
  BY <1>1, RowStep DEF InsertRow, DeleteRow, Goto, Written
<1>2. CASE row[q] = "live" /\ disk'[q] = disk[q]
  BY <1>2, Frame DEF RowsHaveFiles, Finished
<1>3. CASE row[q] = "live" /\ disk'[q] # disk[q]
  <2>1. ASSUME NEW r \in Requests, Unlink(r), req[r].item = q PROVE FALSE
    BY <1>3, <2>1 DEF Unlink, OneUnlinks, Doing, DeleteSteps
  <2>2. CASE CreateFile(q) \/ CopyFile(q) \/ WriteImage(q) \/ UndoUpload(q)
    BY <1>3, <2>2 DEF CreateFile, CopyFile, WriteImage, UndoUpload, Goto, Written
  <2>. QED
    BY <1>3, <2>1, <2>2, DiskStep
<1>. QED
  BY <1>1, <1>2, <1>3

\* The states of an item in which its file may be there without a row.
Explained(q) ==
  \/ pc[q] \in {"copy", "insert", "undo", "crashed"}
  \/ q \in kept
  \/ req[q].kind = "image" /\ disk[q] = "partial" /\ pc[q] = "error"
  \/ \E r \in Requests : IsDeletion(r, q) /\ pc[r] \in {"unlink", "error", "crashed"}

LEMMA OrphansExplainedStep == ASSUME IInv, Next PROVE OrphansExplained'
<1>. USE DEF IInv, TypeOK
<1> SUFFICES ASSUME NEW q \in Requests, disk'[q] # "none", row'[q] # "live"
             PROVE  Explained(q)'
  BY DEF OrphansExplained, Explained, IsDeletion
<1>1. kept \subseteq kept'
  BY Split DEF StartUpload, StartDelete, StartGet, Step, CreateFile, CopyFile, WriteImage, InsertRow,
     UndoUpload, FindForDelete, DeleteRow, Unlink, FindForGet, OpenFile, Fails, Crash, Remove
<1>2. ASSUME NEW r \in Requests, DeleteRow(r), req[r].item = q PROVE Explained(q)' \/ row'[q] = row[q]
  <2>1. req[r].op = "delete"
    BY <1>2 DEF DeleteRow, Doing, DeleteSteps
  <2>2. CASE row[q] = "live"
    <3>1. pc'[r] \in {"unlink", "error"} /\ req' = req
      BY <1>2, <2>2 DEF DeleteRow, Goto
    <3>. QED
      BY <1>2, <2>1, <3>1 DEF Explained, IsDeletion
  <2>. QED
    BY <1>2, <2>2 DEF DeleteRow
<1>3. CASE row'[q] # row[q]
  <2>1. ~InsertRow(q)
    BY <1>3 DEF InsertRow
  <2>. QED
    BY <1>2, <1>3, <2>1, RowStep
<1>4. CASE disk'[q] # disk[q]
  <2>1. CreateFile(q) \/ CopyFile(q) \/ WriteImage(q)
    BY <1>4, DiskStep DEF UndoUpload, Unlink, Remove
  <2>. QED
    BY <1>4, <2>1 DEF CreateFile, CopyFile, WriteImage, Goto, Explained
<1>5. CASE row'[q] = row[q] /\ disk'[q] = disk[q]
  <2>1. Explained(q) /\ req[q] \in UploadReq /\ req'[q] = req[q]
    <3>1. req[q] \in UploadReq /\ pc[q] # "idle"
      BY <1>5 DEF Written
    <3>. QED
      BY <1>5, <3>1, Frame DEF OrphansExplained, Explained
  <2>2. CASE q \in kept
    BY <1>1, <2>2 DEF Explained
  <2>3. CASE req[q].kind = "image" /\ disk[q] = "partial" /\ pc[q] = "error"
    BY <1>5, <2>1, <2>3, Frame DEF Explained, Finished
  <2>4. CASE pc[q] \in {"copy", "insert", "undo", "crashed"}
    <3>1. CASE pc'[q] = pc[q]
      BY <2>4, <3>1 DEF Explained
    <3>2. CASE CopyFile(q) \/ WriteImage(q)
      BY <1>5, <2>1, <3>2 DEF CopyFile, WriteImage, Goto, Explained, Written
    <3>3. CASE InsertRow(q)
      BY <1>5, <3>3 DEF InsertRow, Goto, Explained
    <3>4. CASE UndoUpload(q)
      BY <1>5, <3>4 DEF UndoUpload, Remove, Goto, Explained
    <3>5. CASE Crash(q)
      BY <3>5 DEF Crash, Goto, Explained
    <3>. QED
      BY <2>4, <3>1, <3>2, <3>3, <3>4, <3>5, Moves DEF StartUpload, StartDelete, StartGet,
         Step, CreateFile, FindForDelete, DeleteRow, Unlink, FindForGet, OpenFile, Fails
  <2>5. ASSUME NEW r \in Requests, IsDeletion(r, q), pc[r] \in {"unlink", "error", "crashed"}
        PROVE  Explained(q)'
    <3>1. IsDeletion(r, q)'
      BY <2>5, Frame DEF IsDeletion
    <3>2. CASE pc'[r] = pc[r] \/ Crash(r)
      BY <2>5, <3>1, <3>2 DEF Crash, Goto, Explained
    <3>3. CASE Unlink(r)
      BY <1>5, <2>5, <3>3 DEF Unlink, Remove, IsDeletion, Explained
    <3>. QED
      BY <2>5, <3>2, <3>3, Moves DEF StartUpload, StartDelete, StartGet, Step, CreateFile,
         CopyFile, WriteImage, InsertRow, UndoUpload, FindForDelete, DeleteRow, FindForGet, OpenFile, Fails
  <2>. QED
    BY <2>1, <2>2, <2>3, <2>4, <2>5 DEF Explained
<1>. QED
  BY <1>3, <1>4, <1>5

\* A download that opens nothing saw a row whose file was there, or an upload that failed.
LEMMA MissingExplainedStep == ASSUME IInv, Next PROVE MissingExplained'
<1>. USE DEF IInv, TypeOK
<1> SUFFICES ASSUME NEW r \in Requests, pc'[r] = "missing"
             PROVE  row'[req'[r].item] = "deleted" \/ pc'[req'[r].item] = "error"
  BY DEF MissingExplained
<1>1. pc[r] = "missing" \/ OpenFile(r)
  BY Moves DEF StartUpload, StartDelete, StartGet, Goto, Step, CreateFile, CopyFile, WriteImage, InsertRow,
     UndoUpload, FindForDelete, DeleteRow, Unlink, FindForGet, OpenFile, Fails, Crash
<1>2. req[r] \in ItemReq /\ req[r].item \in Requests /\ req'[r] = req[r]
  BY <1>1, Frame DEF OpenFile, Doing, GetSteps, ItemReq
<1>3. row[req[r].item] = "deleted" \/ pc[req[r].item] = "error"
  <2>1. CASE pc[r] = "missing"
    BY <2>1 DEF MissingExplained
  <2>2. CASE OpenFile(r)
    BY <1>2, <2>2 DEF OpenFile, Goto, Doing, RowsHaveFiles
  <2>. QED
    BY <1>1, <2>1, <2>2
<1>. QED
  BY <1>2, <1>3, Frame DEF Finished

-----------------------------------------------------------------------------
(* Theorems *)

\* The inductive invariant holds in every reachable state.
THEOREM Invariance == Spec => []IInv
<1>1. IInv /\ Next => IInv'
  BY TypeStep, DoingStep, WrittenStep, OneUnlinksStep, LateStuckStep, RowsHaveFilesStep,
     OrphansExplainedStep, MissingExplainedStep DEF IInv
<1>2. IInv /\ UNCHANGED vars => IInv'
  BY DEF vars, IInv, TypeOK, Doing, Written, OneUnlinks, LateStuck, RowsHaveFiles,
     OrphansExplained, IsDeletion, MissingExplained
<1>. QED
  BY InitInv, <1>1, <1>2, PTL DEF Spec

\* Every variable keeps its type.
THEOREM TypeCorrect == Spec => []TypeOK
BY Invariance, PTL DEF IInv

\* Upload, Delete and their image counterparts never take the file away under a row that
\* users can see, but where an upload takes a committed INSERT for a failed one.
THEOREM FilesBacked == Spec => []RowsHaveFiles
BY Invariance, PTL DEF IInv

\* Uploads and deletions leak a file only by a crash, a failed statement, a failed removal
\* or a failed image write.
THEOREM LeaksExplained == Spec => []OrphansExplained
BY Invariance, PTL DEF IInv

\* Download and GetImage miss the file of a row they found only when the item has been
\* deleted since, or its upload failed.
THEOREM MissesExplained == Spec => []MissingExplained
BY Invariance, PTL DEF IInv

\* An item whose deletion was acknowledged is never served to a later request.
THEOREM Gone == Spec => []DeletedIsGone
<1>1. IInv => DeletedIsGone
  BY DEF IInv, LateStuck, DeletedIsGone
<1>. QED
  BY <1>1, Invariance, PTL

\* At most one deletion of an item is acknowledged.
THEOREM DeletedOnce == Spec => []OneDeletion
<1>1. IInv => OneDeletion
  BY DEF IInv, TypeOK, UploadReq, NoReq, OneUnlinks, OneDeletion
<1>. QED
  BY <1>1, Invariance, PTL

=============================================================================
