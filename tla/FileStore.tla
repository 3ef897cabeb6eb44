----------------------------- MODULE FileStore -----------------------------
(***************************************************************************)
(* Circulars (internal/files) and survey images (survey/image_handler.go): *)
(* a row of the database and a file on disk that belong together.          *)
(*                                                                         *)
(* An upload writes the file and then inserts the row; a deletion marks or *)
(* deletes the row and then removes the file; a download looks the row up  *)
(* and then opens the file.  No transaction spans the two, other requests  *)
(* run between any two steps, a failing statement may have taken effect,   *)
(* and a crash of the server leaves a request where it is.                 *)
(*                                                                         *)
(* An item is named by the upload that makes it: its id and its path are   *)
(* fresh.                                                                  *)
(***************************************************************************)
EXTENDS Naturals, FiniteSets

CONSTANTS
  Requests,
  Assocs,
  Callers,     \* claims of the callers: [role, assoc]
  None

Kinds == {"file", "image"}

ASSUME Claims ==
  /\ None \notin Assocs
  /\ Callers \subseteq [role : {"system_admin", "member"}, assoc : Assocs \cup {None}]

VARIABLES
  row,     \* row[q]: state of the row of item q in files or survey_images
  disk,    \* disk[q]: the file of item q
  req,     \* req[r]: what request r asks for
  pc,      \* pc[r]: the next step of r, or its outcome
  kept,    \* history: items whose file os.Remove failed to remove
  late     \* history: downloads sent after a deletion was acknowledged

vars == <<row, disk, req, pc, kept, late>>

NoReq == [op |-> "none"]

Steps    == {"create", "copy", "insert", "undo",
             "findForDelete", "deleteRow", "unlink", "findForGet", "open"}
Finished == {"ok", "notfound", "missing", "error", "crashed"}

Init ==
  /\ row = [q \in Requests |-> "none"]
  /\ disk = [q \in Requests |-> "none"]
  /\ req = [r \in Requests |-> NoReq]
  /\ pc = [r \in Requests |-> "idle"]
  /\ kept = {}
  /\ late = {}

Goto(r, step) == pc' = [pc EXCEPT ![r] = step]

\* The statement or system call of r fails without effect, or the client is gone.
Fails(r) ==
  /\ pc[r] \in {"create", "findForDelete", "deleteRow", "findForGet", "open"}
  /\ Goto(r, "error")
  /\ UNCHANGED <<row, disk, req, kept, late>>

\* The server stops: nothing cleans up after r.
Crash(r) ==
  /\ pc[r] \in Steps
  /\ Goto(r, "crashed")
  /\ UNCHANGED <<row, disk, req, kept, late>>

\* The association of the caller, or the one a system admin names.
Home(c) == IF c.role = "system_admin" THEN Assocs ELSE {c.assoc} \ {None}

-----------------------------------------------------------------------------
(* Uploading *)

StartUpload(r, c, a, kind) ==
  /\ pc[r] = "idle"
  /\ a \in Home(c)
  /\ req' = [req EXCEPT ![r] = [op |-> "upload", kind |-> kind, assoc |-> a]]
  /\ Goto(r, "create")
  /\ UNCHANGED <<row, disk, kept, late>>

\* A circular that passes the checks of size and type.
UploadFile(r, c, a) == StartUpload(r, c, a, "file")

\* An image that passes the checks, for a live survey of association a.
UploadImage(r, c, a) == StartUpload(r, c, a, "image")

CreateFile(r) ==
  /\ pc[r] = "create"
  /\ disk' = [disk EXCEPT ![r] = "partial"]
  /\ Goto(r, "copy")
  /\ UNCHANGED <<row, req, kept, late>>

\* Faulty: a copy that fails leaves its part of the file.
CopyFileFaulty(r) ==
  /\ pc[r] = "copy" /\ req[r].kind = "file"
  /\ \/ disk' = [disk EXCEPT ![r] = "whole"] /\ Goto(r, "insert")
     \/ Goto(r, "error") /\ UNCHANGED disk
  /\ UNCHANGED <<row, req, kept, late>>

\* io.Copy of a circular, which removes what it has written when it fails.
CopyFile(r) ==
  /\ pc[r] = "copy" /\ req[r].kind = "file"
  /\ \/ disk' = [disk EXCEPT ![r] = "whole"] /\ Goto(r, "insert")
     \/ Goto(r, "undo") /\ UNCHANGED disk
  /\ UNCHANGED <<row, req, kept, late>>

\* os.WriteFile of an image, which leaves what it has written when it fails.
WriteImage(r) ==
  /\ pc[r] = "copy" /\ req[r].kind = "image"
  /\ \/ disk' = [disk EXCEPT ![r] = "whole"] /\ Goto(r, "insert")
     \/ Goto(r, "error") /\ UNCHANGED disk
  /\ UNCHANGED <<row, req, kept, late>>

\* The INSERT succeeds, or fails, or takes effect and is reported as failed: the context
\* of the request is cancelled, or the connection is lost.
InsertRow(r) ==
  /\ pc[r] = "insert"
  /\ \/ row' = [row EXCEPT ![r] = "live"] /\ \E step \in {"ok", "undo"} : Goto(r, step)
     \/ Goto(r, "undo") /\ UNCHANGED row
  /\ UNCHANGED <<disk, req, kept, late>>

\* os.Remove of item q, whose error nobody looks at.
Remove(q) ==
  \/ disk' = [disk EXCEPT ![q] = "none"] /\ UNCHANGED kept
  \/ kept' = kept \cup {q} /\ UNCHANGED disk

UndoUpload(r) ==
  /\ pc[r] = "undo"
  /\ Remove(r)
  /\ Goto(r, "error")
  /\ UNCHANGED <<row, req, late>>

-----------------------------------------------------------------------------
(* Deleting and downloading *)

Known(q) == req[q].op = "upload" /\ row[q] # "none"

StartDelete(r, c, q) ==
  /\ pc[r] = "idle"
  /\ Known(q)
  /\ req' = [req EXCEPT ![r] = [op |-> "delete", caller |-> c, item |-> q]]
  /\ Goto(r, "findForDelete")
  /\ UNCHANGED <<row, disk, kept, late>>

StartGet(r, c, q) ==
  /\ pc[r] = "idle"
  /\ Known(q)
  /\ req' = [req EXCEPT ![r] = [op |-> "get", caller |-> c, item |-> q]]
  /\ Goto(r, "findForGet")
  /\ late' = IF \E p \in Requests : pc[p] = "ok" /\ req[p].op = "delete" /\ req[p].item = q
             THEN late \cup {r} ELSE late
  /\ UNCHANGED <<row, disk, kept>>

\* Faulty: a row that is marked as deleted is found.
FoundFaulty(c, q) == req[q].assoc \in Home(c)

\* FindByID, FindByIDNoTenant, FindImage
Found(c, q) == row[q] = "live" /\ req[q].assoc \in Home(c)

FindForDelete(r) ==
  /\ pc[r] = "findForDelete"
  /\ Goto(r, IF Found(req[r].caller, req[r].item) THEN "deleteRow" ELSE "notfound")
  /\ UNCHANGED <<row, disk, req, kept, late>>

\* Faulty: the file is removed before the row.
DeleteRowLast(r) ==
  /\ pc[r] = "deleteRow"
  /\ disk' = [disk EXCEPT ![req[r].item] = "none"]
  /\ Goto(r, "unlink")
  /\ UNCHANGED <<row, req, kept, late>>

\* The row of a circular is marked, that of an image is deleted; either statement tells
\* whether it found a live row.  One that is reported as failed may have taken effect.
DeleteRow(r) ==
  LET q == req[r].item IN
  /\ pc[r] = "deleteRow"
  /\ \/ /\ row[q] = "live"
        /\ row' = [row EXCEPT ![q] = "deleted"]
        /\ \E step \in {"unlink", "error"} : Goto(r, step)
     \/ /\ row[q] # "live"
        /\ Goto(r, IF req[q].kind = "file" THEN "notfound" ELSE "error")
        /\ UNCHANGED row
  /\ UNCHANGED <<disk, req, kept, late>>

Unlink(r) ==
  /\ pc[r] = "unlink"
  /\ Remove(req[r].item)
  /\ Goto(r, "ok")
  /\ UNCHANGED <<row, req, late>>

FindForGet(r) ==
  /\ pc[r] = "findForGet"
  /\ Goto(r, IF Found(req[r].caller, req[r].item) THEN "open" ELSE "notfound")
  /\ UNCHANGED <<row, disk, req, kept, late>>

\* A file that is open can be read to its end, even when it is removed meanwhile.
OpenFile(r) ==
  /\ pc[r] = "open"
  /\ Goto(r, IF disk[req[r].item] = "none" THEN "missing" ELSE "ok")
  /\ UNCHANGED <<row, disk, req, kept, late>>

-----------------------------------------------------------------------------

Next ==
  \E r \in Requests :
    \/ \E c \in Callers, a \in Assocs : UploadFile(r, c, a) \/ UploadImage(r, c, a)
    \/ CreateFile(r) \/ CopyFile(r) \/ WriteImage(r) \/ InsertRow(r) \/ UndoUpload(r)
    \/ \E c \in Callers, q \in Requests : StartDelete(r, c, q) \/ StartGet(r, c, q)
    \/ FindForDelete(r) \/ DeleteRow(r) \/ Unlink(r)
    \/ FindForGet(r) \/ OpenFile(r)
    \/ Fails(r) \/ Crash(r)

Spec == Init /\ [][Next]_vars

-----------------------------------------------------------------------------
(* Correctness *)

UploadReq == [op : {"upload"}, kind : Kinds, assoc : Assocs]
ItemReq   == [op : {"delete", "get"}, caller : Callers, item : Requests]

\* The type of every variable.
TypeOK ==
  /\ row \in [Requests -> {"none", "live", "deleted"}]
  /\ disk \in [Requests -> {"none", "partial", "whole"}]
  /\ req \in [Requests -> UploadReq \cup ItemReq \cup {NoReq}]
  /\ pc \in [Requests -> {"idle"} \cup Steps \cup Finished]
  /\ kept \subseteq Requests
  /\ late \subseteq Requests

IsDeletion(r, q) == req[r].op = "delete" /\ req[r].item = q

\* A row that users can see has its whole file on disk, whatever uploads and deletions
\* run or crash at the same time; only an upload that took its INSERT for failed removes
\* the file of a row.
RowsHaveFiles == \A q \in Requests : row[q] = "live" => disk[q] = "whole" \/ pc[q] = "error"

\* A file without a row that users can see is on its way in or out, or was left by a
\* crash, a failed statement or a failed removal; no other path leaks files.
OrphansExplained ==
  \A q \in Requests : (disk[q] # "none" /\ row[q] # "live") =>
    \/ pc[q] \in {"copy", "insert", "undo", "crashed"}
    \/ q \in kept
    \/ req[q].kind = "image" /\ disk[q] = "partial" /\ pc[q] = "error"
    \/ \E r \in Requests : IsDeletion(r, q) /\ pc[r] \in {"unlink", "error", "crashed"}

\* A download finds the row without its file only when the item has been deleted since,
\* or its upload was reported as failed.
MissingExplained ==
  \A r \in Requests : pc[r] = "missing" =>
    row[req[r].item] = "deleted" \/ pc[req[r].item] = "error"

\* A download sent after a deletion was acknowledged serves nothing, even if the file
\* could not be removed.
DeletedIsGone == \A r \in late : pc[r] # "ok"

\* One of the requests that delete an item, at most, is told it did.
OneDeletion ==
  \A p, r \in Requests :
    (p # r /\ req[p].op = "delete" /\ req[r].op = "delete" /\ pc[p] = "ok" /\ pc[r] = "ok")
      => req[p].item # req[r].item

=============================================================================
