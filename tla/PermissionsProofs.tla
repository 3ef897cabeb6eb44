-------------------------- MODULE PermissionsProofs --------------------------
(***************************************************************************)
(* Proofs about Permissions: the log accounts for the matrix and for the   *)
(* roles, and associations are governed by their own updates, for any      *)
(* number of requests, any batches and any matrix.                         *)
(***************************************************************************)
EXTENDS Permissions, FiniteSetTheorems, TLAPS

\* The row the batch of r is at.
Current(r) == RowOf(r, done[r] + 1)

\* What a request asks for fits the statement it is at, and its transaction is empty before
\* it begins and after it has ended.
Shape ==
  \A r \in Requests :
    /\ pc[r] = "idle" => req[r] = NoReq
    /\ pc[r] \in {"next", "upsert", "log"} => req[r] \in UpdateReq
    /\ pc[r] \in {"find", "update", "logRole", "post"} => req[r] \in AppointReq
    /\ pc[r] \in {"begin", "commit"} => req[r] \in UpdateReq \cup AppointReq
    /\ pc[r] = "next" => done[r] <= Len(req[r].inputs)
    /\ pc[r] \in {"upsert", "log"} => done[r] < Len(req[r].inputs) /\ ~IsFixed(r, done[r] + 1)
    /\ pc[r] \notin Open =>
         done[r] = 0 /\ DOMAIN writes[r] = {} /\ entries[r] = <<>> /\ posted[r] = {}

\* An update writes rows of its scope, but none of system_admin, an appointment the role of its user.
WritesFit ==
  \A r \in Requests : \A k \in DOMAIN writes[r] :
    \/ /\ req[r] \in UpdateReq
       /\ k \in Rows /\ k[1] = req[r].scope /\ k[2][1] # SystemAdmin /\ writes[r][k] \in Grants
    \/ req[r] \in AppointReq /\ k = req[r].user /\ writes[r][k] = req[r].role

\* Entry i of s is the last one about row k.
LastAbout(s, i, k) == i \in DOMAIN s /\ s[i].row = k /\ \A j \in DOMAIN s : s[j].row = k => j <= i

\* What a transaction has written it has logged, but for the row it is at.
Logged ==
  \A r \in Requests :
    /\ \A i \in DOMAIN entries[r] : entries[r][i].row \in DOMAIN writes[r] /\ entries[r][i].by = r
    /\ pc[r] = "log" => /\ Current(r) \in DOMAIN writes[r]
                        /\ writes[r][Current(r)] = req[r].inputs[done[r] + 1].grant
    /\ pc[r] = "logRole" => req[r].user \in DOMAIN writes[r]
    /\ \A k \in DOMAIN writes[r] :
         \/ pc[r] = "log" /\ k = Current(r)
         \/ pc[r] = "logRole" /\ k = req[r].user
         \/ \E i \in DOMAIN entries[r] :
              LastAbout(entries[r], i, k) /\ entries[r][i].after = writes[r][k]

\* An appointment logs, then posts, then commits; what it has logged or posted is seen once it
\* has ended.
Appoints ==
  \A r \in Requests :
    /\ \A n \in posted[r] : n.by = r
    /\ pc[r] \notin Finished => /\ \A i \in DOMAIN log : log[i].by # r
                                /\ \A n \in notices : n.by # r
    /\ req[r] \in AppointReq =>
         /\ pc[r] \in {"post", "commit"} => entries[r] # <<>>
         /\ pc[r] = "commit" =>
              AssocOf[req[r].user] = None \/ [by |-> r, assoc |-> AssocOf[req[r].user]] \in posted[r]
         /\ posted[r] # {} => entries[r] # <<>> /\ pc[r] = "commit"

\* The inductive invariant.
IInv ==
  /\ TypeOK
  /\ Shape
  /\ WritesFit
  /\ Logged
  /\ LogTellsMatrix
  /\ Appoints
  /\ AppointmentsRecorded

LEMMA InitInv == Init => IInv
<1>. SUFFICES ASSUME Init PROVE IInv
  OBVIOUS
<1>0. \A f : f = <<>> => DOMAIN f = {}
  OBVIOUS
<1>1. TypeOK
  <2>1. perm \in [Rows -> Grants \cup {None}]
    BY Catalogue DEF Init, Rows, Scopes
  <2>. QED
    BY <1>0, <2>1, Catalogue DEF Init, TypeOK
<1>2. Shape /\ WritesFit
  BY <1>0 DEF Init, Shape, WritesFit, Open
<1>3. Logged /\ Appoints
  BY <1>0, <1>2 DEF Init, Logged, Appoints, Open, Finished, NoReq, AppointReq
<1>4. LogTellsMatrix
  BY <1>0 DEF Init, LogTellsMatrix, Of, InitialRow
<1>5. AppointmentsRecorded
  BY <1>0 DEF Init, AppointmentsRecorded, NoReq
<1>. QED
  BY <1>1, <1>2, <1>3, <1>4, <1>5 DEF IInv

-----------------------------------------------------------------------------
(* Which request a step is of *)

\* A step of a request that has been started.
Step(r) ==
  \/ Begin(r) \/ \E outcome \in Finished : Commit(r, outcome)
  \/ NextInput(r) \/ Upsert(r) \/ LogUpdate(r)
  \/ FindUser(r) \/ UpdateRole(r) \/ LogRole(r) \/ PostNotice(r)
  \/ Abort(r)

\* Nothing of request r changes.
Still(r) ==
  /\ pc'[r] = pc[r] /\ req'[r] = req[r] /\ at'[r] = at[r] /\ done'[r] = done[r]
  /\ before'[r] = before[r] /\ writes'[r] = writes[r] /\ entries'[r] = entries[r]
  /\ posted'[r] = posted[r]

Start(r) ==
  \/ \E scope \in Scopes, inputs \in Batches : StartUpdate(r, scope, inputs)
  \/ \E u \in Users, new \in Roles : StartAppointment(r, u, new)

\* A member of a cycle of waiters waits in an open transaction.
LEMMA DeadlockEnds ==
  ASSUME NEW r \in Requests, DeadlockAbort(r)
  PROVE  Abort(r)
<1>1. WaitsFor(r) # {}
  BY DEF DeadlockAbort, Deadlocked
<1>2. pc[r] \in {"upsert", "update"}
  <2>. SUFFICES ASSUME pc[r] \notin {"upsert", "update"} PROVE WaitsFor(r) = {}
    BY <1>1
  <2>. QED
    BY DEF WaitsFor
<1>. QED
  BY <1>2 DEF DeadlockAbort, Abort, Open

LEMMA StepsOf ==
  ASSUME [Next]_vars
  PROVE  \/ \E r \in Requests : Start(r) \/ Step(r)
         \/ UNCHANGED <<perm, log, notices, req, pc, at, tx, raced>>
<1>1. CASE \E r \in Requests : \/ \E scope \in Scopes, inputs \in Batches : StartUpdate(r, scope, inputs)
                               \/ \E u \in Users, new \in Roles : StartAppointment(r, u, new)
                               \/ Proceed(r) \/ Abort(r)
  BY <1>1, DeadlockEnds DEF Start, Step, Proceed
<1>2. CASE \E e \in Edits : EditRole(e[1], e[2])
  BY <1>2 DEF EditRole
<1>3. CASE \E u \in Users, b \in BOOLEAN : SetActive(u, b)
  BY <1>3 DEF SetActive
<1>4. CASE UNCHANGED vars
  BY <1>4 DEF vars, db
<1>. QED
  BY <1>1, <1>2, <1>3, <1>4 DEF Next

\* A step of one request leaves the others as they are.
LEMMA OthersStill ==
  ASSUME TypeOK, NEW r \in Requests, Start(r) \/ Step(r), NEW q \in Requests \ {r}
  PROVE  Still(q)
<1>. USE DEF TypeOK, Still, Goto, Finish, Write, tx
<1>1. CASE Start(r)
  BY <1>1 DEF Start, StartUpdate, StartAppointment
<1>2. CASE Begin(r) \/ NextInput(r) \/ Upsert(r) \/ LogUpdate(r)
  BY <1>2 DEF Begin, NextInput, Upsert, LogUpdate
<1>3. CASE FindUser(r) \/ UpdateRole(r) \/ LogRole(r) \/ PostNotice(r)
  BY <1>3 DEF FindUser, UpdateRole, LogRole, PostNotice
<1>4. CASE Abort(r) \/ \E outcome \in Finished : Commit(r, outcome)
  BY <1>4 DEF Abort, Commit
<1>. QED
  BY <1>1, <1>2, <1>3, <1>4 DEF Step

-----------------------------------------------------------------------------
(* Types *)

\* What a statement of a request finds in it.
LEMMA Asked ==
  ASSUME TypeOK, Shape, NEW r \in Requests
  PROVE  /\ pc[r] \in {"next", "upsert", "log"} =>
              req[r].op = "update" /\ req[r].scope \in Scopes /\ req[r].inputs \in Seq(Input)
         /\ pc[r] \in {"next", "upsert", "log"} /\ done[r] < Len(req[r].inputs) =>
              /\ done[r] + 1 \in DOMAIN req[r].inputs
              /\ req[r].inputs[done[r] + 1].grant \in Grants
              /\ RowOf(r, done[r] + 1) \in Rows
         /\ pc[r] \in {"find", "update", "logRole", "post"} =>
              req[r].op = "appoint" /\ req[r].user \in Users /\ req[r].role \in Roles
<1>1. pc[r] \in {"next", "upsert", "log"} =>
        req[r].op = "update" /\ req[r].scope \in Scopes /\ req[r].inputs \in Seq(Input)
  BY Catalogue DEF Shape, UpdateReq
<1>2. ASSUME pc[r] \in {"next", "upsert", "log"}, done[r] < Len(req[r].inputs)
      PROVE  /\ done[r] + 1 \in DOMAIN req[r].inputs
             /\ req[r].inputs[done[r] + 1].grant \in Grants
             /\ RowOf(r, done[r] + 1) \in Rows
  <2>1. done[r] + 1 \in DOMAIN req[r].inputs
    BY <1>1, <1>2 DEF TypeOK
  <2>2. req[r].inputs[done[r] + 1] \in Input
    BY <1>1, <1>2, <2>1
  <2>. QED
    BY <1>1, <1>2, <2>1, <2>2 DEF Input, RowOf, Rows
<1>3. pc[r] \in {"find", "update", "logRole", "post"} =>
        req[r].op = "appoint" /\ req[r].user \in Users /\ req[r].role \in Roles
  BY DEF Shape, AppointReq
<1>. QED
  BY <1>1, <1>2, <1>3

LEMMA TargetsTyped ==
  ASSUME TypeOK, Shape, NEW r \in Requests, pc[r] = "begin" \/ pc[r] \in Open
  PROVE  Targets(r) \subseteq Rows \cup Users
<1>1. CASE req[r] \in UpdateReq
  <2>1. req[r].op = "update" /\ req[r].scope \in Scopes /\ req[r].inputs \in Seq(Input)
    BY <1>1, Catalogue DEF UpdateReq
  <2>2. ASSUME NEW i \in DOMAIN req[r].inputs
        PROVE  RowOf(r, i) \in Rows
    <3>1. req[r].inputs[i] \in Input
      BY <2>1
    <3>. QED
      BY <2>1, <3>1 DEF RowOf, Input, Rows
  <2>. QED
    BY <2>1, <2>2 DEF Targets
<1>2. CASE req[r] \in AppointReq
  BY <1>2 DEF AppointReq, Targets
<1>. QED
  BY <1>1, <1>2 DEF Shape, Open

\* The writes of one more row.
LEMMA Written ==
  ASSUME TypeOK, NEW r \in Requests, NEW k, NEW v, Write(r, k, v)
  PROVE  /\ DOMAIN writes' = Requests
         /\ DOMAIN writes'[r] = DOMAIN writes[r] \cup {k}
         /\ writes'[r][k] = v
         /\ \A x \in DOMAIN writes[r] \ {k} : writes'[r][x] = writes[r][x]
<1>1. writes'[r] = Put(writes[r], k, v) /\ DOMAIN writes' = Requests
  BY DEF Write, TypeOK
<1>. QED
  BY <1>1 DEF Put

LEMMA SeenTyped ==
  ASSUME TypeOK, WritesFit, NEW r \in Requests, NEW k \in Rows
  PROVE  Seen(r, k) \in Grants \cup Roles \cup {None}
BY DEF TypeOK, WritesFit, Seen, AppointReq

\* An entry about a row or a user.
LEMMA EntryTyped ==
  ASSUME TypeOK, NEW r \in Requests, NEW k \in Rows \cup Users, NEW v \in Grants \cup Roles
  PROVE  Entry(r, k, v) \in LogEntry
BY DEF TypeOK, Entry, LogEntry

LEMMA Ended ==
  ASSUME TypeOK, NEW r \in Requests, NEW outcome \in Finished, Finish(r, outcome)
  PROVE  /\ pc' \in [Requests -> {"idle", "begin"} \cup Open \cup Finished]
         /\ done' \in [Requests -> Nat]
         /\ before' \in [Requests -> Grants \cup Roles \cup {None}]
         /\ DOMAIN writes' = Requests
         /\ \A q \in Requests : DOMAIN writes'[q] \subseteq Rows \cup Users
         /\ entries' \in [Requests -> Seq(LogEntry)]
         /\ posted' \in [Requests -> SUBSET Notice]
         /\ pc'[r] = outcome
         /\ done'[r] = 0 /\ DOMAIN writes'[r] = {} /\ entries'[r] = <<>> /\ posted'[r] = {}
<1>1. \A f : f = <<>> => DOMAIN f = {}
  OBVIOUS
<1>. QED
  BY <1>1 DEF TypeOK, Finish, Goto

LEMMA WriteTyped ==
  ASSUME TypeOK, NEW r \in Requests, NEW k \in Rows \cup Users, NEW v, Write(r, k, v)
  PROVE  /\ DOMAIN writes' = Requests
         /\ \A q \in Requests : DOMAIN writes'[q] \subseteq Rows \cup Users
<1>1. ASSUME NEW q \in Requests
      PROVE  DOMAIN writes'[q] \subseteq Rows \cup Users
  <2>1. CASE q = r
    BY <2>1, Written DEF TypeOK
  <2>2. CASE q # r
    BY <2>2 DEF Write, TypeOK
  <2>. QED
    BY <2>1, <2>2
<1>. QED
  BY <1>1, Written

LEMMA NextTyped ==
  ASSUME TypeOK, Shape, WritesFit, NEW r \in Requests, NextInput(r)
  PROVE  /\ pc' \in [Requests -> {"idle", "begin"} \cup Open \cup Finished]
         /\ done' \in [Requests -> Nat]
         /\ before' \in [Requests -> Grants \cup Roles \cup {None}]
<1>1. CASE done[r] = Len(req[r].inputs) \/ (done[r] < Len(req[r].inputs) /\ IsFixed(r, done[r] + 1))
  <2>1. /\ UNCHANGED before /\ pc[r] = "next"
        /\ pc' = pc \/ pc' = [pc EXCEPT ![r] = "commit"]
        /\ done' = done \/ done' = [done EXCEPT ![r] = done[r] + 1]
    BY <1>1 DEF NextInput, Goto
  <2>2. done[r] + 1 \in Nat
    BY DEF TypeOK
  <2>. QED
    BY <2>1, <2>2 DEF TypeOK, Open
<1>2. CASE ~(done[r] = Len(req[r].inputs) \/ (done[r] < Len(req[r].inputs) /\ IsFixed(r, done[r] + 1)))
  <2>1. /\ pc' = [pc EXCEPT ![r] = "upsert"] /\ UNCHANGED done
        /\ before' = [before EXCEPT ![r] = Seen(r, RowOf(r, done[r] + 1))]
        /\ pc[r] = "next" /\ done[r] < Len(req[r].inputs)
    BY <1>2 DEF NextInput, Goto
  <2>2. Seen(r, RowOf(r, done[r] + 1)) \in Grants \cup Roles \cup {None}
    BY <2>1, Asked, SeenTyped
  <2>. QED
    BY <2>1, <2>2 DEF TypeOK, Open
<1>. QED
  BY <1>1, <1>2

LEMMA TypeStep == TypeOK /\ Shape /\ WritesFit /\ [Next]_vars => TypeOK'
<1>. SUFFICES ASSUME TypeOK, Shape, WritesFit, [Next]_vars PROVE TypeOK'
  OBVIOUS
<1>. USE DEF TypeOK
<1>1. ASSUME NEW r \in Requests, NEW scope \in Scopes, NEW inputs \in Batches,
             StartUpdate(r, scope, inputs)
      PROVE  TypeOK'
  BY <1>1 DEF StartUpdate, Goto, UpdateReq, db, tx
<1>2. ASSUME NEW r \in Requests, NEW u \in Users, NEW new \in Roles, StartAppointment(r, u, new)
      PROVE  TypeOK'
  BY <1>2 DEF StartAppointment, Goto, AppointReq, db, tx
<1>3. ASSUME NEW r \in Requests, Begin(r)
      PROVE  TypeOK'
  <2>1. Cardinality({q \in Requests : at[q] # 0}) \in Nat
    <3>. DEFINE begun == {q \in Requests : at[q] # 0}
    <3>1. begun \subseteq Requests /\ IsFiniteSet(Requests)
      BY Catalogue
    <3>2. IsFiniteSet(begun)
      BY <3>1, FS_Subset
    <3>. QED
      BY <3>2, FS_CardinalityType
  <2>2. Targets(r) \subseteq Rows \cup Users
    BY <1>3, TargetsTyped DEF Begin
  <2>. QED
    BY <1>3, <2>1, <2>2 DEF Begin, Goto, Open, db, tx
<1>4. ASSUME NEW r \in Requests, NEW outcome \in Finished, Commit(r, outcome)
      PROVE  TypeOK'
  <2>1. /\ \A k \in Rows \cap DOMAIN writes[r] : writes[r][k] \in Grants
        /\ \A k \in Users \cap DOMAIN writes[r] : writes[r][k] \in Roles
    BY Catalogue DEF WritesFit, AppointReq
  <2>2. perm' \in [Rows -> Grants \cup {None}] /\ role' \in [Users -> Roles]
    BY <1>4, <2>1 DEF Commit
  <2>3. log' \in Seq(LogEntry) /\ notices' \subseteq Notice
    BY <1>4 DEF Commit
  <2>. QED
    BY <1>4, <2>2, <2>3, Ended DEF Commit
<1>5. ASSUME NEW r \in Requests, NextInput(r)
      PROVE  TypeOK'
  BY <1>5, NextTyped DEF NextInput, db
<1>6. ASSUME NEW r \in Requests, Upsert(r)
      PROVE  TypeOK'
  <2>1. /\ DOMAIN writes' = Requests
        /\ \A q \in Requests : DOMAIN writes'[q] \subseteq Rows \cup Users
    <3>1. RowOf(r, done[r] + 1) \in Rows
      BY <1>6, Asked DEF Upsert, Shape
    <3>2. Write(r, RowOf(r, done[r] + 1), req[r].inputs[done[r] + 1].grant)
      BY <1>6 DEF Upsert
    <3>. QED
      BY <3>1, <3>2, WriteTyped
  <2>. QED
    BY <1>6, <2>1 DEF Upsert, Goto, Open, db
<1>7. ASSUME NEW r \in Requests, LogUpdate(r)
      PROVE  TypeOK'
  <2>1. Entry(r, RowOf(r, done[r] + 1), req[r].inputs[done[r] + 1].grant) \in LogEntry
    BY <1>7, Asked, EntryTyped DEF LogUpdate, Shape
  <2>. QED
    BY <1>7, <2>1 DEF LogUpdate, Goto, Open, db
<1>8. ASSUME NEW r \in Requests, FindUser(r)
      PROVE  TypeOK'
  <2>1. CASE active[req[r].user]
    <3>1. /\ Goto(r, "update") /\ before' = [before EXCEPT ![r] = role[req[r].user]]
          /\ UNCHANGED <<db, req, at, edited, raced, done, writes, entries, posted>>
      BY <1>8, <2>1 DEF FindUser
    <3>2. role[req[r].user] \in Roles
      BY <1>8, Asked DEF FindUser
    <3>3. pc' \in [Requests -> {"idle", "begin"} \cup Open \cup Finished]
      BY <3>1 DEF Goto, Open
    <3>4. before' \in [Requests -> Grants \cup Roles \cup {None}]
      BY <3>1, <3>2
    <3>. QED
      BY <3>1, <3>3, <3>4 DEF db
  <2>2. CASE ~active[req[r].user]
    <3>1. Finish(r, "error") /\ UNCHANGED <<db, req, at, edited, raced>>
      BY <1>8, <2>2 DEF FindUser
    <3>. QED
      BY <3>1, Ended DEF Finished, db
  <2>. QED
    BY <2>1, <2>2
<1>9. ASSUME NEW r \in Requests, UpdateRole(r)
      PROVE  TypeOK'
  <2>1. /\ DOMAIN writes' = Requests
        /\ \A q \in Requests : DOMAIN writes'[q] \subseteq Rows \cup Users
    <3>1. req[r].user \in Users /\ Write(r, req[r].user, req[r].role)
      BY <1>9, Asked DEF UpdateRole
    <3>. QED
      BY <3>1, WriteTyped
  <2>. QED
    BY <1>9, <2>1 DEF UpdateRole, Goto, Open, db
<1>10. ASSUME NEW r \in Requests, LogRole(r)
       PROVE  TypeOK'
  <2>1. Entry(r, req[r].user, req[r].role) \in LogEntry
    BY <1>10, Asked, EntryTyped DEF LogRole
  <2>. QED
    BY <1>10, <2>1 DEF LogRole, Goto, Open, db
<1>11. ASSUME NEW r \in Requests, PostNotice(r)
       PROVE  TypeOK'
  <2>1. AssocOf[req[r].user] # None => [by |-> r, assoc |-> AssocOf[req[r].user]] \in Notice
    BY <1>11, Asked, Catalogue DEF PostNotice, Notice, Scopes
  <2>. QED
    BY <1>11, <2>1 DEF PostNotice, Goto, Open, db
<1>12. ASSUME NEW r \in Requests, Abort(r)
       PROVE  TypeOK'
  BY <1>12, Ended DEF Abort, Finished, db
<1>13. ASSUME NEW e \in Edits, EditRole(e[1], e[2])
       PROVE  TypeOK'
  <2>1. e \in Users \X Roles
    BY Catalogue
  <2>2. e[1] \in Users /\ e[2] \in Roles /\ <<e[1], e[2]>> = e
    BY <2>1
  <2>. QED
    BY <1>13, <2>2 DEF EditRole, tx
<1>14. ASSUME NEW u \in Users, NEW b \in BOOLEAN, SetActive(u, b)
       PROVE  TypeOK'
  BY <1>14 DEF SetActive, tx
<1>15. CASE UNCHANGED vars
  BY <1>15 DEF vars, db, tx
<1>. QED
  BY <1>1, <1>2, <1>3, <1>4, <1>5, <1>6, <1>7, <1>8, <1>9, <1>10, <1>11, <1>12, <1>13, <1>14, <1>15,
     DeadlockEnds DEF Next, Proceed

-----------------------------------------------------------------------------
(* Requests and their transactions *)

LEMMA StepsFor ==
  ASSUME TypeOK, [Next]_vars, NEW r \in Requests
  PROVE  Still(r) \/ Start(r) \/ Step(r)
<1>1. CASE UNCHANGED <<req, pc, at, tx>>
  BY <1>1 DEF Still, tx
<1>. QED
  BY <1>1, StepsOf, OthersStill

\* A request keeps what it asks for, and a finished one moves no more.
LEMMA RequestsFrame ==
  ASSUME TypeOK, [Next]_vars, NEW r \in Requests
  PROVE  /\ pc[r] # "idle" => pc'[r] # "idle" /\ req'[r] = req[r]
         /\ pc'[r] = "idle" => pc[r] = "idle" /\ req'[r] = req[r]
         /\ pc[r] \in Finished => pc'[r] = pc[r]
<1>. USE DEF TypeOK, Goto, Finish, Finished, Open
<1>1. CASE Still(r)
  BY <1>1 DEF Still
<1>2. CASE Start(r)
  BY <1>2 DEF Start, StartUpdate, StartAppointment
<1>3. CASE Begin(r) \/ NextInput(r) \/ Upsert(r) \/ LogUpdate(r)
  BY <1>3 DEF Begin, NextInput, Upsert, LogUpdate
<1>4. CASE FindUser(r) \/ UpdateRole(r) \/ LogRole(r) \/ PostNotice(r)
  BY <1>4 DEF FindUser, UpdateRole, LogRole, PostNotice, db
<1>5. CASE Abort(r) \/ \E outcome \in Finished : Commit(r, outcome)
  BY <1>5 DEF Abort, Commit
<1>. QED
  BY <1>1, <1>2, <1>3, <1>4, <1>5, StepsFor DEF Step

LEMMA ShapeStep == TypeOK /\ Shape /\ [Next]_vars => Shape'
<1>. SUFFICES ASSUME TypeOK, Shape, [Next]_vars, NEW r \in Requests
              PROVE
    /\ pc'[r] = "idle" => req'[r] = NoReq
    /\ pc'[r] \in {"next", "upsert", "log"} => req'[r] \in UpdateReq
    /\ pc'[r] \in {"find", "update", "logRole", "post"} => req'[r] \in AppointReq
    /\ pc'[r] \in {"begin", "commit"} => req'[r] \in UpdateReq \cup AppointReq
    /\ pc'[r] = "next" => done'[r] <= Len(req'[r].inputs)
    /\ pc'[r] \in {"upsert", "log"} =>
         done'[r] < Len(req'[r].inputs) /\ req'[r].inputs[done'[r] + 1].cell[1] # SystemAdmin
    /\ pc'[r] \notin Open =>
         done'[r] = 0 /\ DOMAIN writes'[r] = {} /\ entries'[r] = <<>> /\ posted'[r] = {}
  BY DEF Shape, IsFixed
<1>0. TypeOK
  OBVIOUS
<1>1. CASE Still(r)
  BY <1>1 DEF Still, Shape, IsFixed
<1>. USE DEF TypeOK, Goto
<1>2. CASE Start(r)
  <2>1. ASSUME NEW scope \in Scopes, NEW inputs \in Batches, StartUpdate(r, scope, inputs)
        PROVE  /\ pc[r] = "idle" /\ pc'[r] = "begin" /\ req'[r] \in UpdateReq
               /\ UNCHANGED <<done, writes, entries, posted>>
    BY <2>1 DEF StartUpdate, UpdateReq, tx
  <2>2. ASSUME NEW u \in Users, NEW new \in Roles, StartAppointment(r, u, new)
        PROVE  /\ pc[r] = "idle" /\ pc'[r] = "begin" /\ req'[r] \in AppointReq
               /\ UNCHANGED <<done, writes, entries, posted>>
    BY <2>2 DEF StartAppointment, AppointReq, tx
  <2>. QED
    BY <1>2, <2>1, <2>2 DEF Start, Shape, Open
<1>3. CASE Begin(r)
  <2>1. /\ pc[r] = "begin" /\ pc'[r] = IF req[r].op = "update" THEN "next" ELSE "find"
        /\ UNCHANGED <<req, done>>
    BY <1>3 DEF Begin, tx
  <2>2. req[r] \in UpdateReq \/ req[r] \in AppointReq
    BY <2>1 DEF Shape
  <2>3. req[r] \in UpdateReq => Len(req[r].inputs) \in Nat /\ req[r].op = "update"
    BY Catalogue DEF UpdateReq
  <2>4. req[r] \in AppointReq => req[r].op = "appoint"
    BY DEF AppointReq
  <2>5. done[r] = 0
    BY <2>1 DEF Shape, Open
  <2>. QED
    BY <2>1, <2>2, <2>3, <2>4, <2>5 DEF Open
<1>4. CASE NextInput(r)
  <2>1. req[r] \in UpdateReq /\ req[r].inputs \in Seq(Input) /\ done[r] <= Len(req[r].inputs)
    BY <1>4, <1>0, Asked DEF NextInput, Shape
  <2>2. /\ pc[r] = "next" /\ UNCHANGED req
        /\ \/ pc'[r] = "commit"
           \/ done[r] < Len(req[r].inputs) /\ done'[r] = done[r] + 1 /\ pc'[r] = "next"
           \/ /\ done[r] < Len(req[r].inputs) /\ ~IsFixed(r, done[r] + 1)
              /\ done'[r] = done[r] /\ pc'[r] = "upsert"
    BY <1>4 DEF NextInput, db
  <2>. QED
    BY <2>1, <2>2 DEF Open, IsFixed
<1>5. CASE Upsert(r)
  BY <1>5 DEF Upsert, Shape, Open, IsFixed
<1>6. CASE LogUpdate(r)
  <2>1. req[r] \in UpdateReq /\ req[r].inputs \in Seq(Input) /\ done[r] < Len(req[r].inputs)
    BY <1>6, <1>0, Asked DEF LogUpdate, Shape
  <2>2. done'[r] = done[r] + 1 /\ pc'[r] = "next" /\ UNCHANGED req
    BY <1>6 DEF LogUpdate
  <2>. QED
    BY <2>1, <2>2 DEF Open
<1>7. CASE FindUser(r)
  <2>1. CASE Finish(r, "error")
    BY <1>7, <2>1, <1>0, Ended DEF FindUser, Open, Finished
  <2>2. CASE ~Finish(r, "error")
    BY <1>7, <2>2 DEF FindUser, Shape, Open
  <2>. QED
    BY <2>1, <2>2
<1>8. CASE UpdateRole(r)
  BY <1>8 DEF UpdateRole, Shape, Open
<1>9. CASE LogRole(r)
  BY <1>9 DEF LogRole, Shape, Open
<1>10. CASE PostNotice(r)
  BY <1>10 DEF PostNotice, Shape, Open
<1>11. CASE Abort(r) \/ \E outcome \in Finished : Commit(r, outcome)
  <2>1. \E outcome \in Finished : Finish(r, outcome)
    BY <1>11 DEF Abort, Commit, Finished
  <2>. QED
    BY <2>1, <1>0, Ended DEF Open, Finished
<1>. QED
  BY <1>0, <1>1, <1>2, <1>3, <1>4, <1>5, <1>6, <1>7, <1>8, <1>9, <1>10, <1>11, StepsFor DEF Step

LEMMA WritesFrame ==
  ASSUME TypeOK, [Next]_vars, NEW r \in Requests
  PROVE  writes'[r] = writes[r] \/ DOMAIN writes'[r] = {} \/ Upsert(r) \/ UpdateRole(r)
<1>1. CASE Still(r) \/ Start(r)
  BY <1>1 DEF Still, Start, StartUpdate, StartAppointment, tx
<1>2. CASE Begin(r) \/ NextInput(r) \/ LogUpdate(r) \/ LogRole(r) \/ PostNotice(r)
  BY <1>2 DEF Begin, NextInput, LogUpdate, LogRole, PostNotice, tx
<1>3. CASE FindUser(r)
  BY <1>3, Ended DEF FindUser, Finished
<1>4. CASE Abort(r) \/ \E outcome \in Finished : Commit(r, outcome)
  BY <1>4, Ended DEF Abort, Commit, Finished
<1>. QED
  BY <1>1, <1>2, <1>3, <1>4, StepsFor DEF Step

LEMMA WritesStep == TypeOK /\ Shape /\ WritesFit /\ [Next]_vars => WritesFit'
<1>. SUFFICES ASSUME TypeOK, Shape, WritesFit, [Next]_vars,
                     NEW r \in Requests, NEW k \in DOMAIN writes'[r]
              PROVE
    \/ /\ req'[r] \in UpdateReq
       /\ k \in Rows /\ k[1] = req'[r].scope /\ k[2][1] # SystemAdmin /\ writes'[r][k] \in Grants
    \/ req'[r] \in AppointReq /\ k = req'[r].user /\ writes'[r][k] = req'[r].role
  BY DEF WritesFit
<1>1. CASE writes'[r] = writes[r]
  <2>1. pc[r] # "idle"
    BY <1>1 DEF Shape, Open
  <2>. QED
    BY <1>1, <2>1, RequestsFrame DEF WritesFit
<1>2. CASE Upsert(r)
  <2>. DEFINE i == done[r] + 1
  <2>1. /\ pc[r] = "upsert" /\ req'[r] = req[r]
        /\ Write(r, RowOf(r, i), req[r].inputs[i].grant)
    BY <1>2 DEF Upsert
  <2>2. /\ req[r] \in UpdateReq /\ ~IsFixed(r, i) /\ RowOf(r, i) \in Rows
        /\ req[r].inputs[i].grant \in Grants
    BY <2>1, Asked DEF Shape
  <2>3. RowOf(r, i)[1] = req[r].scope /\ RowOf(r, i)[2][1] # SystemAdmin
    BY <2>2 DEF RowOf, IsFixed
  <2>4. CASE k = RowOf(r, i)
    BY <2>1, <2>2, <2>3, <2>4, Written
  <2>5. CASE k # RowOf(r, i)
    <3>1. k \in DOMAIN writes[r] /\ writes'[r][k] = writes[r][k]
      BY <2>1, <2>5, Written
    <3>. QED
      BY <2>1, <3>1 DEF WritesFit
  <2>. QED
    BY <2>4, <2>5
<1>3. CASE UpdateRole(r)
  <2>1. pc[r] = "update" /\ req'[r] = req[r] /\ Write(r, req[r].user, req[r].role)
    BY <1>3 DEF UpdateRole
  <2>2. req[r] \in AppointReq
    BY <2>1 DEF Shape
  <2>3. CASE k = req[r].user
    BY <2>1, <2>2, <2>3, Written
  <2>4. CASE k # req[r].user
    <3>1. k \in DOMAIN writes[r] /\ writes'[r][k] = writes[r][k]
      BY <2>1, <2>4, Written
    <3>. QED
      BY <2>1, <3>1 DEF WritesFit
  <2>. QED
    BY <2>3, <2>4
<1>. QED
  BY <1>1, <1>2, <1>3, WritesFrame

\* A new entry is the last one about its row, and changes nothing for the others.
LEMMA AppendedLast ==
  ASSUME NEW s \in Seq(LogEntry), NEW e \in LogEntry
  PROVE  LastAbout(Append(s, e), Len(s) + 1, e.row) /\ Append(s, e)[Len(s) + 1] = e
<1>1. /\ DOMAIN Append(s, e) = 1..(Len(s) + 1) /\ Len(s) \in Nat
      /\ Append(s, e)[Len(s) + 1] = e
  OBVIOUS
<1>. QED
  BY <1>1 DEF LastAbout

LEMMA Appended ==
  ASSUME NEW s \in Seq(LogEntry), NEW e \in LogEntry, NEW k
  PROVE  /\ \A i \in DOMAIN s : k # e.row /\ LastAbout(s, i, k) =>
              LastAbout(Append(s, e), i, k) /\ Append(s, e)[i] = s[i]
         /\ \A i \in DOMAIN Append(s, e) : Append(s, e)[i] = e \/ (i \in DOMAIN s /\ Append(s, e)[i] = s[i])
<1>1. /\ DOMAIN Append(s, e) = 1..(Len(s) + 1) /\ DOMAIN s = 1..Len(s) /\ Len(s) \in Nat
      /\ Append(s, e)[Len(s) + 1] = e
      /\ \A i \in 1..Len(s) : Append(s, e)[i] = s[i]
  OBVIOUS
<1>. QED
  BY <1>1 DEF LastAbout

LEMMA LoggedStep == TypeOK /\ Shape /\ WritesFit /\ Logged /\ [Next]_vars => Logged'
<1>. SUFFICES ASSUME TypeOK, Shape, WritesFit, Logged, [Next]_vars, NEW r \in Requests
              PROVE
    /\ \A i \in DOMAIN entries'[r] : entries'[r][i].row \in DOMAIN writes'[r] /\ entries'[r][i].by = r
    /\ pc'[r] = "log" => /\ Current(r)' \in DOMAIN writes'[r]
                         /\ writes'[r][Current(r)'] = req'[r].inputs[done'[r] + 1].grant
    /\ pc'[r] = "logRole" => req'[r].user \in DOMAIN writes'[r]
    /\ \A k \in DOMAIN writes'[r] :
         \/ pc'[r] = "log" /\ k = Current(r)'
         \/ pc'[r] = "logRole" /\ k = req'[r].user
         \/ \E i \in DOMAIN entries'[r] :
              LastAbout(entries'[r], i, k) /\ entries'[r][i].after = writes'[r][k]
  BY DEF Logged, LastAbout
<1>1. CASE Still(r)
  BY <1>1 DEF Still, Logged, Current, RowOf
<1>2. CASE pc'[r] \notin Open
  <2>1. DOMAIN writes'[r] = {} /\ entries'[r] = <<>>
    BY <1>2, ShapeStep DEF Shape
  <2>. QED
    BY <1>2, <2>1 DEF Open
<1>3. CASE Begin(r) \/ NextInput(r) \/ PostNotice(r)
  <2>1. UNCHANGED <<writes, entries>> /\ pc[r] \notin {"log", "logRole"} /\ pc'[r] \notin {"log", "logRole"}
    BY <1>3 DEF Begin, NextInput, PostNotice, Goto, tx, TypeOK
  <2>. QED
    BY <2>1 DEF Logged
<1>4. CASE FindUser(r) /\ pc'[r] \in Open
  <2>1. UNCHANGED <<writes, entries>> /\ pc[r] = "find" /\ pc'[r] = "update"
    BY <1>4 DEF FindUser, Finish, Goto, TypeOK, Open
  <2>. QED
    BY <2>1 DEF Logged
<1>5. ASSUME NEW k, NEW v, Write(r, k, v), UNCHANGED entries, pc[r] \notin {"log", "logRole"}
      PROVE  /\ k \in DOMAIN writes'[r] /\ writes'[r][k] = v
             /\ \A i \in DOMAIN entries'[r] :
                  entries'[r][i].row \in DOMAIN writes'[r] /\ entries'[r][i].by = r
             /\ \A x \in DOMAIN writes'[r] : x = k \/ \E i \in DOMAIN entries'[r] :
                  LastAbout(entries'[r], i, x) /\ entries'[r][i].after = writes'[r][x]
  BY <1>5, Written DEF Logged
<1>6. CASE Upsert(r)
  <2>1. /\ Write(r, Current(r), req[r].inputs[done[r] + 1].grant)
        /\ UNCHANGED <<entries, done, req>> /\ pc[r] = "upsert" /\ pc'[r] = "log"
    BY <1>6 DEF Upsert, Current, Goto, TypeOK
  <2>2. Current(r)' = Current(r)
    BY <2>1 DEF Current, RowOf
  <2>. QED
    BY <2>1, <2>2, <1>5
<1>7. CASE UpdateRole(r)
  <2>1. /\ Write(r, req[r].user, req[r].role)
        /\ UNCHANGED <<entries, req>> /\ pc[r] = "update" /\ pc'[r] = "logRole"
    BY <1>7 DEF UpdateRole, Goto, TypeOK
  <2>. QED
    BY <2>1, <1>5
<1>8. ASSUME NEW k \in DOMAIN writes[r], NEW v \in Grants \cup Roles,
             writes[r][k] = v, UNCHANGED writes,
             entries' = [entries EXCEPT ![r] = Append(@, Entry(r, k, v))],
             \A x \in DOMAIN writes[r] : x = k \/ \E i \in DOMAIN entries[r] :
               LastAbout(entries[r], i, x) /\ entries[r][i].after = writes[r][x]
      PROVE  /\ \A i \in DOMAIN entries'[r] :
                  entries'[r][i].row \in DOMAIN writes'[r] /\ entries'[r][i].by = r
             /\ \A x \in DOMAIN writes'[r] : \E i \in DOMAIN entries'[r] :
                  LastAbout(entries'[r], i, x) /\ entries'[r][i].after = writes'[r][x]
  <2>. DEFINE e == Entry(r, k, v)
  <2>1. /\ e \in LogEntry /\ entries[r] \in Seq(LogEntry) /\ e.row = k /\ e.after = v /\ e.by = r
        /\ entries'[r] = Append(entries[r], e)
    <3>1. k \in Rows \cup Users
      BY DEF TypeOK
    <3>. QED
      BY <1>8, <3>1, EntryTyped DEF TypeOK, Entry
  <2>. HIDE DEF e
  <2>2. \A i \in DOMAIN entries'[r] : entries'[r][i].row \in DOMAIN writes'[r] /\ entries'[r][i].by = r
    BY <1>8, <2>1, Appended DEF Logged
  <2>3. LastAbout(entries'[r], Len(entries[r]) + 1, k) /\ entries'[r][Len(entries[r]) + 1] = e
    <3>1. /\ LastAbout(Append(entries[r], e), Len(entries[r]) + 1, k)
          /\ Append(entries[r], e)[Len(entries[r]) + 1] = e
      BY <2>1, AppendedLast
    <3>. QED
      BY <2>1, <3>1
  <2>4. ASSUME NEW x \in DOMAIN writes[r], x # k
        PROVE  \E i \in DOMAIN entries'[r] :
                 LastAbout(entries'[r], i, x) /\ entries'[r][i].after = writes'[r][x]
    <3>1. PICK i \in DOMAIN entries[r] :
            LastAbout(entries[r], i, x) /\ entries[r][i].after = writes[r][x]
      BY <1>8, <2>4
    <3>2. LastAbout(entries'[r], i, x) /\ entries'[r][i] = entries[r][i]
      BY <2>1, <2>4, <3>1, Appended
    <3>. QED
      BY <1>8, <3>1, <3>2 DEF LastAbout
  <2>. QED
    BY <1>8, <2>1, <2>2, <2>3, <2>4 DEF LastAbout
<1>9. CASE LogUpdate(r)
  <2>. DEFINE v == req[r].inputs[done[r] + 1].grant
  <2>1. /\ pc[r] = "log" /\ pc'[r] = "next" /\ UNCHANGED writes
        /\ entries' = [entries EXCEPT ![r] = Append(@, Entry(r, Current(r), v))]
    BY <1>9 DEF LogUpdate, Current, Goto, TypeOK
  <2>2. Current(r) \in DOMAIN writes[r] /\ writes[r][Current(r)] = v /\ v \in Grants
    BY <2>1, Asked DEF Logged, Shape
  <2>3. \A x \in DOMAIN writes[r] : x = Current(r) \/ \E i \in DOMAIN entries[r] :
          LastAbout(entries[r], i, x) /\ entries[r][i].after = writes[r][x]
    BY <2>1 DEF Logged
  <2>. HIDE DEF v
  <2>. QED
    BY <2>1, <2>2, <2>3, <1>8
<1>10. CASE LogRole(r)
  <2>1. /\ pc[r] = "logRole" /\ pc'[r] = "post" /\ UNCHANGED writes
        /\ entries' = [entries EXCEPT ![r] = Append(@, Entry(r, req[r].user, req[r].role))]
    BY <1>10 DEF LogRole, Goto, TypeOK
  <2>2. /\ req[r].user \in DOMAIN writes[r] /\ writes[r][req[r].user] = req[r].role
        /\ req[r].role \in Roles
    <3>1. req[r].user \in DOMAIN writes[r] /\ req[r].role \in Roles /\ req[r] \in AppointReq
      BY <2>1, Asked DEF Logged, Shape
    <3>. QED
      BY <3>1 DEF WritesFit, UpdateReq, AppointReq
  <2>3. \A x \in DOMAIN writes[r] : x = req[r].user \/ \E i \in DOMAIN entries[r] :
          LastAbout(entries[r], i, x) /\ entries[r][i].after = writes[r][x]
    BY <2>1 DEF Logged
  <2>. QED
    BY <2>1, <2>2, <2>3, <1>8
<1>11. Start(r) \/ Abort(r) \/ (\E outcome \in Finished : Commit(r, outcome)) \/ FindUser(r)
       => pc'[r] \notin Open \/ (FindUser(r) /\ pc'[r] \in Open)
  BY DEF Start, StartUpdate, StartAppointment, Abort, Commit, Finish, Goto, Open, Finished, TypeOK
<1>. QED
  BY <1>1, <1>2, <1>3, <1>4, <1>6, <1>7, <1>9, <1>10, <1>11, StepsFor DEF Step

-----------------------------------------------------------------------------
(* The log *)

\* Only a commit writes the matrix, the log and the notices.
LEMMA LogFrame ==
  ASSUME [Next]_vars
  PROVE  \/ UNCHANGED <<perm, log, notices>>
         \/ \E r \in Requests, outcome \in Finished : Commit(r, outcome)
<1>1. ASSUME NEW r \in Requests, Start(r)
      PROVE  UNCHANGED <<perm, log, notices>>
  BY <1>1 DEF Start, StartUpdate, StartAppointment, db
<1>2. ASSUME NEW r \in Requests,
             \/ Begin(r) \/ NextInput(r) \/ Upsert(r) \/ LogUpdate(r) \/ FindUser(r)
             \/ UpdateRole(r) \/ LogRole(r) \/ PostNotice(r) \/ Abort(r)
      PROVE  UNCHANGED <<perm, log, notices>>
  BY <1>2 DEF Begin, NextInput, Upsert, LogUpdate, FindUser, UpdateRole, LogRole, PostNotice, Abort, db
<1>. QED
  BY <1>1, <1>2, StepsOf DEF Step

\* The log after a commit: what it was, then the entries of the transaction.
LEMMA Concatenated ==
  ASSUME NEW s \in Seq(LogEntry), NEW t \in Seq(LogEntry)
  PROVE  /\ \A i \in DOMAIN (s \o t) : \/ i \in DOMAIN s /\ (s \o t)[i] = s[i]
                                       \/ \E j \in DOMAIN t : i = Len(s) + j /\ (s \o t)[i] = t[j]
         /\ \A i \in DOMAIN s : i \in DOMAIN (s \o t) /\ (s \o t)[i] = s[i] /\ i <= Len(s)
         /\ \A j \in DOMAIN t : Len(s) + j \in DOMAIN (s \o t) /\ (s \o t)[Len(s) + j] = t[j]
         /\ \A j \in DOMAIN t : j > 0 /\ j \in Nat
         /\ Len(s) \in Nat /\ \A i \in DOMAIN s : i \in Nat
<1>1. /\ DOMAIN (s \o t) = 1..(Len(s) + Len(t)) /\ DOMAIN s = 1..Len(s) /\ DOMAIN t = 1..Len(t)
      /\ Len(s) \in Nat /\ Len(t) \in Nat
      /\ \A i \in 1..(Len(s) + Len(t)) : (s \o t)[i] = IF i <= Len(s) THEN s[i] ELSE t[i - Len(s)]
  OBVIOUS
<1>2. ASSUME NEW i \in DOMAIN (s \o t), i \notin DOMAIN s
      PROVE  \E j \in DOMAIN t : i = Len(s) + j /\ (s \o t)[i] = t[j]
  <2>1. i - Len(s) \in DOMAIN t /\ i = Len(s) + (i - Len(s)) /\ (s \o t)[i] = t[i - Len(s)]
    BY <1>1, <1>2
  <2>. QED
    BY <2>1
<1>3. ASSUME NEW j \in DOMAIN t
      PROVE  Len(s) + j \in DOMAIN (s \o t) /\ (s \o t)[Len(s) + j] = t[j]
  <2>1. (Len(s) + j) - Len(s) = j /\ Len(s) + j > Len(s) /\ Len(s) + j \in 1..(Len(s) + Len(t))
    BY <1>1, <1>3
  <2>. QED
    BY <1>1, <2>1
<1>. QED
  BY <1>1, <1>2, <1>3

LEMMA LastOfConcat ==
  ASSUME NEW s \in Seq(LogEntry), NEW t \in Seq(LogEntry), NEW k
  PROVE  /\ \A j \in DOMAIN t : LastAbout(t, j, k) => LastAbout(s \o t, Len(s) + j, k)
         /\ (\A j \in DOMAIN t : t[j].row # k) =>
              \A i \in DOMAIN s : LastAbout(s, i, k) => LastAbout(s \o t, i, k)
<1>1. ASSUME NEW j \in DOMAIN t, LastAbout(t, j, k)
      PROVE  LastAbout(s \o t, Len(s) + j, k)
  BY <1>1, Concatenated DEF LastAbout
<1>2. ASSUME \A j \in DOMAIN t : t[j].row # k, NEW i \in DOMAIN s, LastAbout(s, i, k)
      PROVE  LastAbout(s \o t, i, k)
  BY <1>2, Concatenated DEF LastAbout
<1>. QED
  BY <1>1, <1>2

LEMMA MatrixStep ==
  TypeOK /\ Shape /\ WritesFit /\ Logged /\ LogTellsMatrix /\ [Next]_vars => LogTellsMatrix'
<1>. SUFFICES ASSUME TypeOK, Shape, WritesFit, Logged, LogTellsMatrix, [Next]_vars, NEW k \in Rows
              PROVE  \/ (\A i \in DOMAIN log' : log'[i].row # k) /\ perm'[k] = InitialRow(k)
                     \/ \E i \in DOMAIN log' : LastAbout(log', i, k) /\ perm'[k] = log'[i].after
  BY DEF LogTellsMatrix, Of, LastAbout, InitialRow
<1>1. \/ (\A i \in DOMAIN log : log[i].row # k) /\ perm[k] = InitialRow(k)
      \/ \E i \in DOMAIN log : LastAbout(log, i, k) /\ perm[k] = log[i].after
  BY DEF LogTellsMatrix, Of, LastAbout
<1>2. CASE UNCHANGED <<perm, log, notices>>
  BY <1>1, <1>2
<1>3. ASSUME NEW r \in Requests, NEW outcome \in Finished, Commit(r, outcome)
      PROVE  \/ (\A i \in DOMAIN log' : log'[i].row # k) /\ perm'[k] = InitialRow(k)
             \/ \E i \in DOMAIN log' : LastAbout(log', i, k) /\ perm'[k] = log'[i].after
  <2>1. /\ pc[r] = "commit" /\ log' = log \o entries[r]
        /\ perm'[k] = IF k \in DOMAIN writes[r] THEN writes[r][k] ELSE perm[k]
        /\ log \in Seq(LogEntry) /\ entries[r] \in Seq(LogEntry)
    BY <1>3 DEF Commit, TypeOK
  <2>2. CASE k \in DOMAIN writes[r]
    <3>1. PICK j \in DOMAIN entries[r] :
            LastAbout(entries[r], j, k) /\ entries[r][j].after = writes[r][k]
      BY <2>1, <2>2 DEF Logged
    <3>2. LastAbout(log', Len(log) + j, k)
      BY <2>1, <3>1, LastOfConcat
    <3>3. Len(log) + j \in DOMAIN log' /\ log'[Len(log) + j] = entries[r][j]
      BY <2>1, Concatenated
    <3>. QED
      BY <2>1, <2>2, <3>1, <3>2, <3>3
  <2>3. CASE k \notin DOMAIN writes[r]
    <3>1. \A j \in DOMAIN entries[r] : entries[r][j].row # k
      BY <2>3 DEF Logged
    <3>2. CASE (\A i \in DOMAIN log : log[i].row # k) /\ perm[k] = InitialRow(k)
      BY <2>1, <2>3, <3>1, <3>2, Concatenated
    <3>3. ASSUME NEW i \in DOMAIN log, LastAbout(log, i, k), perm[k] = log[i].after
          PROVE  \E h \in DOMAIN log' : LastAbout(log', h, k) /\ perm'[k] = log'[h].after
      <4>1. LastAbout(log', i, k)
        BY <2>1, <3>1, <3>3, LastOfConcat
      <4>2. i \in DOMAIN log' /\ log'[i] = log[i]
        BY <2>1, <3>3, Concatenated
      <4>3. perm'[k] = perm[k]
        BY <2>1, <2>3
      <4>. QED
        BY <3>3, <4>1, <4>2, <4>3
    <3>. QED
      BY <1>1, <3>2, <3>3
  <2>. QED
    BY <2>2, <2>3
<1>. QED
  BY <1>2, <1>3, LogFrame

\* Nobody holds a role that no entry and no edit explains.
RolesExplained ==
  \A u \in Users : \/ role[u] = RoleOf[u]
                   \/ <<u, role[u]>> \in edited
                   \/ \E i \in DOMAIN log : log[i].row = u /\ log[i].after = role[u]

LEMMA RolesStep ==
  TypeOK /\ Shape /\ WritesFit /\ Logged /\ RolesExplained /\ [Next]_vars => RolesExplained'
<1>. SUFFICES ASSUME TypeOK, Shape, WritesFit, Logged, RolesExplained, [Next]_vars, NEW u \in Users
              PROVE  \/ role'[u] = RoleOf[u]
                     \/ <<u, role'[u]>> \in edited'
                     \/ \E i \in DOMAIN log' : log'[i].row = u /\ log'[i].after = role'[u]
  BY DEF RolesExplained
<1>1. ASSUME role'[u] = role[u], edited \subseteq edited', UNCHANGED log
      PROVE  \/ role'[u] = RoleOf[u]
             \/ <<u, role'[u]>> \in edited'
             \/ \E i \in DOMAIN log' : log'[i].row = u /\ log'[i].after = role'[u]
  BY <1>1 DEF RolesExplained
<1>2. ASSUME NEW e \in Edits, EditRole(e[1], e[2])
      PROVE  (role'[u] = role[u] /\ edited \subseteq edited' /\ UNCHANGED log) \/ <<u, role'[u]>> \in edited'
  BY <1>2 DEF EditRole, TypeOK
<1>3. ASSUME NEW v \in Users, NEW b \in BOOLEAN, SetActive(v, b)
      PROVE  role'[u] = role[u] /\ edited \subseteq edited' /\ UNCHANGED log
  BY <1>3 DEF SetActive
<1>4. ASSUME NEW r \in Requests, NEW outcome \in Finished, Commit(r, outcome)
      PROVE  \/ role'[u] = RoleOf[u]
             \/ <<u, role'[u]>> \in edited'
             \/ \E i \in DOMAIN log' : log'[i].row = u /\ log'[i].after = role'[u]
  <2>1. /\ pc[r] = "commit" /\ log' = log \o entries[r] /\ edited' = edited
        /\ role'[u] = IF u \in DOMAIN writes[r] THEN writes[r][u] ELSE role[u]
        /\ log \in Seq(LogEntry) /\ entries[r] \in Seq(LogEntry)
    BY <1>4 DEF Commit, TypeOK
  <2>2. CASE u \in DOMAIN writes[r]
    <3>1. PICK j \in DOMAIN entries[r] :
            LastAbout(entries[r], j, u) /\ entries[r][j].after = writes[r][u]
      BY <2>1, <2>2 DEF Logged
    <3>2. Len(log) + j \in DOMAIN log' /\ log'[Len(log) + j] = entries[r][j]
      BY <2>1, Concatenated
    <3>. QED
      BY <2>1, <2>2, <3>1, <3>2 DEF LastAbout
  <2>3. CASE u \notin DOMAIN writes[r]
    BY <2>1, <2>3, Concatenated DEF RolesExplained
  <2>. QED
    BY <2>2, <2>3
<1>5. ASSUME NEW r \in Requests, Start(r) \/ (Step(r) /\ ~\E outcome \in Finished : Commit(r, outcome))
      PROVE  UNCHANGED <<role, edited, log>>
  <2>1. CASE Start(r)
    BY <2>1 DEF Start, StartUpdate, StartAppointment, db
  <2>2. CASE Begin(r) \/ NextInput(r) \/ Upsert(r) \/ LogUpdate(r)
    BY <2>2 DEF Begin, NextInput, Upsert, LogUpdate, db
  <2>3. CASE FindUser(r) \/ UpdateRole(r) \/ LogRole(r) \/ PostNotice(r) \/ Abort(r)
    BY <2>3 DEF FindUser, UpdateRole, LogRole, PostNotice, Abort, db
  <2>. QED
    BY <1>5, <2>1, <2>2, <2>3 DEF Step
<1>6. CASE UNCHANGED vars
  BY <1>1, <1>6 DEF vars, db
<1>7. CASE \E r \in Requests : Start(r) \/ Step(r)
  BY <1>1, <1>4, <1>5, <1>7
<1>8. CASE Next /\ ~\E r \in Requests : Start(r) \/ Step(r)
  BY <1>1, <1>2, <1>3, <1>8, DeadlockEnds DEF Next, Start, Step, Proceed
<1>. QED
  BY <1>6, <1>7, <1>8

-----------------------------------------------------------------------------
(* Appointments *)

\* Only a commit is acknowledged.
LEMMA OnlyCommitsAcknowledged ==
  ASSUME TypeOK, [Next]_vars, NEW r \in Requests, pc'[r] \in Finished, pc[r] \notin Finished
  PROVE  \/ \E outcome \in Finished : Commit(r, outcome) /\ pc'[r] = outcome
         \/ pc'[r] = "error"
<1>. USE DEF TypeOK, Goto, Finish, Finished
<1>1. CASE Still(r) \/ Start(r)
  BY <1>1 DEF Still, Start, StartUpdate, StartAppointment
<1>2. CASE Begin(r) \/ NextInput(r) \/ Upsert(r) \/ LogUpdate(r)
  BY <1>2 DEF Begin, NextInput, Upsert, LogUpdate
<1>3. CASE FindUser(r) \/ UpdateRole(r) \/ LogRole(r) \/ PostNotice(r)
  BY <1>3 DEF FindUser, UpdateRole, LogRole, PostNotice
<1>4. CASE Abort(r)
  BY <1>4 DEF Abort
<1>5. CASE \E outcome \in Finished : Commit(r, outcome)
  BY <1>5 DEF Commit
<1>. QED
  BY <1>1, <1>2, <1>3, <1>4, <1>5, StepsFor DEF Step

\* Entries and notices of a request are seen when it commits, or were before.
LEMMA SignsFrame ==
  ASSUME TypeOK, Logged, Appoints, [Next]_vars, NEW r \in Requests
  PROVE  \/ /\ (\E i \in DOMAIN log' : log'[i].by = r) <=> (\E i \in DOMAIN log : log[i].by = r)
            /\ \A n : n.by = r => (n \in notices' <=> n \in notices)
         \/ \E outcome \in Finished : Commit(r, outcome)
<1>1. CASE UNCHANGED <<perm, log, notices>>
  BY <1>1
<1>2. ASSUME NEW p \in Requests, NEW outcome \in Finished, Commit(p, outcome), p # r
      PROVE  /\ (\E i \in DOMAIN log' : log'[i].by = r) <=> (\E i \in DOMAIN log : log[i].by = r)
             /\ \A n : n.by = r => (n \in notices' <=> n \in notices)
  <2>1. /\ log' = log \o entries[p] /\ notices' = notices \cup posted[p]
        /\ log \in Seq(LogEntry) /\ entries[p] \in Seq(LogEntry)
    BY <1>2 DEF Commit, TypeOK
  <2>2. \A j \in DOMAIN entries[p] : entries[p][j].by # r
    BY <1>2 DEF Logged
  <2>3. \A n \in posted[p] : n.by # r
    BY <1>2 DEF Appoints
  <2>4. (\E i \in DOMAIN log' : log'[i].by = r) <=> (\E i \in DOMAIN log : log[i].by = r)
    BY <2>1, <2>2, Concatenated
  <2>. QED
    BY <2>1, <2>3, <2>4
<1>. QED
  BY <1>1, <1>2, LogFrame

LEMMA AppointsStep ==
  TypeOK /\ Shape /\ Logged /\ Appoints /\ [Next]_vars => Appoints'
<1>. SUFFICES ASSUME TypeOK, Shape, Logged, Appoints, [Next]_vars, NEW r \in Requests
              PROVE
    /\ \A n \in posted'[r] : n.by = r
    /\ pc'[r] \notin Finished => /\ \A i \in DOMAIN log' : log'[i].by # r
                                 /\ \A n \in notices' : n.by # r
    /\ req'[r] \in AppointReq =>
         /\ pc'[r] \in {"post", "commit"} => entries'[r] # <<>>
         /\ pc'[r] = "commit" =>
              AssocOf[req'[r].user] = None \/ [by |-> r, assoc |-> AssocOf[req'[r].user]] \in posted'[r]
         /\ posted'[r] # {} => entries'[r] # <<>> /\ pc'[r] = "commit"
  BY DEF Appoints
<1>1. pc'[r] \notin Finished => /\ \A i \in DOMAIN log' : log'[i].by # r
                                /\ \A n \in notices' : n.by # r
  <2>. SUFFICES ASSUME pc'[r] \notin Finished
                PROVE  (\A i \in DOMAIN log' : log'[i].by # r) /\ \A n \in notices' : n.by # r
    OBVIOUS
  <2>1. pc[r] \notin Finished
    BY RequestsFrame
  <2>2. ~\E outcome \in Finished : Commit(r, outcome)
    BY DEF Commit, Finish, Goto, TypeOK
  <2>3. (\A i \in DOMAIN log : log[i].by # r) /\ \A n \in notices : n.by # r
    BY <2>1 DEF Appoints
  <2>4. /\ (\E i \in DOMAIN log' : log'[i].by = r) <=> (\E i \in DOMAIN log : log[i].by = r)
        /\ \A n : n.by = r => (n \in notices' <=> n \in notices)
    BY <2>2, SignsFrame
  <2>. QED
    BY <2>3, <2>4
<1>2. CASE pc'[r] \notin Open
  <2>1. posted'[r] = {}
    BY <1>2, ShapeStep DEF Shape
  <2>2. pc'[r] \notin {"post", "commit"}
    BY <1>2 DEF Open
  <2>. QED
    BY <1>1, <2>1, <2>2
<1>3. CASE Still(r)
  BY <1>1, <1>3 DEF Still, Appoints
<1>4. CASE Begin(r) \/ NextInput(r) \/ Upsert(r) \/ LogUpdate(r)
  <2>1. posted'[r] = posted[r] /\ req'[r] = req[r] /\ pc[r] \in {"begin", "next", "upsert", "log"}
    BY <1>4 DEF Begin, NextInput, Upsert, LogUpdate, tx
  <2>2. pc[r] = "begin" \/ req[r] \notin AppointReq
    BY <2>1 DEF Shape, UpdateReq, AppointReq
  <2>3. pc[r] = "begin" => pc'[r] \in {"next", "find"} /\ posted[r] = {}
    BY <1>4 DEF Begin, NextInput, Upsert, LogUpdate, Goto, TypeOK, Shape, Open
  <2>. QED
    BY <1>1, <2>1, <2>2, <2>3 DEF Appoints
<1>5. CASE FindUser(r) \/ UpdateRole(r)
  <2>1. pc[r] \in {"find", "update"} /\ req[r] \in AppointReq /\ req'[r] = req[r]
    BY <1>5 DEF FindUser, UpdateRole, Shape
  <2>2. posted'[r] \in {posted[r], {}} /\ pc'[r] \in {"update", "logRole", "error"}
    BY <1>5 DEF FindUser, UpdateRole, Goto, Finish, TypeOK
  <2>3. posted[r] = {}
    BY <2>1 DEF Appoints
  <2>. QED
    BY <1>1, <2>2, <2>3
<1>6. CASE LogRole(r)
  <2>1. pc[r] = "logRole" /\ req[r] \in AppointReq /\ posted'[r] = posted[r] /\ pc'[r] = "post"
    BY <1>6 DEF LogRole, Shape, Goto, TypeOK
  <2>2. entries'[r] = Append(entries[r], Entry(r, req[r].user, req[r].role)) /\ entries[r] \in Seq(LogEntry)
    BY <1>6 DEF LogRole, TypeOK
  <2>3. entries'[r] # <<>>
    BY <2>2
  <2>4. posted[r] = {}
    BY <2>1 DEF Appoints
  <2>. QED
    BY <1>1, <2>1, <2>3, <2>4
<1>7. CASE PostNotice(r)
  <2>1. /\ pc[r] = "post" /\ req[r] \in AppointReq /\ req'[r] = req[r]
        /\ entries'[r] = entries[r] /\ pc'[r] = "commit"
    BY <1>7 DEF PostNotice, Shape, Goto, TypeOK
  <2>2. posted'[r] = IF AssocOf[req[r].user] = None THEN posted[r]
                     ELSE posted[r] \cup {[by |-> r, assoc |-> AssocOf[req[r].user]]}
    BY <1>7 DEF PostNotice, TypeOK
  <2>3. entries[r] # <<>> /\ \A n \in posted[r] : n.by = r
    BY <2>1 DEF Appoints
  <2>. QED
    BY <1>1, <2>1, <2>2, <2>3
<1>8. Start(r) \/ Abort(r) \/ (\E outcome \in Finished : Commit(r, outcome)) => pc'[r] \notin Open
  BY DEF Start, StartUpdate, StartAppointment, Abort, Commit, Finish, Goto, Open, Finished, TypeOK
<1>. QED
  BY <1>2, <1>3, <1>4, <1>5, <1>6, <1>7, <1>8, StepsFor DEF Step

LEMMA AppointmentsStep ==
  IInv /\ [Next]_vars => AppointmentsRecorded'
<1>. SUFFICES ASSUME IInv, [Next]_vars PROVE AppointmentsRecorded'
  OBVIOUS
<1>. USE DEF IInv
<1>1. RolesExplained'
  BY RolesStep DEF RolesExplained, AppointmentsRecorded
<1>2. ASSUME NEW r \in Requests, req'[r].op = "appoint"
      PROVE  /\ (\E i \in DOMAIN log' : log'[i].by = r) =>
                  \/ AssocOf[req'[r].user] = None
                  \/ [by |-> r, assoc |-> AssocOf[req'[r].user]] \in notices'
             /\ (\E n \in notices' : n.by = r) => \E i \in DOMAIN log' : log'[i].by = r
             /\ pc'[r] = "ok" => \E i \in DOMAIN log' : log'[i].by = r
  <2>1. ASSUME NEW outcome \in Finished, Commit(r, outcome)
        PROVE  /\ \E i \in DOMAIN log' : log'[i].by = r
               /\ \/ AssocOf[req'[r].user] = None
                  \/ [by |-> r, assoc |-> AssocOf[req'[r].user]] \in notices'
    <3>1. /\ pc[r] = "commit" /\ log' = log \o entries[r] /\ notices' = notices \cup posted[r]
          /\ req' = req /\ log \in Seq(LogEntry) /\ entries[r] \in Seq(LogEntry)
      BY <2>1 DEF Commit, TypeOK
    <3>2. req[r] \in AppointReq
      BY <1>2, <3>1 DEF Shape, UpdateReq
    <3>3. entries[r] # <<>> /\ (AssocOf[req[r].user] = None
                                \/ [by |-> r, assoc |-> AssocOf[req[r].user]] \in posted[r])
      BY <3>1, <3>2 DEF Appoints
    <3>4. 1 \in DOMAIN entries[r]
      BY <3>1, <3>3
    <3>5. entries[r][1].by = r
      BY <3>4 DEF Logged
    <3>6. Len(log) + 1 \in DOMAIN log' /\ log'[Len(log) + 1] = entries[r][1]
      BY <3>1, <3>4, Concatenated
    <3>7. \E i \in DOMAIN log' : log'[i].by = r
      BY <3>5, <3>6
    <3>. QED
      BY <3>1, <3>3, <3>7
  <2>2. ASSUME ~\E outcome \in Finished : Commit(r, outcome)
        PROVE  /\ (\E i \in DOMAIN log' : log'[i].by = r) <=> (\E i \in DOMAIN log : log[i].by = r)
               /\ \A n : n.by = r => (n \in notices' <=> n \in notices)
    BY <2>2, SignsFrame
  <2>3. CASE pc[r] \in Finished /\ ~\E outcome \in Finished : Commit(r, outcome)
    <3>1. req'[r] = req[r] /\ pc'[r] = pc[r]
      BY <2>3, RequestsFrame DEF Finished
    <3>2. /\ (\E i \in DOMAIN log : log[i].by = r) =>
               \/ AssocOf[req[r].user] = None
               \/ [by |-> r, assoc |-> AssocOf[req[r].user]] \in notices
          /\ (\E n \in notices : n.by = r) => \E i \in DOMAIN log : log[i].by = r
          /\ pc[r] = "ok" => \E i \in DOMAIN log : log[i].by = r
      BY <1>2, <3>1 DEF AppointmentsRecorded
    <3>3. [by |-> r, assoc |-> AssocOf[req[r].user]].by = r
      OBVIOUS
    <3>. QED
      BY <2>2, <2>3, <3>1, <3>2, <3>3
  <2>4. CASE pc[r] \notin Finished /\ ~\E outcome \in Finished : Commit(r, outcome)
    <3>1. (\A i \in DOMAIN log : log[i].by # r) /\ \A n \in notices : n.by # r
      BY <2>4 DEF Appoints
    <3>2. pc'[r] # "ok"
      BY <2>4, OnlyCommitsAcknowledged DEF Finished
    <3>. QED
      BY <2>2, <2>4, <3>1, <3>2
  <2>. QED
    BY <2>1, <2>3, <2>4
<1>. QED
  BY <1>1, <1>2 DEF RolesExplained, AppointmentsRecorded

LEMMA InvStep == IInv /\ [Next]_vars => IInv'
BY TypeStep, ShapeStep, WritesStep, LoggedStep, MatrixStep, AppointsStep, AppointmentsStep DEF IInv

LEMMA InvHolds == Spec => []IInv
<1>1. Init => IInv
  BY InitInv
<1>2. IInv /\ [Next]_vars => IInv'
  BY InvStep
<1>. QED
  BY <1>1, <1>2, PTL DEF Spec

-----------------------------------------------------------------------------
(* The theorems *)

\* Whatever the requests and the batches, the tables and the program counters keep their types.
THEOREM TypeCorrect == Spec => []TypeOK
<1>1. IInv => TypeOK
  BY DEF IInv
<1>. QED
  BY <1>1, InvHolds, PTL

\* The log accounts for every row of the matrix, whatever updates commit, are rolled back or
\* cancelled, in any order.
THEOREM MatrixLogged == Spec => []LogTellsMatrix
<1>1. IInv => LogTellsMatrix
  BY DEF IInv
<1>. QED
  BY <1>1, InvHolds, PTL

\* Appointments are logged exactly if they are announced, acknowledged ones are both, and every
\* role is explained by an entry of the log or an edit of the account.
THEOREM Appointed == Spec => []AppointmentsRecorded
<1>1. IInv => AppointmentsRecorded
  BY DEF IInv
<1>. QED
  BY <1>1, InvHolds, PTL

\* A commit changes what a role may do in an association only by rows of its scope: the
\* association's own, or default rows where the association has none.
LEMMA ChangedByOwn ==
  ASSUME IInv, [Next]_vars, NEW o \in Roles, NEW a \in Scopes, NEW f \in Features,
         NEW action \in Actions, Allowed(o, a, f, action)' # Allowed(o, a, f, action)
  PROVE  \E r \in Requests :
           /\ pc[r] = "commit" /\ req[r].op = "update" /\ o # SystemAdmin
           /\ req[r].scope = a \/ (req[r].scope = None /\ perm[<<a, <<o, f>>>>] = None)
<1>1. o # SystemAdmin /\ Effective(a, <<o, f>>)' # Effective(a, <<o, f>>)
  BY DEF Allowed
<1>2. \/ perm'[<<a, <<o, f>>>>] # perm[<<a, <<o, f>>>>]
      \/ perm[<<a, <<o, f>>>>] = None /\ perm'[<<None, <<o, f>>>>] # perm[<<None, <<o, f>>>>]
  BY <1>1 DEF Effective
<1>3. PICK r \in Requests, outcome \in Finished : Commit(r, outcome)
  BY <1>2, LogFrame
<1>4. /\ pc[r] = "commit"
      /\ \A k \in Rows : perm'[k] # perm[k] => k \in DOMAIN writes[r]
  BY <1>3 DEF Commit
<1>5. \A s \in Scopes : <<s, <<o, f>>>> \in Rows /\ <<s, <<o, f>>>>[1] = s
  BY DEF Rows, Cells
<1>6. None \in Scopes
  BY DEF Scopes
<1>7. \A k \in Rows : k \in DOMAIN writes[r] => req[r].op = "update" /\ k[1] = req[r].scope
  BY <1>4, Catalogue DEF WritesFit, IInv, UpdateReq, AppointReq
<1>. QED
  BY <1>1, <1>2, <1>4, <1>5, <1>6, <1>7

\* Associations are governed by their own updates, or the defaults they have not customised,
\* and nothing takes a right from a system admin.
THEOREM OwnUpdatesOnly == Spec => OnlyOwnUpdates
<1>1. IInv /\ [Next]_vars =>
        [\A o \in Roles, a \in Scopes, f \in Features, action \in Actions :
           Allowed(o, a, f, action)' # Allowed(o, a, f, action) =>
             \E r \in Requests :
               /\ pc[r] = "commit" /\ req[r].op = "update" /\ o # SystemAdmin
               /\ req[r].scope = a \/ (req[r].scope = None /\ perm[<<a, <<o, f>>>>] = None)]_vars
  BY ChangedByOwn
<1>. QED
  BY <1>1, InvHolds, PTL DEF Spec, OnlyOwnUpdates

-----------------------------------------------------------------------------
(* The audit trail *)

Begun == {q \in Requests : at[q] # 0}

\* Transactions are numbered as they begin; entries carry the number of their transaction.
Times ==
  /\ \A r \in Requests : /\ pc[r] \in {"idle", "begin"} => at[r] = 0
                         /\ at[r] <= Cardinality(Begun)
                         /\ \A i \in DOMAIN entries[r] : entries[r][i].at = at[r]
  /\ \A i \in DOMAIN log : log[i].at <= Cardinality(Begun)

\* The rows of the inputs an update is done with.
Handled(r) == {RowOf(r, j) : j \in {i \in DOMAIN req[r].inputs : i <= done[r] /\ ~IsFixed(r, i)}}

\* An update has written the rows of these inputs, and at "log" the present one.
Progress ==
  \A r \in Requests : req[r] \in UpdateReq =>
    /\ \A k \in DOMAIN writes[r] : k \in Handled(r) \/ (pc[r] = "log" /\ k = Current(r))
    /\ \A i \in DOMAIN entries[r] : entries[r][i].row \in Handled(r)

\* Transactions that are open at once are to write no row in common but raced ones.
Apart ==
  \A q, r \in Requests : q # r /\ pc[q] \in Open /\ pc[r] \in Open =>
    Targets(q) \cap Targets(r) \subseteq raced

\* While a transaction is open its audited rows keep the values it has read, it logs each of
\* them once, and it began after every entry there is about them.
Fresh ==
  \A r \in Requests :
    /\ pc[r] \in {"upsert", "log"} /\ Audited(Current(r)) => before[r] = perm[Current(r)]
    /\ \A i \in DOMAIN entries[r] : Audited(entries[r][i].row) =>
         /\ entries[r][i].before = perm[entries[r][i].row]
         /\ \A j \in DOMAIN entries[r] : entries[r][j].row = entries[r][i].row => j = i
    /\ pc[r] \in Open => \A i \in DOMAIN log :
         Audited(log[i].row) /\ log[i].row \in Targets(r) => log[i].at < at[r]

\* Entry i of s about row k starts from the initial value or from what the last one left.
Continues(s, i, k) ==
  \/ s[i].before = InitialRow(k) /\ \A j \in DOMAIN s : s[j].row = k => i <= j
  \/ \E j \in DOMAIN s : /\ s[j].row = k /\ j < i /\ s[i].before = s[j].after
                         /\ \A h \in DOMAIN s : s[h].row = k /\ h < i => h <= j

\* The entries about an audited row, in the order of the commits, are in the order of their
\* times, and each continues the one before.
Chronicle ==
  \A k \in Rows : Audited(k) => \A i \in DOMAIN log : log[i].row = k =>
    /\ \A j \in DOMAIN log : log[j].row = k /\ j < i => log[j].at < log[i].at
    /\ Continues(log, i, k)

AuditInv == Times /\ Progress /\ Apart /\ Fresh /\ Chronicle

LEMMA AuditInit == Init => AuditInv
<1>. SUFFICES ASSUME Init PROVE AuditInv
  OBVIOUS
<1>0. \A f : f = <<>> => DOMAIN f = {}
  OBVIOUS
<1>1. Times
  <2>1. Begun = {}
    BY DEF Init, Begun
  <2>. QED
    BY <1>0, <2>1, FS_EmptySet DEF Init, Times
<1>2. Progress /\ Apart /\ Fresh /\ Chronicle
  BY <1>0 DEF Init, Progress, Apart, Fresh, Chronicle, NoReq, UpdateReq, Open
<1>. QED
  BY <1>1, <1>2 DEF AuditInv

\* A transaction that begins is given the next number.
LEMMA Numbered ==
  ASSUME TypeOK, Times, NEW r \in Requests, Begin(r)
  PROVE  /\ at'[r] = Cardinality(Begun) + 1 /\ \A q \in Requests \ {r} : at'[q] = at[q]
         /\ Cardinality(Begun)' = Cardinality(Begun) + 1
         /\ Cardinality(Begun) \in Nat
<1>1. IsFiniteSet(Begun) /\ Cardinality(Begun) \in Nat
  <2>1. Begun \subseteq Requests /\ IsFiniteSet(Requests)
    BY Catalogue DEF Begun
  <2>2. IsFiniteSet(Begun)
    BY <2>1, FS_Subset
  <2>. QED
    BY <2>2, FS_CardinalityType
<1>2. at' = [at EXCEPT ![r] = Cardinality(Begun) + 1] /\ r \notin Begun
  BY DEF Begin, Begun, Times
<1>3. at'[r] = Cardinality(Begun) + 1 /\ \A q \in Requests \ {r} : at'[q] = at[q]
  BY <1>2 DEF TypeOK
<1>4. Begun' = Begun \cup {r}
  BY <1>1, <1>3 DEF Begun
<1>5. Cardinality(Begun \cup {r}) = Cardinality(Begun) + 1
  BY <1>1, <1>2, FS_AddElement
<1>. QED
  BY <1>1, <1>3, <1>4, <1>5

\* Only a transaction that begins is numbered, and raced rows stay so.
LEMMA BeginFrame ==
  ASSUME [Next]_vars
  PROVE  UNCHANGED <<at, raced>> \/ \E r \in Requests : Begin(r)
<1>1. ASSUME NEW r \in Requests, Start(r)
      PROVE  UNCHANGED <<at, raced>>
  BY <1>1 DEF Start, StartUpdate, StartAppointment
<1>2. ASSUME NEW r \in Requests,
             \/ \E outcome \in Finished : Commit(r, outcome)
             \/ NextInput(r) \/ Upsert(r) \/ LogUpdate(r) \/ FindUser(r)
             \/ UpdateRole(r) \/ LogRole(r) \/ PostNotice(r) \/ Abort(r)
      PROVE  UNCHANGED <<at, raced>>
  BY <1>2 DEF Commit, NextInput, Upsert, LogUpdate, FindUser, UpdateRole, LogRole, PostNotice, Abort
<1>. QED
  BY <1>1, <1>2, StepsOf DEF Step

LEMMA RacedGrows ==
  ASSUME TypeOK, Shape, [Next]_vars
  PROVE  raced \subseteq raced' /\ \A k : Audited(k)' => Audited(k)
<1>1. raced \subseteq raced'
  BY BeginFrame DEF Begin
<1>2. ASSUME NEW r \in Requests, NEW k, NamesTwice(r, k)
      PROVE  NamesTwice(r, k)'
  <2>1. pc[r] # "idle"
    BY <1>2 DEF NamesTwice, Shape, NoReq
  <2>2. req'[r] = req[r]
    BY <2>1, RequestsFrame
  <2>. QED
    BY <1>2, <2>2 DEF NamesTwice, RowOf
<1>. QED
  BY <1>1, <1>2 DEF Audited

LEMMA EntriesFrame ==
  ASSUME TypeOK, [Next]_vars, NEW r \in Requests
  PROVE  entries'[r] = entries[r] \/ entries'[r] = <<>> \/ LogUpdate(r) \/ LogRole(r)
<1>1. CASE Still(r) \/ Start(r)
  BY <1>1 DEF Still, Start, StartUpdate, StartAppointment, tx
<1>2. CASE Begin(r) \/ NextInput(r) \/ Upsert(r) \/ UpdateRole(r) \/ PostNotice(r)
  BY <1>2 DEF Begin, NextInput, Upsert, UpdateRole, PostNotice, tx
<1>3. CASE FindUser(r) \/ Abort(r) \/ \E outcome \in Finished : Commit(r, outcome)
  BY <1>3, Ended DEF FindUser, Abort, Commit, Finished
<1>. QED
  BY <1>1, <1>2, <1>3, StepsFor DEF Step

LEMMA TimesStep == TypeOK /\ Shape /\ Times /\ [Next]_vars => Times'
<1>. SUFFICES ASSUME TypeOK, Shape, Times, [Next]_vars PROVE Times'
  OBVIOUS
<1>0. Cardinality(Begun) \in Nat
  <2>1. Begun \subseteq Requests /\ IsFiniteSet(Requests)
    BY Catalogue DEF Begun
  <2>2. IsFiniteSet(Begun)
    BY <2>1, FS_Subset
  <2>. QED
    BY <2>2, FS_CardinalityType
<1>1. Cardinality(Begun)' >= Cardinality(Begun) /\ Cardinality(Begun)' \in Nat
  <2>1. CASE UNCHANGED <<at, raced>>
    <3>1. Begun' = Begun
      BY <2>1 DEF Begun
    <3>. QED
      BY <1>0, <3>1
  <2>2. CASE \E r \in Requests : Begin(r)
    BY <2>2, Numbered
  <2>. QED
    BY <2>1, <2>2, BeginFrame
<1>2. ASSUME NEW r \in Requests
      PROVE  at'[r] = at[r] \/ Begin(r)
  BY BeginFrame, Numbered
<1>3. ASSUME NEW r \in Requests
      PROVE  pc'[r] \in {"idle", "begin"} => at'[r] = 0
  <2>. SUFFICES ASSUME pc'[r] \in {"idle", "begin"} PROVE at'[r] = 0
    OBVIOUS
  <2>1. ~Begin(r)
    BY DEF Begin, Goto, TypeOK
  <2>2. pc[r] \in {"idle", "begin"}
    BY <2>1, StepsFor DEF Still, Start, StartUpdate, StartAppointment, Step, Commit, NextInput, Upsert,
       LogUpdate, FindUser, UpdateRole, LogRole, PostNotice, Abort, Finish, Goto, TypeOK, Finished
  <2>. QED
    BY <1>2, <2>1, <2>2 DEF Times
<1>4. ASSUME NEW r \in Requests
      PROVE  at'[r] <= Cardinality(Begun)'
  <2>1. CASE Begin(r)
    BY <1>0, <2>1, Numbered
  <2>2. CASE at'[r] = at[r]
    <3>1. at[r] \in Nat /\ at[r] <= Cardinality(Begun)
      BY DEF TypeOK, Times
    <3>. QED
      BY <1>0, <1>1, <2>2, <3>1
  <2>. QED
    BY <1>2, <2>1, <2>2
<1>5. ASSUME NEW r \in Requests, NEW i \in DOMAIN entries'[r]
      PROVE  entries'[r][i].at = at'[r]
  <2>1. CASE Begin(r)
    <3>1. entries'[r] = entries[r] /\ entries[r] = <<>>
      BY <2>1 DEF Begin, Shape, Open, tx
    <3>. QED
      BY <1>5, <3>1
  <2>2. CASE LogUpdate(r) \/ LogRole(r)
    <3>1. PICK k, v : entries' = [entries EXCEPT ![r] = Append(@, Entry(r, k, v))] /\ at' = at
      BY <2>2 DEF LogUpdate, LogRole
    <3>2. entries'[r] = Append(entries[r], Entry(r, k, v)) /\ entries[r] \in Seq(LogEntry)
      BY <3>1 DEF TypeOK
    <3>3. i = Len(entries[r]) + 1 \/ i \in DOMAIN entries[r]
      BY <1>5, <3>2
    <3>4. entries'[r][i] = IF i = Len(entries[r]) + 1 THEN Entry(r, k, v) ELSE entries[r][i]
      BY <3>2, <3>3
    <3>. QED
      BY <3>1, <3>3, <3>4 DEF Entry, Times
  <2>3. CASE entries'[r] = entries[r] /\ at'[r] = at[r]
    BY <1>5, <2>3 DEF Times
  <2>4. CASE entries'[r] = <<>>
    BY <1>5, <2>4
  <2>. QED
    BY <1>2, <2>1, <2>2, <2>3, <2>4, EntriesFrame
<1>6. ASSUME NEW i \in DOMAIN log'
      PROVE  log'[i].at <= Cardinality(Begun)'
  <2>1. CASE log' = log
    <3>0. log \in Seq(LogEntry) /\ i \in DOMAIN log
      BY <1>6, <2>1 DEF TypeOK
    <3>1. log[i].at \in Nat /\ log[i].at <= Cardinality(Begun)
      <4>1. log[i] \in LogEntry
        BY <3>0
      <4>. QED
        BY <3>0, <4>1 DEF Times, LogEntry
    <3>. QED
      BY <1>0, <1>1, <2>1, <3>1
  <2>2. ASSUME NEW r \in Requests, NEW outcome \in Finished, Commit(r, outcome)
        PROVE  log'[i].at <= Cardinality(Begun)'
    <3>1. /\ log' = log \o entries[r] /\ log \in Seq(LogEntry) /\ entries[r] \in Seq(LogEntry)
          /\ at[r] \in Nat
      BY <2>2 DEF Commit, TypeOK
    <3>2. \/ i \in DOMAIN log /\ log'[i] = log[i]
          \/ \E j \in DOMAIN entries[r] : log'[i] = entries[r][j]
      BY <1>6, <3>1, Concatenated
    <3>3. log'[i].at <= Cardinality(Begun) /\ log'[i].at \in Nat
      <4>1. CASE i \in DOMAIN log /\ log'[i] = log[i]
        <5>1. log[i] \in LogEntry
          BY <3>1, <4>1
        <5>. QED
          BY <4>1, <5>1 DEF Times, LogEntry
      <4>2. CASE \E j \in DOMAIN entries[r] : log'[i] = entries[r][j]
        BY <3>1, <4>2 DEF Times
      <4>. QED
        BY <3>2, <4>1, <4>2
    <3>. QED
      BY <1>0, <1>1, <3>3
  <2>. QED
    BY <2>1, <2>2, LogFrame
<1>. QED
  BY <1>3, <1>4, <1>5, <1>6 DEF Times

LEMMA Opens ==
  ASSUME TypeOK, [Next]_vars, NEW r \in Requests, pc'[r] \in Open
  PROVE  pc[r] \in Open \/ Begin(r)
<1>1. CASE Still(r)
  BY <1>1 DEF Still
<1>2. CASE Start(r) \/ Abort(r) \/ \E outcome \in Finished : Commit(r, outcome)
  BY <1>2 DEF Start, StartUpdate, StartAppointment, Abort, Commit, Finish, Goto, Open, Finished, TypeOK
<1>3. CASE \/ NextInput(r) \/ Upsert(r) \/ LogUpdate(r) \/ FindUser(r)
           \/ UpdateRole(r) \/ LogRole(r) \/ PostNotice(r)
  BY <1>3 DEF NextInput, Upsert, LogUpdate, FindUser, UpdateRole, LogRole, PostNotice, Open
<1>. QED
  BY <1>1, <1>2, <1>3, StepsFor DEF Step

LEMMA ProgressStep == TypeOK /\ Shape /\ WritesFit /\ Progress /\ [Next]_vars => Progress'
<1>. SUFFICES ASSUME TypeOK, Shape, WritesFit, Progress, [Next]_vars, NEW r \in Requests,
                     req'[r] \in UpdateReq
              PROVE
    /\ \A k \in DOMAIN writes'[r] : k \in Handled(r)' \/ (pc'[r] = "log" /\ k = Current(r)')
    /\ \A i \in DOMAIN entries'[r] : entries'[r][i].row \in Handled(r)'
  BY DEF Progress
<1>1. CASE pc'[r] \notin Open
  <2>1. DOMAIN writes'[r] = {} /\ entries'[r] = <<>>
    BY <1>1, ShapeStep DEF Shape
  <2>. QED
    BY <2>1
<1>2. ASSUME pc'[r] \in Open
      PROVE  req'[r] = req[r] /\ pc[r] \notin {"find", "update", "logRole", "post"}
  <2>1. pc[r] # "idle" /\ req'[r] = req[r]
    BY <1>2, Opens, RequestsFrame DEF Open, Begin
  <2>. QED
    BY <2>1 DEF Shape, UpdateReq, AppointReq
<1>3. CASE Still(r) /\ pc'[r] \in Open
  <2>1. Handled(r)' = Handled(r) /\ Current(r)' = Current(r)
    BY <1>3 DEF Still, Handled, Current, RowOf, IsFixed
  <2>. QED
    BY <1>3, <2>1 DEF Still, Progress
<1>4. CASE Begin(r)
  <2>1. writes'[r] = writes[r] /\ entries'[r] = entries[r] /\ DOMAIN writes[r] = {} /\ entries[r] = <<>>
    BY <1>4 DEF Begin, Shape, Open, tx
  <2>. QED
    BY <2>1
<1>5. CASE NextInput(r)
  <2>1. /\ pc[r] = "next" /\ writes' = writes /\ entries' = entries /\ req' = req
        /\ done'[r] \in {done[r], done[r] + 1} /\ done[r] \in Nat
    BY <1>5 DEF NextInput, TypeOK
  <2>2. req[r].inputs \in Seq(Input)
    BY <2>1, Asked
  <2>3. Handled(r) \subseteq Handled(r)'
    BY <2>1, <2>2 DEF Handled, RowOf, IsFixed
  <2>. QED
    BY <2>1, <2>3 DEF Progress
<1>6. CASE Upsert(r)
  <2>1. /\ Write(r, Current(r), req[r].inputs[done[r] + 1].grant)
        /\ UNCHANGED <<entries, done, req>> /\ pc[r] = "upsert" /\ pc'[r] = "log"
    BY <1>6 DEF Upsert, Current, Goto, TypeOK
  <2>2. Handled(r)' = Handled(r) /\ Current(r)' = Current(r)
    BY <2>1 DEF Handled, Current, RowOf, IsFixed
  <2>3. DOMAIN writes'[r] = DOMAIN writes[r] \cup {Current(r)}
    BY <2>1, Written
  <2>. QED
    BY <2>1, <2>2, <2>3 DEF Progress
<1>7. CASE LogUpdate(r)
  <2>. DEFINE e == Entry(r, Current(r), req[r].inputs[done[r] + 1].grant)
  <2>1. /\ pc[r] = "log" /\ UNCHANGED <<writes, req>> /\ done'[r] = done[r] + 1 /\ done[r] \in Nat
        /\ entries'[r] = Append(entries[r], e) /\ entries[r] \in Seq(LogEntry)
    BY <1>7 DEF LogUpdate, Current, TypeOK
  <2>2. /\ req[r].inputs \in Seq(Input) /\ done[r] + 1 \in DOMAIN req[r].inputs /\ ~IsFixed(r, done[r] + 1)
        /\ e \in LogEntry /\ e.row = Current(r)
    BY <2>1, Asked, EntryTyped DEF Shape, Current, Entry
  <2>3. Handled(r) \subseteq Handled(r)'
    BY <2>1, <2>2 DEF Handled, RowOf, IsFixed
  <2>4. Current(r) \in Handled(r)'
    <3>1. PICK j : j = done[r] + 1
      OBVIOUS
    <3>2. j \in DOMAIN req'[r].inputs /\ j <= done'[r] /\ ~IsFixed(r, j)'
      BY <2>1, <2>2, <3>1 DEF IsFixed
    <3>3. RowOf(r, j)' = Current(r)
      BY <2>1, <3>1 DEF RowOf, Current
    <3>4. RowOf(r, j)' \in Handled(r)'
      BY <3>2 DEF Handled
    <3>. QED
      BY <3>3, <3>4
  <2>. HIDE DEF e
  <2>5. \A i \in DOMAIN entries'[r] :
          entries'[r][i] = e \/ (i \in DOMAIN entries[r] /\ entries'[r][i] = entries[r][i])
    BY <2>1, <2>2, Appended
  <2>. QED
    BY <2>1, <2>2, <2>3, <2>4, <2>5 DEF Progress
<1>8. Start(r) \/ Abort(r) \/ (\E outcome \in Finished : Commit(r, outcome)) => pc'[r] \notin Open
  BY DEF Start, StartUpdate, StartAppointment, Abort, Commit, Finish, Goto, Open, Finished, TypeOK
<1>9. FindUser(r) \/ UpdateRole(r) \/ LogRole(r) \/ PostNotice(r) =>
        pc[r] \in {"find", "update", "logRole", "post"}
  BY DEF FindUser, UpdateRole, LogRole, PostNotice
<1>. QED
  BY <1>1, <1>2, <1>3, <1>4, <1>5, <1>6, <1>7, <1>8, <1>9, StepsFor DEF Step

\* What a transaction writes and logs is of the rows it is to write.
LEMMA Claimed ==
  ASSUME TypeOK, Shape, WritesFit, Logged, Progress, NEW r \in Requests
  PROVE  /\ DOMAIN writes[r] \subseteq Targets(r)
         /\ \A i \in DOMAIN entries[r] : entries[r][i].row \in Targets(r)
         /\ pc[r] \in {"upsert", "log"} => Current(r) \in Targets(r) /\ Current(r) \in Rows
<1>1. ASSUME pc[r] \in {"upsert", "log"}
      PROVE  Current(r) \in Targets(r) /\ Current(r) \in Rows
  BY <1>1, Asked DEF Shape, Current, Targets
<1>2. req[r] \in UpdateReq => Handled(r) \subseteq Targets(r)
  BY DEF UpdateReq, Handled, Targets
<1>3. DOMAIN writes[r] \subseteq Targets(r)
  <2>. SUFFICES ASSUME NEW k \in DOMAIN writes[r] PROVE k \in Targets(r)
    OBVIOUS
  <2>1. CASE req[r] \in UpdateReq
    BY <1>1, <1>2, <2>1 DEF Progress
  <2>2. CASE req[r] \in AppointReq /\ k = req[r].user
    BY <2>2 DEF AppointReq, Targets
  <2>. QED
    BY <2>1, <2>2 DEF WritesFit
<1>. QED
  BY <1>1, <1>3 DEF Logged

\* An update is done with no input about an audited row it has come to.
LEMMA OnlyOnce ==
  ASSUME TypeOK, Shape, NEW r \in Requests, pc[r] \in {"next", "upsert", "log"},
         done[r] < Len(req[r].inputs), Audited(Current(r))
  PROVE  Current(r) \notin Handled(r)
<1>1. /\ req[r].op = "update" /\ done[r] + 1 \in DOMAIN req[r].inputs /\ done[r] \in Nat
      /\ \A j \in DOMAIN req[r].inputs : j \in Nat
  <2>1. req[r].inputs \in Seq(Input)
    BY Asked
  <2>. QED
    BY <2>1, Asked DEF TypeOK
<1>2. \A j \in DOMAIN req[r].inputs : j # done[r] + 1 => RowOf(r, j) # Current(r)
  BY <1>1 DEF Audited, NamesTwice, Current
<1>3. \A j \in DOMAIN req[r].inputs : j <= done[r] => j # done[r] + 1
  BY <1>1
<1>. QED
  BY <1>2, <1>3 DEF Handled

LEMMA ApartStep == TypeOK /\ Shape /\ Apart /\ [Next]_vars => Apart'
<1>. SUFFICES ASSUME TypeOK, Shape, Apart, [Next]_vars, NEW q \in Requests, NEW r \in Requests,
                     q # r, pc'[q] \in Open, pc'[r] \in Open
              PROVE  Targets(q)' \cap Targets(r)' \subseteq raced'
  BY DEF Apart
<1>1. ASSUME NEW p \in Requests, pc'[p] \in Open
      PROVE  Targets(p)' = Targets(p)
  <2>1. req'[p] = req[p]
    BY <1>1, Opens, RequestsFrame DEF Open, Begin
  <2>. QED
    BY <2>1 DEF Targets, RowOf, IsFixed
<1>2. CASE pc[q] \in Open /\ pc[r] \in Open
  BY <1>1, <1>2, RacedGrows DEF Apart
<1>3. ASSUME NEW p \in Requests, NEW o \in Requests \ {p}, Begin(p), pc'[o] \in Open
      PROVE  Targets(p) \cap Targets(o) \subseteq raced'
  <2>1. pc[o] = pc'[o]
    BY <1>3 DEF Begin, Goto, TypeOK
  <2>. QED
    BY <1>3, <2>1 DEF Begin
<1>. QED
  BY <1>1, <1>2, <1>3, Opens

\* What an open transaction is to write nobody else writes, if it is audited.
LEMMA RowsKept ==
  ASSUME TypeOK, Shape, WritesFit, Logged, Progress, Apart, [Next]_vars, NEW r \in Requests,
         pc[r] \in Open, pc'[r] \in Open, NEW k, k \in Targets(r), Audited(k)'
  PROVE  /\ perm'[k] = perm[k] /\ Audited(k)
         /\ \A i \in DOMAIN log' : log'[i].row = k => i \in DOMAIN log /\ log'[i] = log[i]
<1>1. Audited(k)
  BY RacedGrows
<1>2. ASSUME NEW q \in Requests, NEW outcome \in Finished, Commit(q, outcome)
      PROVE  /\ perm'[k] = perm[k]
             /\ \A i \in DOMAIN log' : log'[i].row = k => i \in DOMAIN log /\ log'[i] = log[i]
  <2>1. pc[q] \in Open /\ q # r
    BY <1>2 DEF Commit, Finish, Goto, TypeOK, Open, Finished
  <2>2. k \notin Targets(q)
    BY <1>1, <2>1 DEF Apart, Audited
  <2>3. k \notin DOMAIN writes[q] /\ \A j \in DOMAIN entries[q] : entries[q][j].row # k
    BY <2>2, Claimed
  <2>4. perm'[k] = perm[k]
    BY <1>1, <1>2, <2>3 DEF Commit, Audited
  <2>5. log' = log \o entries[q] /\ log \in Seq(LogEntry) /\ entries[q] \in Seq(LogEntry)
    BY <1>2 DEF Commit, TypeOK
  <2>. QED
    BY <2>3, <2>4, <2>5, Concatenated
<1>. QED
  BY <1>1, <1>2, LogFrame

\* How a request comes to write or log a row.
LEMMA ComesToRow ==
  ASSUME TypeOK, [Next]_vars, NEW r \in Requests, pc'[r] \in {"upsert", "log"}
  PROVE  \/ Still(r)
         \/ pc[r] = "next" /\ NextInput(r) /\ done'[r] = done[r]
         \/ pc[r] = "upsert" /\ before'[r] = before[r] /\ done'[r] = done[r]
<1>1. ~Start(r)
  BY DEF Start, StartUpdate, StartAppointment, Goto, TypeOK
<1>2. ~Begin(r)
  BY DEF Begin, Goto, TypeOK
<1>3. ~Abort(r) /\ ~\E outcome \in Finished : Commit(r, outcome)
  BY DEF Abort, Commit, Finish, Goto, TypeOK, Finished
<1>4. ~FindUser(r)
  BY DEF FindUser, Finish, Goto, TypeOK
<1>5. ~UpdateRole(r) /\ ~LogRole(r) /\ ~PostNotice(r) /\ ~LogUpdate(r)
  BY DEF UpdateRole, LogRole, PostNotice, LogUpdate, Goto, TypeOK
<1>6. NextInput(r) => pc[r] = "next" /\ done'[r] = done[r]
  BY DEF NextInput, Goto, TypeOK
<1>7. Upsert(r) => pc[r] = "upsert" /\ before'[r] = before[r] /\ done'[r] = done[r]
  BY DEF Upsert
<1>8. Still(r) \/ Step(r)
  BY <1>1, StepsFor
<1>. QED
  BY <1>2, <1>3, <1>4, <1>5, <1>6, <1>7, <1>8 DEF Step

LEMMA PresentStep ==
  ASSUME IInv, AuditInv, [Next]_vars, NEW r \in Requests,
         pc'[r] \in {"upsert", "log"}, Audited(Current(r))'
  PROVE  before'[r] = perm'[Current(r)']
<1>. USE DEF IInv, AuditInv
<1>1. \/ pc'[r] = pc[r] /\ before'[r] = before[r] /\ done'[r] = done[r]
      \/ pc[r] = "next" /\ NextInput(r) /\ done'[r] = done[r]
      \/ pc[r] = "upsert" /\ before'[r] = before[r] /\ done'[r] = done[r]
  BY ComesToRow DEF Still
<1>2. /\ pc[r] \in {"next", "upsert", "log"} /\ pc[r] \in Open /\ pc'[r] \in Open
      /\ req'[r] = req[r] /\ done'[r] = done[r]
      /\ (pc[r] = "next" => NextInput(r)) /\ (pc[r] # "next" => before'[r] = before[r])
  <2>1. req'[r] = req[r]
    BY <1>1, RequestsFrame
  <2>. QED
    BY <1>1, <2>1 DEF Open
<1>3. Current(r)' = Current(r)
  BY <1>2 DEF Current, RowOf
<1>4. Audited(Current(r)) /\ Audited(Current(r))'
  BY <1>3, RacedGrows DEF Audited
<1>5. CASE pc[r] \in {"upsert", "log"}
  <2>1. Current(r) \in Targets(r)
    BY <1>5, Claimed
  <2>. DEFINE k == Current(r)
  <2>2. \A x : x = k => Audited(x)'
    BY <1>3
  <2>3. perm'[k] = perm[k]
    BY <1>2, <2>1, <2>2, RowsKept
  <2>. QED
    BY <1>2, <1>3, <1>4, <1>5, <2>3 DEF Fresh
<1>6. CASE pc[r] = "next"
  <2>1. /\ NextInput(r) /\ pc'[r] # "commit" /\ pc'[r] # "next"
    BY <1>2, <1>6
  <2>2. /\ done[r] < Len(req[r].inputs) /\ perm' = perm
        /\ before'[r] = Seen(r, Current(r))
    BY <2>1 DEF NextInput, Goto, TypeOK, Current, db
  <2>3. Current(r) \in Rows /\ Current(r) \notin Handled(r) /\ req[r] \in UpdateReq
    BY <1>4, <1>6, <2>2, OnlyOnce DEF Audited, Shape
  <2>4. Current(r) \notin DOMAIN writes[r]
    BY <1>6, <2>3 DEF Progress
  <2>. QED
    BY <1>3, <2>2, <2>3, <2>4 DEF Seen
<1>. QED
  BY <1>2, <1>5, <1>6

\* Entries about audited rows are of updates.
LEMMA AuditedOfUpdates ==
  ASSUME TypeOK, WritesFit, Logged, NEW r \in Requests, NEW i \in DOMAIN entries[r],
         Audited(entries[r][i].row)
  PROVE  req[r] \in UpdateReq
BY Catalogue DEF Logged, WritesFit, Audited, AppointReq

LEMMA EntriesStep ==
  ASSUME IInv, AuditInv, [Next]_vars, NEW r \in Requests,
         NEW i \in DOMAIN entries'[r], NEW k, k = entries'[r][i].row, Audited(k)'
  PROVE  /\ entries'[r][i].before = perm'[k]
         /\ \A j \in DOMAIN entries'[r] : entries'[r][j].row = k => j = i
<1>. USE DEF IInv, AuditInv
<1>1. pc'[r] \in Open
  BY ShapeStep, TypeStep DEF Shape
<1>2. Audited(k)
  BY RacedGrows
<1>3. CASE entries'[r] = entries[r]
  <2>1. pc[r] \in Open
    BY <1>3 DEF Shape
  <2>2. k \in Targets(r)
    BY <1>3, Claimed
  <2>3. perm'[k] = perm[k]
    BY <1>1, <2>1, <2>2, RowsKept
  <2>. QED
    BY <1>2, <1>3, <2>3 DEF Fresh
<1>4. CASE LogUpdate(r)
  <2>. DEFINE e == Entry(r, Current(r), req[r].inputs[done[r] + 1].grant)
  <2>1. /\ pc[r] = "log" /\ perm' = perm
        /\ entries'[r] = Append(entries[r], e) /\ entries[r] \in Seq(LogEntry)
    BY <1>4 DEF LogUpdate, Current, TypeOK, db
  <2>2. /\ req[r] \in UpdateReq /\ done[r] < Len(req[r].inputs)
        /\ e.row = Current(r) /\ e.before = before[r]
    BY <2>1 DEF Shape, Entry
  <2>. HIDE DEF e
  <2>3. /\ DOMAIN entries'[r] = DOMAIN entries[r] \cup {Len(entries[r]) + 1}
        /\ entries'[r][Len(entries[r]) + 1] = e
        /\ \A j \in DOMAIN entries[r] : entries'[r][j] = entries[r][j]
    BY <2>1
  <2>4. CASE k = Current(r)
    <3>1. Current(r) \notin Handled(r) /\ before[r] = perm[Current(r)]
      BY <1>2, <2>1, <2>2, <2>4, OnlyOnce DEF Fresh
    <3>2. \A j \in DOMAIN entries[r] : entries[r][j].row # k
      BY <2>2, <2>4, <3>1 DEF Progress
    <3>3. i = Len(entries[r]) + 1 /\ \A j \in DOMAIN entries'[r] : entries'[r][j].row = k => j = i
      BY <2>3, <3>2
    <3>. QED
      BY <2>1, <2>2, <2>3, <2>4, <3>1, <3>3
  <2>5. CASE k # Current(r)
    <3>1. i \in DOMAIN entries[r] /\ entries'[r][i] = entries[r][i]
      BY <2>2, <2>3, <2>5
    <3>2. /\ entries[r][i].before = perm[k]
          /\ \A j \in DOMAIN entries[r] : entries[r][j].row = k => j = i
      BY <1>2, <3>1 DEF Fresh
    <3>. QED
      BY <2>1, <2>2, <2>3, <2>5, <3>1, <3>2
  <2>. QED
    BY <2>4, <2>5
<1>5. ~LogRole(r)
  <2>. SUFFICES ASSUME LogRole(r) PROVE FALSE
    OBVIOUS
  <2>1. req[r] \in AppointReq /\ req[r].user \in Users /\ req[r].role \in Roles
    BY Asked DEF LogRole, Shape
  <2>. DEFINE e == Entry(r, req[r].user, req[r].role)
  <2>2. entries'[r] = Append(entries[r], e) /\ entries[r] \in Seq(LogEntry) /\ e \in LogEntry
    BY <2>1, EntryTyped DEF LogRole, TypeOK
  <2>3. e.row \in Users
    BY <2>1 DEF Entry
  <2>. HIDE DEF e
  <2>4. entries'[r][i] = e \/ (i \in DOMAIN entries[r] /\ entries'[r][i] = entries[r][i])
    BY <2>2, Appended
  <2>5. CASE entries'[r][i] = e
    BY <1>2, <2>3, <2>5, Catalogue DEF Audited
  <2>6. CASE i \in DOMAIN entries[r] /\ entries'[r][i] = entries[r][i]
    BY <1>2, <2>1, <2>6, AuditedOfUpdates DEF UpdateReq, AppointReq
  <2>. QED
    BY <2>4, <2>5, <2>6
<1>. QED
  BY <1>3, <1>4, <1>5, EntriesFrame

LEMMA BegunAfter ==
  ASSUME IInv, AuditInv, [Next]_vars, NEW r \in Requests, pc'[r] \in Open,
         NEW i \in DOMAIN log', NEW k, k = log'[i].row, Audited(k)', k \in Targets(r)'
  PROVE  log'[i].at < at'[r]
<1>. USE DEF IInv, AuditInv
<1>1. Targets(r)' = Targets(r)
  <2>1. req'[r] = req[r]
    BY Opens, RequestsFrame DEF Open, Begin
  <2>. QED
    BY <2>1 DEF Targets, RowOf, IsFixed
<1>2. CASE Begin(r)
  <2>1. log' = log /\ log \in Seq(LogEntry)
    BY <1>2 DEF Begin, db, TypeOK
  <2>2. log'[i].at \in Nat /\ log'[i].at <= Cardinality(Begun)
    <3>1. log[i] \in LogEntry
      BY <2>1
    <3>. QED
      BY <2>1, <3>1 DEF Times, LogEntry
  <2>. QED
    BY <1>2, <2>2, Numbered
<1>3. CASE ~Begin(r)
  <2>1. pc[r] \in Open
    BY <1>3, Opens
  <2>2. Audited(k) /\ i \in DOMAIN log /\ log'[i] = log[i]
    BY <1>1, <2>1, RowsKept
  <2>3. at'[r] = at[r]
    BY <1>3, BeginFrame, Numbered
  <2>. QED
    BY <1>1, <2>1, <2>2, <2>3 DEF Fresh
<1>. QED
  BY <1>2, <1>3

LEMMA FreshStep == IInv /\ AuditInv /\ [Next]_vars => Fresh'
<1>. SUFFICES ASSUME IInv, AuditInv, [Next]_vars PROVE Fresh'
  OBVIOUS
<1>1. ASSUME NEW r \in Requests
      PROVE  pc'[r] \in {"upsert", "log"} /\ Audited(Current(r))' => before'[r] = perm'[Current(r)']
  BY PresentStep
<1>2. ASSUME NEW r \in Requests, NEW i \in DOMAIN entries'[r], Audited(entries[r][i].row)'
      PROVE  /\ entries'[r][i].before = perm'[entries'[r][i].row]
             /\ \A j \in DOMAIN entries'[r] : entries'[r][j].row = entries'[r][i].row => j = i
  <2>1. \A k : k = entries'[r][i].row => Audited(k)'
    BY <1>2
  <2>. QED
    BY <1>2, <2>1, EntriesStep
<1>3. ASSUME NEW r \in Requests, pc'[r] \in Open, NEW i \in DOMAIN log', Audited(log[i].row)',
             log'[i].row \in Targets(r)'
      PROVE  log'[i].at < at'[r]
  <2>1. \A k : k = log'[i].row => Audited(k)'
    BY <1>3
  <2>. QED
    BY <1>3, <2>1, BegunAfter
<1>. QED
  BY <1>1, <1>2, <1>3 DEF Fresh

\* The entries a log had keep their places in its continuation.
LEMMA ContinuesOn ==
  ASSUME NEW s \in Seq(LogEntry), NEW t \in Seq(LogEntry), NEW k, NEW i \in DOMAIN s, Continues(s, i, k)
  PROVE  Continues(s \o t, i, k)
<1>1. /\ \A j \in DOMAIN s : j \in DOMAIN (s \o t) /\ (s \o t)[j] = s[j]
      /\ \A j \in DOMAIN (s \o t) : j \in DOMAIN s \/ (j > i /\ j \in Nat)
      /\ i \in Nat /\ \A j \in DOMAIN s : j \in Nat
  <2>1. /\ DOMAIN (s \o t) = 1..(Len(s) + Len(t)) /\ DOMAIN s = 1..Len(s)
        /\ Len(s) \in Nat /\ Len(t) \in Nat
    OBVIOUS
  <2>. QED
    BY <2>1, Concatenated
<1>2. CASE s[i].before = InitialRow(k) /\ \A j \in DOMAIN s : s[j].row = k => i <= j
  BY <1>1, <1>2 DEF Continues
<1>3. ASSUME NEW j \in DOMAIN s, s[j].row = k, j < i, s[i].before = s[j].after,
             \A h \in DOMAIN s : s[h].row = k /\ h < i => h <= j
      PROVE  Continues(s \o t, i, k)
  <2>1. \A h \in DOMAIN (s \o t) : (s \o t)[h].row = k /\ h < i => h <= j
    BY <1>1, <1>3
  <2>. QED
    BY <1>1, <1>3, <2>1 DEF Continues
<1>. QED
  BY <1>2, <1>3 DEF Continues

LEMMA ChronicleStep == IInv /\ AuditInv /\ [Next]_vars => Chronicle'
<1>. SUFFICES ASSUME IInv, AuditInv, [Next]_vars, NEW k \in Rows, Audited(k)',
                     NEW i \in DOMAIN log', log'[i].row = k
              PROVE  /\ \A j \in DOMAIN log' : log'[j].row = k /\ j < i => log'[j].at < log'[i].at
                     /\ Continues(log', i, k)
  BY DEF Chronicle, Continues, InitialRow
<1>. USE DEF IInv, AuditInv
<1>1. Audited(k)
  BY RacedGrows
<1>2. CASE log' = log
  BY <1>1, <1>2 DEF Chronicle
<1>3. ASSUME NEW r \in Requests, NEW outcome \in Finished, Commit(r, outcome)
      PROVE  /\ \A j \in DOMAIN log' : log'[j].row = k /\ j < i => log'[j].at < log'[i].at
             /\ Continues(log', i, k)
  <2>1. /\ log' = log \o entries[r] /\ log \in Seq(LogEntry) /\ entries[r] \in Seq(LogEntry)
        /\ pc[r] \in Open
    BY <1>3 DEF Commit, TypeOK, Open
  <2>2. /\ DOMAIN log = 1..Len(log) /\ Len(log) \in Nat
        /\ \A j \in DOMAIN log' : j \in Nat /\ (j \in DOMAIN log <=> j <= Len(log))
        /\ \A j \in DOMAIN log : j \in DOMAIN log' /\ log'[j] = log[j]
        /\ \A j \in DOMAIN log' : j > Len(log) =>
             j - Len(log) \in DOMAIN entries[r] /\ log'[j] = entries[r][j - Len(log)]
    <3>1. /\ DOMAIN log = 1..Len(log) /\ Len(log) \in Nat
          /\ DOMAIN log' = 1..(Len(log) + Len(entries[r])) /\ Len(entries[r]) \in Nat
          /\ DOMAIN entries[r] = 1..Len(entries[r])
      BY <2>1
    <3>2. \A j \in DOMAIN log' : log'[j] = IF j <= Len(log) THEN log[j] ELSE entries[r][j - Len(log)]
      BY <2>1
    <3>. QED
      BY <3>1, <3>2
  <2>3. CASE i \in DOMAIN log
    <3>1. log[i].row = k
      BY <2>2, <2>3
    <3>2. /\ \A j \in DOMAIN log : log[j].row = k /\ j < i => log[j].at < log[i].at
          /\ Continues(log, i, k)
      BY <1>1, <2>3, <3>1 DEF Chronicle
    <3>3. Continues(log', i, k)
      BY <2>1, <2>3, <3>2, ContinuesOn
    <3>4. \A j \in DOMAIN log' : j < i => j \in DOMAIN log
      BY <2>2, <2>3
    <3>. QED
      BY <2>2, <2>3, <3>2, <3>3, <3>4
  <2>4. CASE i \notin DOMAIN log
    <3>. DEFINE m == i - Len(log)
    <3>1. m \in DOMAIN entries[r] /\ log'[i] = entries[r][m] /\ i > Len(log)
      BY <2>2, <2>4
    <3>. HIDE DEF m
    <3>2. /\ k \in Targets(r)
          /\ log'[i].before = perm[k] /\ log'[i].at = at[r]
          /\ \A j \in DOMAIN entries[r] : entries[r][j].row = k => j = m
      BY <1>1, <3>1, Claimed DEF Fresh, Times
    <3>3. \A j \in DOMAIN log' : log'[j].row = k => j \in DOMAIN log \/ j = i
      <4>. SUFFICES ASSUME NEW j \in DOMAIN log', log'[j].row = k, j \notin DOMAIN log PROVE j = i
        OBVIOUS
      <4>1. j - Len(log) \in DOMAIN entries[r] /\ entries[r][j - Len(log)].row = k
        BY <2>2
      <4>2. j - Len(log) = i - Len(log)
        BY <3>2, <4>1 DEF m
      <4>. QED
        BY <2>2, <4>2
    <3>4. \A j \in DOMAIN log' : log'[j].row = k /\ j < i => j \in DOMAIN log /\ log[j].row = k
      BY <2>2, <3>3
    <3>5. \A j \in DOMAIN log : log[j].row = k => log[j].at < at[r]
      BY <1>1, <2>1, <3>2 DEF Fresh
    <3>6. \A j \in DOMAIN log' : log'[j].row = k /\ j < i => log'[j].at < log'[i].at
      BY <2>2, <3>2, <3>4, <3>5
    <3>7. Continues(log', i, k)
      <4>1. CASE (\A j \in DOMAIN log : log[j].row # k) /\ perm[k] = InitialRow(k)
        BY <2>2, <3>2, <3>3, <4>1 DEF Continues
      <4>2. ASSUME NEW j \in DOMAIN log, LastAbout(log, j, k), perm[k] = log[j].after
            PROVE  Continues(log', i, k)
        <5>1. /\ j \in DOMAIN log' /\ log'[j].row = k /\ j < i
              /\ log'[i].before = log'[j].after
          BY <2>2, <3>1, <3>2, <4>2 DEF LastAbout
        <5>2. \A h \in DOMAIN log' : log'[h].row = k /\ h < i => h <= j
          BY <3>4, <4>2 DEF LastAbout
        <5>. QED
          BY <5>1, <5>2 DEF Continues
      <4>. QED
        BY <4>1, <4>2 DEF LogTellsMatrix, Of, LastAbout
    <3>. QED
      BY <3>6, <3>7
  <2>. QED
    BY <2>3, <2>4
<1>. QED
  BY <1>2, <1>3, LogFrame

LEMMA AuditStep == IInv /\ AuditInv /\ [Next]_vars => AuditInv'
BY TimesStep, ProgressStep, ApartStep, FreshStep, ChronicleStep DEF IInv, AuditInv

\* The order of the commits of the entries about an audited row is that of their times.
LEMMA TrailOf == IInv /\ AuditInv => AuditTrail
<1>. SUFFICES ASSUME IInv, AuditInv, NEW k \in Rows, Audited(k)
              PROVE
    /\ \A i \in Of(k) :
         \/ {j \in Of(k) : log[j].at < log[i].at} = {} /\ log[i].before = InitialRow(k)
         \/ \E j \in {h \in Of(k) : log[h].at < log[i].at} :
              /\ \A h \in {h \in Of(k) : log[h].at < log[i].at} : log[h].at <= log[j].at
              /\ log[i].before = log[j].after
    /\ \A i \in Of(k) : (\A j \in Of(k) : log[j].at <= log[i].at) => perm[k] = log[i].after
  BY DEF AuditTrail, Audited
<1>1. \A i \in Of(k) : i \in DOMAIN log /\ log[i].row = k /\ i \in Nat /\ log[i].at \in Nat
  <2>1. log \in Seq(LogEntry)
    BY DEF IInv, TypeOK
  <2>2. \A i \in DOMAIN log : i \in Nat /\ log[i] \in LogEntry
    BY <2>1
  <2>. QED
    BY <2>2 DEF Of, LogEntry
<1>2. \A i, j \in Of(k) : j < i => log[j].at < log[i].at
  BY <1>1 DEF AuditInv, Chronicle
<1>3. \A i, j \in Of(k) : log[j].at < log[i].at <=> j < i
  BY <1>1, <1>2
<1>4. \A i, j \in Of(k) : log[j].at <= log[i].at <=> j <= i
  BY <1>1, <1>3
<1>5. ASSUME NEW i \in Of(k)
      PROVE
        \/ {j \in Of(k) : log[j].at < log[i].at} = {} /\ log[i].before = InitialRow(k)
        \/ \E j \in {h \in Of(k) : log[h].at < log[i].at} :
             /\ \A h \in {h \in Of(k) : log[h].at < log[i].at} : log[h].at <= log[j].at
             /\ log[i].before = log[j].after
  <2>1. Continues(log, i, k)
    BY <1>1, <1>5 DEF AuditInv, Chronicle
  <2>2. CASE log[i].before = InitialRow(k) /\ \A j \in Of(k) : i <= j
    BY <1>1, <1>3, <1>5, <2>2
  <2>3. ASSUME NEW j \in Of(k), j < i, log[i].before = log[j].after, \A h \in Of(k) : h < i => h <= j
        PROVE  \E g \in {h \in Of(k) : log[h].at < log[i].at} :
                 /\ \A h \in {h \in Of(k) : log[h].at < log[i].at} : log[h].at <= log[g].at
                 /\ log[i].before = log[g].after
    BY <1>3, <1>4, <1>5, <2>3
  <2>. QED
    BY <2>1, <2>2, <2>3 DEF Continues, Of
<1>6. ASSUME NEW i \in Of(k), \A j \in Of(k) : log[j].at <= log[i].at
      PROVE  perm[k] = log[i].after
  <2>1. PICK h \in Of(k) : (\A j \in Of(k) : j <= h) /\ perm[k] = log[h].after
    BY <1>6 DEF IInv, LogTellsMatrix
  <2>2. h <= i /\ i <= h
    BY <1>4, <1>6, <2>1
  <2>3. h = i
    BY <1>1, <1>6, <2>2
  <2>. QED
    BY <2>1, <2>3
<1>. QED
  BY <1>5, <1>6

\* The log as GetOperationLogs orders it is an audit trail of every row that no two open
\* transactions and no two inputs of a batch write: its entries follow from each other, from
\* the value the migration left to the present one.
THEOREM Audits == Spec => []AuditTrail
<1>1. Init => IInv /\ AuditInv
  BY InitInv, AuditInit
<1>2. IInv /\ AuditInv /\ [Next]_vars => (IInv /\ AuditInv)'
  BY InvStep, AuditStep
<1>3. IInv /\ AuditInv => AuditTrail
  BY TrailOf
<1>. QED
  BY <1>1, <1>2, <1>3, PTL DEF Spec

-----------------------------------------------------------------------------
(* Waiting *)

\* A finite set whose members all wait for a member has a cycle: a least subset of that kind,
\* in which nobody can be spared.
LEMMA CycleOfWaiters ==
  ASSUME NEW S, IsFiniteSet(S), S # {}, NEW W, \A x \in S : \E y \in S : <<x, y>> \in W
  PROVE  \E C \in SUBSET S :
           C # {} /\ \A x \in C : (\E y \in C : <<x, y>> \in W) /\ \E y \in C : <<y, x>> \in W
<1>. DEFINE Bound == {C \in SUBSET S : C # {} /\ \A x \in C : \E y \in C : <<x, y>> \in W}
<1>1. \E C \in Bound : \A D \in Bound : <<D, C>> \notin StrictSubsetOrdering(S)
  <2>1. Bound \subseteq FiniteSubsetsOf(S) /\ S \in Bound
    BY FS_Subset DEF FiniteSubsetsOf
  <2>2. IsWellFoundedOn(StrictSubsetOrdering(S), FiniteSubsetsOf(S))
    BY FS_StrictSubsetOrderingWellFounded
  <2>. HIDE DEF Bound
  <2>. QED
    BY <2>1, <2>2, WFMin
<1>2. PICK C \in Bound : \A D \in Bound : <<D, C>> \notin StrictSubsetOrdering(S)
  BY <1>1
<1>3. ASSUME NEW x \in C, \A y \in C : <<y, x>> \notin W
      PROVE  FALSE
  <2>1. \A z \in C : \E y \in C \ {x} : <<z, y>> \in W
    <3>1. ASSUME NEW z \in C
          PROVE  \E y \in C \ {x} : <<z, y>> \in W
      <4>1. PICK y \in C : <<z, y>> \in W
        BY <1>2
      <4>2. y # x
        BY <1>3, <4>1
      <4>. QED
        BY <4>1, <4>2
    <3>. QED
      BY <3>1
  <2>2. C \ {x} \in Bound
    BY <1>2, <1>3, <2>1
  <2>. QED
    BY <1>2, <1>3, <2>2 DEF StrictSubsetOrdering
<1>. QED
  BY <1>2, <1>3

LEMMA Unblocked == IInv => NoStandstill
<1>. SUFFICES ASSUME IInv, NEW S \in SUBSET {r \in Requests : pc[r] \in Open \cup {"begin"}}, S # {},
                     \A r \in S : /\ ~Able(r)
                                  /\ \A q \in WaitsFor(r) \ S : pc[q] \notin Open
              PROVE  \E r \in S : Deadlocked(r)
  BY DEF NoStandstill
<1>1. \A r \in Requests : \A q \in WaitsFor(r) : q \in Requests /\ pc[q] \in Open
  BY DEF WaitsFor, IInv, Shape
<1>2. ASSUME NEW r \in S
      PROVE  WaitsFor(r) # {}
  <2>1. pc[r] \in {"upsert", "update"}
    BY DEF Able, IInv, Shape
  <2>2. CASE pc[r] = "upsert"
    BY <2>2 DEF Able, LockedByOther, WaitsFor
  <2>3. CASE pc[r] = "update"
    BY <2>3 DEF Able, LockedByOther, WaitsFor
  <2>. QED
    BY <2>1, <2>2, <2>3
<1>. DEFINE W == {e \in S \X S : e[2] \in WaitsFor(e[1])}
<1>3. \A p, q \in S : <<p, q>> \in W <=> q \in WaitsFor(p)
  OBVIOUS
<1>4. \A p \in S : \E q \in S : <<p, q>> \in W
  BY <1>1, <1>2, <1>3
<1>5. IsFiniteSet(S)
  BY Catalogue, FS_Subset
<1>. HIDE DEF W
<1>6. PICK C \in SUBSET S :
        C # {} /\ \A x \in C : (\E y \in C : <<x, y>> \in W) /\ \E y \in C : <<y, x>> \in W
  BY <1>4, <1>5, CycleOfWaiters
<1>7. C \in SUBSET Requests /\ \A q \in C : WaitsFor(q) \cap C # {} /\ \E p \in C : q \in WaitsFor(p)
  BY <1>3, <1>6
<1>. QED
  BY <1>6, <1>7 DEF Deadlocked

\* Whatever rows the batches name and in whatever order, the requests that wait for a row can
\* always be served: somebody holds it who can go on, or a cycle is there to be broken.
THEOREM NeverStandsStill == Spec => []NoStandstill
BY InvHolds, Unblocked, PTL

=============================================================================
