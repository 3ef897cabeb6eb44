----------------------------- MODULE Permissions -----------------------------
(***************************************************************************)
(* Permissions and their audit log (backend/internal/permission and        *)
(* middleware/permission.go).                                              *)
(*                                                                         *)
(* The matrix gives every role and feature a default row and, where an     *)
(* association has customised it, a row of the association.  An update     *)
(* writes a batch of rows in one transaction, an emergency appointment     *)
(* changes the role of a user in one; both append to operation_logs, the   *)
(* appointment also posts a notice.  Transactions run under READ           *)
(* COMMITTED: a SELECT reads the committed rows and those the transaction  *)
(* has written, and takes no lock; an UPSERT or UPDATE waits for the       *)
(* transaction that has written the row, and overwrites it.                *)
(*                                                                         *)
(* An unknown role, feature or association makes a statement fail, as any  *)
(* other failure does: Abort.  Roles and features never change.            *)
(***************************************************************************)
EXTENDS Naturals, Sequences, FiniteSets

CONSTANTS
  Requests,    \* requests of system admins
  Assocs, Users, Roles, Features,
  SystemAdmin, \* the role system_admin
  Actions,     \* can_view, can_create, ...
  Grants,      \* contents of a row of the matrix
  Allows,      \* Allows[g]: the actions a row with contents g allows
  Batches,     \* permissions of update requests: sequences of inputs
  Seeded,      \* default rows inserted by the migration
  AssocOf,     \* association of a user, None for a system admin
  RoleOf,      \* role a user is created with
  Edits,       \* roles that edits of accounts give, with the user
  None

Scopes == Assocs \cup {None}           \* None: the default rows
Cells  == Roles \X Features
Rows   == Scopes \X Cells              \* keys of role_permissions
Input  == [cell : Cells, grant : Grants]

ASSUME Catalogue ==
  /\ IsFiniteSet(Requests)
  /\ None \notin Assocs /\ None \notin Grants
  /\ Allows \in [Grants -> SUBSET Actions]
  /\ SystemAdmin \in Roles
  /\ Batches \subseteq Seq(Input)
  /\ Seeded \in [Cells -> Grants]
  /\ AssocOf \in [Users -> Scopes]
  /\ RoleOf \in [Users -> Roles]
  /\ Edits \subseteq Users \X Roles
  /\ Users \cap Rows = {}

VARIABLES
  perm,     \* perm[k]: contents of row k of role_permissions, or None
  role,     \* role[u]: role in the row of user u
  active,   \* active[u]: is_active in the row of user u
  log,      \* operation_logs, in the order the transactions committed
  notices,  \* notices that appointments posted
  req,      \* req[r]: what request r asks for
  pc,       \* pc[r]: the next statement of r, or its outcome
  at,       \* at[r]: NOW() in the transaction of r, its start
  done,     \* done[r]: inputs of r that have been handled
  before,   \* before[r]: value r has read to log it as before_value
  writes,   \* writes[r]: rows the open transaction of r has written, and their values
  entries,  \* entries[r]: log entries of the open transaction of r
  posted,   \* posted[r]: notices of the open transaction of r
  edited,   \* history: the edits of accounts that were made
  raced     \* history: rows that two open transactions were to write

db   == <<perm, role, active, log, notices>>
tx   == <<done, before, writes, entries, posted>>
vars == <<db, req, pc, at, tx, edited, raced>>

NoReq    == [op |-> "none"]
Finished == {"ok", "error"}
Open     == {"next", "upsert", "log", "find", "update", "logRole", "post", "commit"}

Init ==
  /\ perm = [k \in Rows |-> IF k[1] = None THEN Seeded[k[2]] ELSE None]
  /\ role = RoleOf
  /\ active = [u \in Users |-> TRUE]
  /\ log = <<>>
  /\ notices = {}
  /\ req = [r \in Requests |-> NoReq]
  /\ pc = [r \in Requests |-> "idle"]
  /\ at = [r \in Requests |-> 0]
  /\ done = [r \in Requests |-> 0]
  /\ before = [r \in Requests |-> None]
  /\ writes = [r \in Requests |-> <<>>]
  /\ entries = [r \in Requests |-> <<>>]
  /\ posted = [r \in Requests |-> {}]
  /\ edited = {}
  /\ raced = {}

Goto(r, step) == pc' = [pc EXCEPT ![r] = step]

\* Ends request r; its transaction is over.
Finish(r, outcome) ==
  /\ Goto(r, outcome)
  /\ done' = [done EXCEPT ![r] = 0]
  /\ before' = [before EXCEPT ![r] = None]
  /\ writes' = [writes EXCEPT ![r] = <<>>]
  /\ entries' = [entries EXCEPT ![r] = <<>>]
  /\ posted' = [posted EXCEPT ![r] = {}]

\* The row an input of request r is about.
RowOf(r, i) == <<req[r].scope, req[r].inputs[i].cell>>

IsFixed(r, i) == req[r].inputs[i].cell[1] = SystemAdmin

\* The rows r writes if it commits.
Targets(r) ==
  IF req[r].op = "update"
  THEN {RowOf(r, i) : i \in {i \in DOMAIN req[r].inputs : ~IsFixed(r, i)}}
  ELSE {req[r].user}

LockedByOther(r, k) == \E q \in Requests \ {r} : k \in DOMAIN writes[q]

\* Row k as a statement of r sees it.
Seen(r, k) ==
  IF k \in DOMAIN writes[r] THEN writes[r][k] ELSE IF k \in Rows THEN perm[k] ELSE role[k]

\* f with key k set to v.
Put(f, k, v) == [x \in DOMAIN f \cup {k} |-> IF x = k THEN v ELSE f[x]]

Write(r, k, v) == writes' = [writes EXCEPT ![r] = Put(@, k, v)]

Entry(r, k, after) == [by |-> r, row |-> k, before |-> before[r], after |-> after, at |-> at[r]]

-----------------------------------------------------------------------------
(* A transaction *)

\* The start of the transaction, whose time every NOW() of the transaction returns.
Begin(r) ==
  /\ pc[r] = "begin"
  /\ at' = [at EXCEPT ![r] = Cardinality({q \in Requests : at[q] # 0}) + 1]
  /\ raced' = raced \cup {k \in Targets(r) : \E q \in Requests : pc[q] \in Open /\ k \in Targets(q)}
  /\ Goto(r, IF req[r].op = "update" THEN "next" ELSE "find")
  /\ UNCHANGED <<db, req, tx, edited>>

\* The caller sees an error if the connection is lost after the commit.
Commit(r, outcome) ==
  /\ pc[r] = "commit"
  /\ perm' = [k \in Rows |-> IF k \in DOMAIN writes[r] THEN writes[r][k] ELSE perm[k]]
  /\ role' = [u \in Users |-> IF u \in DOMAIN writes[r] THEN writes[r][u] ELSE role[u]]
  /\ log' = log \o entries[r]
  /\ notices' = notices \cup posted[r]
  /\ Finish(r, outcome)
  /\ UNCHANGED <<active, req, at, edited, raced>>

\* Faulty: the rollback is missing, and the transaction keeps its locks.
AbortFaulty(r) ==
  /\ pc[r] \in Open \cup {"begin"}
  /\ Goto(r, "error")
  /\ UNCHANGED <<db, req, at, tx, edited, raced>>

\* A failing statement, a cancelled request or a crash: the transaction is rolled back.
Abort(r) ==
  /\ pc[r] \in Open \cup {"begin"}
  /\ Finish(r, "error")
  /\ UNCHANGED <<db, req, at, edited, raced>>

\* The row whose writer r waits for.
WaitsFor(r) ==
  LET k == CASE pc[r] = "upsert" -> {RowOf(r, done[r] + 1)}
             [] pc[r] = "update" -> {req[r].user}
             [] OTHER -> {}
  IN {q \in Requests \ {r} : DOMAIN writes[q] \cap k # {}}

\* r is in a cycle of waiters.
Deadlocked(r) ==
  \E C \in SUBSET Requests :
    /\ r \in C
    /\ \A q \in C : WaitsFor(q) \cap C # {} /\ \E p \in C : q \in WaitsFor(p)

\* PostgreSQL cancels a transaction of a cycle of waiters.
DeadlockAbort(r) ==
  /\ Deadlocked(r)
  /\ Finish(r, "error")
  /\ UNCHANGED <<db, req, at, edited, raced>>

-----------------------------------------------------------------------------
(* UpdatePermissions *)

StartUpdate(r, scope, inputs) ==
  /\ pc[r] = "idle"
  /\ req' = [req EXCEPT ![r] = [op |-> "update", scope |-> scope, inputs |-> inputs]]
  /\ Goto(r, "begin")
  /\ UNCHANGED <<db, at, tx, edited, raced>>

\* Faulty: the rows of system_admin are written like the others.
NextInputFaulty(r) ==
  /\ pc[r] = "next"
  /\ IF done[r] = Len(req[r].inputs) THEN Goto(r, "commit") /\ UNCHANGED <<done, before>>
     ELSE /\ before' = [before EXCEPT ![r] = Seen(r, <<None, RowOf(r, done[r] + 1)[2]>>)]
          /\ Goto(r, "upsert")
          /\ UNCHANGED done
  /\ UNCHANGED <<db, req, at, writes, entries, posted, edited, raced>>

\* The next input: rows of system_admin are skipped, of the others the present value is
\* read for the log.
NextInput(r) ==
  LET i == done[r] + 1 IN
  /\ pc[r] = "next"
  /\ \/ /\ done[r] = Len(req[r].inputs)
        /\ Goto(r, "commit")
        /\ UNCHANGED <<done, before>>
     \/ /\ done[r] < Len(req[r].inputs)
        /\ IsFixed(r, i)
        /\ done' = [done EXCEPT ![r] = i]
        /\ UNCHANGED <<pc, before>>
     \/ /\ done[r] < Len(req[r].inputs)
        /\ ~IsFixed(r, i)
        /\ before' = [before EXCEPT ![r] = Seen(r, RowOf(r, i))]
        /\ Goto(r, "upsert")
        /\ UNCHANGED done
  /\ UNCHANGED <<db, req, at, writes, entries, posted, edited, raced>>

\* Faulty: the default row is written whatever the scope.
UpsertFaulty(r) ==
  LET i == done[r] + 1 IN
  /\ pc[r] = "upsert"
  /\ Write(r, <<None, req[r].inputs[i].cell>>, req[r].inputs[i].grant)
  /\ Goto(r, "log")
  /\ UNCHANGED <<db, req, at, done, before, entries, posted, edited, raced>>

\* INSERT ... ON CONFLICT DO UPDATE
Upsert(r) ==
  LET i == done[r] + 1 IN
  /\ pc[r] = "upsert"
  /\ ~LockedByOther(r, RowOf(r, i))
  /\ Write(r, RowOf(r, i), req[r].inputs[i].grant)
  /\ Goto(r, "log")
  /\ UNCHANGED <<db, req, at, done, before, entries, posted, edited, raced>>

\* Faulty: the entry is inserted outside the transaction.
LogUpdateFaulty(r) ==
  LET i == done[r] + 1 IN
  /\ pc[r] = "log"
  /\ log' = Append(log, Entry(r, RowOf(r, i), req[r].inputs[i].grant))
  /\ done' = [done EXCEPT ![r] = i]
  /\ Goto(r, "next")
  /\ UNCHANGED <<perm, role, active, notices, req, at, before, writes, entries, posted, edited, raced>>

LogUpdate(r) ==
  LET i == done[r] + 1 IN
  /\ pc[r] = "log"
  /\ entries' = [entries EXCEPT ![r] = Append(@, Entry(r, RowOf(r, i), req[r].inputs[i].grant))]
  /\ done' = [done EXCEPT ![r] = i]
  /\ Goto(r, "next")
  /\ UNCHANGED <<db, req, at, before, writes, posted, edited, raced>>

-----------------------------------------------------------------------------
(* EmergencyAppointment, and the actions on users that run beside it *)

StartAppointment(r, u, new) ==
  /\ pc[r] = "idle"
  /\ req' = [req EXCEPT ![r] = [op |-> "appoint", user |-> u, role |-> new]]
  /\ Goto(r, "begin")
  /\ UNCHANGED <<db, at, tx, edited, raced>>

FindUser(r) ==
  /\ pc[r] = "find"
  /\ \/ /\ active[req[r].user]
        /\ before' = [before EXCEPT ![r] = role[req[r].user]]
        /\ Goto(r, "update")
        /\ UNCHANGED <<done, writes, entries, posted>>
     \/ ~active[req[r].user] /\ Finish(r, "error")
  /\ UNCHANGED <<db, req, at, edited, raced>>

UpdateRole(r) ==
  /\ pc[r] = "update"
  /\ ~LockedByOther(r, req[r].user)
  /\ Write(r, req[r].user, req[r].role)
  /\ Goto(r, "logRole")
  /\ UNCHANGED <<db, req, at, done, before, entries, posted, edited, raced>>

LogRole(r) ==
  /\ pc[r] = "logRole"
  /\ entries' = [entries EXCEPT ![r] = Append(@, Entry(r, req[r].user, req[r].role))]
  /\ Goto(r, "post")
  /\ UNCHANGED <<db, req, at, done, before, writes, posted, edited, raced>>

\* Faulty: the notice is posted outside the transaction, to no association too.
PostNoticeFaulty(r) ==
  /\ pc[r] = "post"
  /\ notices' = notices \cup {[by |-> r, assoc |-> AssocOf[req[r].user]]}
  /\ Goto(r, "commit")
  /\ UNCHANGED <<perm, role, active, log, req, at, tx, edited, raced>>

\* The association of the user, if any, is told.
PostNotice(r) ==
  LET a == AssocOf[req[r].user] IN
  /\ pc[r] = "post"
  /\ posted' = [posted EXCEPT ![r] = IF a = None THEN @ ELSE @ \cup {[by |-> r, assoc |-> a]}]
  /\ Goto(r, "commit")
  /\ UNCHANGED <<db, req, at, done, before, writes, entries, edited, raced>>

\* account Service.Update: its UPDATE sets the role the form holds.
EditRole(u, new) ==
  /\ \A r \in Requests : u \notin DOMAIN writes[r]
  /\ role' = [role EXCEPT ![u] = new]
  /\ edited' = edited \cup {<<u, new>>}
  /\ UNCHANGED <<perm, active, log, notices, req, pc, at, tx, raced>>

\* account Service.Activate and Deactivate
SetActive(u, b) ==
  /\ \A r \in Requests : u \notin DOMAIN writes[r]
  /\ active[u] # b
  /\ active' = [active EXCEPT ![u] = b]
  /\ UNCHANGED <<perm, role, log, notices, req, pc, at, tx, edited, raced>>

-----------------------------------------------------------------------------
(* What the middleware asks *)

\* GetPermissionByRoleAndFeature: the row of the association before the default row.
Effective(a, cell) == IF perm[<<a, cell>>] # None THEN perm[<<a, cell>>] ELSE perm[<<None, cell>>]

\* RequireFeature: a token of role o and association a may take the action.
Allowed(o, a, feature, action) == o = SystemAdmin \/ action \in Allows[Effective(a, <<o, feature>>)]

-----------------------------------------------------------------------------

\* The steps the server or the database takes for a started request.
Proceed(r) ==
  \/ Begin(r) \/ \E outcome \in Finished : Commit(r, outcome)
  \/ NextInput(r) \/ Upsert(r) \/ LogUpdate(r)
  \/ FindUser(r) \/ UpdateRole(r) \/ LogRole(r) \/ PostNotice(r)
  \/ DeadlockAbort(r)

Next ==
  \/ \E r \in Requests :
       \/ \E scope \in Scopes, inputs \in Batches : StartUpdate(r, scope, inputs)
       \/ \E u \in Users, new \in Roles : StartAppointment(r, u, new)
       \/ Proceed(r)
       \/ Abort(r)
  \/ \E e \in Edits : EditRole(e[1], e[2])
  \/ \E u \in Users, b \in BOOLEAN : SetActive(u, b)

Spec == Init /\ [][Next]_vars

\* Handlers run, and the database completes every statement that need not wait.
FairSpec == Spec /\ \A r \in Requests : WF_vars(Proceed(r))

-----------------------------------------------------------------------------
(* Correctness *)

UpdateReq  == [op : {"update"}, scope : Scopes, inputs : Batches]
AppointReq == [op : {"appoint"}, user : Users, role : Roles]
LogEntry   == [by : Requests, row : Rows \cup Users, before : Grants \cup Roles \cup {None},
               after : Grants \cup Roles, at : Nat]
Notice     == [by : Requests, assoc : Assocs]

\* The type of every variable: the tables of 007_permissions.sql and
\* 008_permission_per_association.sql, and the program counters of the handlers.
TypeOK ==
  /\ perm \in [Rows -> Grants \cup {None}]
  /\ role \in [Users -> Roles]
  /\ active \in [Users -> BOOLEAN]
  /\ log \in Seq(LogEntry)
  /\ notices \subseteq Notice
  /\ req \in [Requests -> UpdateReq \cup AppointReq \cup {NoReq}]
  /\ pc \in [Requests -> {"idle", "begin"} \cup Open \cup Finished]
  /\ at \in [Requests -> Nat]
  /\ done \in [Requests -> Nat]
  /\ before \in [Requests -> Grants \cup Roles \cup {None}]
  /\ DOMAIN writes = Requests
  /\ \A r \in Requests : DOMAIN writes[r] \subseteq Rows \cup Users
  /\ entries \in [Requests -> Seq(LogEntry)]
  /\ posted \in [Requests -> SUBSET Notice]
  /\ edited \subseteq Edits
  /\ raced \subseteq Rows \cup Users

InitialRow(k) == IF k[1] = None THEN Seeded[k[2]] ELSE None

\* Positions of the log about row k.
Of(k) == {i \in DOMAIN log : log[i].row = k}

\* The log accounts for the matrix: every row holds what the last committed entry about
\* it says, or what the migration left; updates that were rolled back, or cancelled by a
\* deadlock, leave neither.
LogTellsMatrix ==
  \A k \in Rows :
    \/ Of(k) = {} /\ perm[k] = InitialRow(k)
    \/ \E i \in Of(k) : (\A j \in Of(k) : j <= i) /\ perm[k] = log[i].after

\* The body of r names row k twice: its two entries have the same created_at.
NamesTwice(r, k) ==
  req[r].op = "update" /\ \E i, j \in DOMAIN req[r].inputs : i # j /\ RowOf(r, i) = k /\ RowOf(r, j) = k

\* Rows no two transactions were to write at once, and none twice.
Audited(k) == k \in Rows /\ k \notin raced /\ \A r \in Requests : ~NamesTwice(r, k)

\* The log as GetOperationLogs orders it, by created_at, is an audit trail of every such
\* row: each entry starts from the value the one before it left, and the newest gives the
\* present value.
AuditTrail ==
  \A k \in {x \in Rows : Audited(x)} :
    /\ \A i \in Of(k) :
         LET earlier == {j \in Of(k) : log[j].at < log[i].at} IN
         \/ earlier = {} /\ log[i].before = InitialRow(k)
         \/ \E j \in earlier : /\ \A h \in earlier : log[h].at <= log[j].at
                               /\ log[i].before = log[j].after
    /\ \A i \in Of(k) : (\A j \in Of(k) : log[j].at <= log[i].at) => perm[k] = log[i].after

\* What the middleware allows the tokens of an association changes only by an update of
\* that association or, where it has no row of its own, of the defaults; nothing ever
\* changes for a system admin.
OnlyOwnUpdates ==
  [][\A o \in Roles, a \in Scopes, f \in Features, action \in Actions :
       Allowed(o, a, f, action)' # Allowed(o, a, f, action) =>
         \E r \in Requests :
           /\ pc[r] = "commit" /\ req[r].op = "update" /\ o # SystemAdmin
           /\ req[r].scope = a \/ (req[r].scope = None /\ perm[<<a, <<o, f>>>>] = None)]_vars

\* An appointment is logged exactly if it is announced to the user's association, an
\* acknowledged one is both, and nobody holds a role that neither an appointment's entry
\* nor an edit of the account explains.
AppointmentsRecorded ==
  /\ \A r \in Requests : req[r].op = "appoint" =>
       LET logged == \E i \in DOMAIN log : log[i].by = r
           a      == AssocOf[req[r].user]
       IN /\ logged => a = None \/ [by |-> r, assoc |-> a] \in notices
          /\ (\E n \in notices : n.by = r) => logged
          /\ pc[r] = "ok" => logged
  /\ \A u \in Users : \/ role[u] = RoleOf[u]
                      \/ <<u, role[u]>> \in edited
                      \/ \E i \in DOMAIN log : log[i].row = u /\ log[i].after = role[u]

\* The next statement of r can run.
Able(r) ==
  /\ pc[r] \in Open \cup {"begin"}
  /\ pc[r] = "next" => done[r] <= Len(req[r].inputs)
  /\ pc[r] = "upsert" => ~LockedByOther(r, RowOf(r, done[r] + 1))
  /\ pc[r] = "update" => ~LockedByOther(r, req[r].user)

\* No group of requests waits for nothing but itself: one of them can go on, is in a cycle
\* the database breaks, or waits for the open transaction of a request outside.
NoStandstill ==
  \A S \in SUBSET {r \in Requests : pc[r] \in Open \cup {"begin"}} :
    S = {} \/ \E r \in S : \/ Able(r) \/ Deadlocked(r)
                         \/ \E q \in WaitsFor(r) \ S : pc[q] \in Open

\* Every request gets an answer, those that wait for a row and those that wait for each
\* other included.
EveryRequestAnswered == \A r \in Requests : pc[r] = "begin" ~> pc[r] \in Finished
=============================================================================
