----------------------------- MODULE Passwords -----------------------------
(***************************************************************************)
(* Accounts and their passwords (internal/account, ForgotPassword and      *)
(* ResetPassword of handler/auth_handler.go).                              *)
(*                                                                         *)
(* An administrator creates and edits accounts; a user who forgot the      *)
(* password is mailed a reset token.  An edit reads the whole row, changes *)
(* it in memory and writes it back; a reset looks its token up, writes the *)
(* password and then marks the token; a forgot request is answered at once *)
(* and served by a goroutine.  None holds a lock between two statements,   *)
(* so other requests run between them, except for the transaction that     *)
(* replaces the reset tokens of a user.                                    *)
(*                                                                         *)
(* A password is named by the request that set it, a reset token by the    *)
(* forgot request that made it.                                            *)
(***************************************************************************)
EXTENDS Naturals, FiniteSets

CONSTANTS
  Requests,
  Users,       \* ids of accounts, before and after they are created
  Assocs,
  AssocOf,     \* association of an account, or None; no edit changes it
  Emails,
  Seed,        \* accounts the seeder has created: [email, role] for each
  Callers,     \* claims of the callers: [role, assoc]
  Lifetime,    \* of a reset token: an hour
  MaxTime,     \* bound: the clock stops here
  None

\* "member" stands for every role but system_admin.
Roles == {"system_admin", "member"}

ASSUME Directory ==
  /\ None \notin Assocs \cup Users \cup Requests
  /\ AssocOf \in [Users -> Assocs \cup {None}]
  /\ \E S \in SUBSET Users : Seed \in [S -> [email : Emails, role : Roles]]
  /\ Callers \subseteq [role : Roles, assoc : Assocs \cup {None}]
  /\ Lifetime \in Nat /\ MaxTime \in Nat

VARIABLES
  now,        \* wall clock
  account,    \* account[u]: the row of users
  token,      \* token[q]: state of the row of password_reset_tokens made by q
  expires,    \* expires[q]: its expiry
  req,        \* req[r]: what request r asks for
  pc,         \* pc[r]: the next repository call of r, or its outcome
  who,        \* who[r]: the user a forgot or reset request has looked up
  read,       \* read[r]: password_hash as an edit has read it
  seen,       \* seen[r]: tokens the DELETE of r selected
  removed,    \* removed[r]: tokens deleted by the open transaction of r
  latest,     \* history: latest[u] is the last request that set a password on u
  crossed,    \* history: accounts that were edited across a change of password
  raced,      \* history: users two of whose token transactions overlapped
  late        \* history: resets sent after their token had been marked

rows    == <<account, token, expires>>
local   == <<who, read, seen, removed>>
history == <<latest, crossed, raced, late>>
vars    == <<now, rows, req, pc, local, history>>

Absent == [state |-> "absent"]
NoReq  == [op |-> "none"]

Steps    == {"insert", "findAccount", "update", "findEmail", "delete", "lock", "save", "mail",
             "findToken", "updatePassword", "markUsed"}
Finished == {"ok", "refused", "error"}
InTx(r)  == pc[r] \in {"lock", "save"}

Exists(u) == account[u] # Absent

\* A seeded password is named None: no request has set it.
SeedRow(u) == [state |-> "stored", email |-> Seed[u].email, role |-> Seed[u].role,
               hash |-> None, active |-> TRUE]

Init ==
  /\ now = 0
  /\ account = [u \in Users |-> IF u \in DOMAIN Seed THEN SeedRow(u) ELSE Absent]
  /\ token = [q \in Requests |-> "none"]
  /\ expires = [q \in Requests |-> 0]
  /\ req = [r \in Requests |-> NoReq]
  /\ pc = [r \in Requests |-> "idle"]
  /\ who = [r \in Requests |-> None]
  /\ read = [r \in Requests |-> None]
  /\ seen = [r \in Requests |-> {}]
  /\ removed = [r \in Requests |-> {}]
  /\ latest = [u \in Users |-> None]
  /\ crossed = {}
  /\ raced = {}
  /\ late = {}

Tick ==
  /\ now < MaxTime
  /\ now' = now + 1
  /\ UNCHANGED <<rows, req, pc, local, history>>

Goto(r, step) == pc' = [pc EXCEPT ![r] = step]

\* Ends request r and gives up its transaction, if any.
Finish(r, outcome) ==
  /\ Goto(r, outcome)
  /\ seen' = [seen EXCEPT ![r] = {}]
  /\ removed' = [removed EXCEPT ![r] = {}]

\* A failing statement, a cancelled request or a crash of the server.
Abort(r) ==
  /\ pc[r] \in Steps
  /\ Finish(r, "error")
  /\ UNCHANGED <<now, rows, req, who, read, history>>

\* UNIQUE (COALESCE(association_id, ''), email)
EmailTaken(u, email) ==
  \E v \in Users \ {u} : Exists(v) /\ AssocOf[v] = AssocOf[u] /\ account[v].email = email

-----------------------------------------------------------------------------
(* Creating and editing accounts: account.Service.Create and Update *)

SystemAdmin(c) == c.role = "system_admin"

\* The tenant check of Get and Activate.
MayTouch(c, u) == SystemAdmin(c) \/ (c.assoc # None /\ c.assoc = AssocOf[u])

\* Request r has set the password of u: edits that have read the row hold an old one.
SetsPassword(r, u) ==
  /\ latest' = [latest EXCEPT ![u] = r]
  /\ crossed' = crossed \cup {q \in Requests \ {r} : pc[q] = "update" /\ req[q].user = u}

\* An account goes to the association a system admin names, or to the caller's own.
MayCreate(c, u) == SystemAdmin(c) \/ AssocOf[u] = c.assoc

StartCreate(r, c, u, email, role) ==
  /\ pc[r] = "idle"
  /\ MayCreate(c, u)
  /\ u \notin DOMAIN Seed
  /\ \A q \in Requests : req[q].op = "create" => req[q].user # u
  /\ req' = [req EXCEPT ![r] = [op |-> "create", caller |-> c, user |-> u,
                                email |-> email, role |-> role]]
  /\ Goto(r, "insert")
  /\ UNCHANGED <<now, rows, local, history>>

\* The caller sees an error if the connection is lost after the INSERT.
InsertAccount(r) ==
  LET u == req[r].user IN
  /\ pc[r] = "insert"
  /\ \/ /\ EmailTaken(u, req[r].email)
        /\ Goto(r, "refused")
        /\ UNCHANGED <<account, latest, crossed>>
     \/ /\ ~EmailTaken(u, req[r].email)
        /\ account' = [account EXCEPT ![u] =
             [state |-> "stored", email |-> req[r].email, role |-> req[r].role,
              hash |-> r, active |-> TRUE]]
        /\ SetsPassword(r, u)
        /\ \E outcome \in {"ok", "error"} : Goto(r, outcome)
  /\ UNCHANGED <<now, token, expires, req, local, raced, late>>

\* An edit without a password leaves the password as it is: "" means no change.
StartEdit(r, c, u, email, role, password) ==
  /\ pc[r] = "idle"
  /\ req' = [req EXCEPT ![r] = [op |-> "edit", caller |-> c, user |-> u, email |-> email,
                                role |-> role, password |-> password]]
  /\ Goto(r, "findAccount")
  /\ UNCHANGED <<now, rows, local, history>>

\* Faulty: the tenant check is missing.
FindAccountFaulty(r) ==
  LET u == req[r].user IN
  /\ pc[r] = "findAccount"
  /\ IF Exists(u)
     THEN Goto(r, "update") /\ read' = [read EXCEPT ![r] = account[u].hash]
     ELSE Goto(r, "refused") /\ UNCHANGED read
  /\ UNCHANGED <<now, rows, req, who, seen, removed, history>>

FindAccount(r) ==
  LET u == req[r].user IN
  /\ pc[r] = "findAccount"
  /\ IF Exists(u) /\ MayTouch(req[r].caller, u)
     THEN Goto(r, "update") /\ read' = [read EXCEPT ![r] = account[u].hash]
     ELSE Goto(r, "refused") /\ UNCHANGED read
  /\ UNCHANGED <<now, rows, req, who, seen, removed, history>>

\* Faulty: the hash of the empty password is stored.
NewHashFaulty(r) == r

\* password_hash in the row that Update writes back.
NewHash(r) == IF req[r].password THEN r ELSE read[r]

UpdateAccount(r) ==
  LET u == req[r].user IN
  /\ pc[r] = "update"
  /\ \/ /\ EmailTaken(u, req[r].email)
        /\ Goto(r, "refused")
        /\ UNCHANGED <<account, latest, crossed>>
     \/ /\ ~EmailTaken(u, req[r].email)
        /\ account' = [account EXCEPT ![u].email = req[r].email, ![u].role = req[r].role,
                                      ![u].hash = NewHash(r)]
        /\ IF req[r].password THEN SetsPassword(r, u) ELSE UNCHANGED <<latest, crossed>>
        /\ \E outcome \in {"ok", "error"} : Goto(r, outcome)
  /\ UNCHANGED <<now, token, expires, req, local, raced, late>>

\* Activate and Deactivate: the UPDATE names is_active alone, and the facts checked
\* before it never change.
SetActive(c, u, b) ==
  /\ Exists(u) /\ MayTouch(c, u)
  /\ account' = [account EXCEPT ![u].active = b]
  /\ UNCHANGED <<now, token, expires, req, pc, local, history>>

-----------------------------------------------------------------------------
(* ForgotPassword: the goroutine *)

StartForgot(r, email) ==
  /\ pc[r] = "idle"
  /\ req' = [req EXCEPT ![r] = [op |-> "forgot", email |-> email]]
  /\ Goto(r, "findEmail")
  /\ UNCHANGED <<now, rows, local, history>>

WithEmail(email) == {u \in Users : Exists(u) /\ account[u].email = email /\ account[u].active}
AdminsWithEmail(email) == {u \in WithEmail(email) : account[u].role = "system_admin"}

\* A system admin comes first, then any account with the address.
FindEmail(r) ==
  LET email == req[r].email IN
  /\ pc[r] = "findEmail"
  /\ \/ /\ WithEmail(email) = {}
        /\ Goto(r, "refused")
        /\ UNCHANGED who
     \/ \E u \in IF AdminsWithEmail(email) # {} THEN AdminsWithEmail(email) ELSE WithEmail(email) :
          /\ who' = [who EXCEPT ![r] = u]
          /\ Goto(r, "delete")
  /\ UNCHANGED <<now, rows, req, read, seen, removed, history>>

\* Faulty: the earlier tokens of the user stay.
DeleteUnusedFaulty(r) ==
  /\ pc[r] = "delete"
  /\ Goto(r, "lock")
  /\ raced' = IF \E q \in Requests : InTx(q) /\ who[q] = who[r] THEN raced \cup {who[r]} ELSE raced
  /\ UNCHANGED <<now, rows, req, local, latest, crossed, late>>

\* The DELETE starts and takes its snapshot.
DeleteUnused(r) ==
  /\ pc[r] = "delete"
  /\ seen' = [seen EXCEPT ![r] = {q \in Requests : token[q] = "unused" /\ who[q] = who[r]}]
  /\ Goto(r, "lock")
  /\ raced' = IF \E q \in Requests : InTx(q) /\ who[q] = who[r] THEN raced \cup {who[r]} ELSE raced
  /\ UNCHANGED <<now, rows, req, who, read, removed, latest, crossed, late>>

LockedByOther(r, q) == \E p \in Requests \ {r} : q \in removed[p]

\* The DELETE waits for the rows other transactions have deleted, and skips the rows
\* that were deleted or marked since its snapshot.
LockUnused(r) ==
  /\ pc[r] = "lock"
  /\ \A q \in seen[r] : ~LockedByOther(r, q)
  /\ removed' = [removed EXCEPT ![r] = {q \in seen[r] : token[q] = "unused"}]
  /\ Goto(r, "save")
  /\ UNCHANGED <<now, rows, req, who, read, seen, history>>

\* INSERT and COMMIT.
SaveToken(r, outcome) ==
  /\ pc[r] = "save"
  /\ token' = [q \in Requests |-> IF q = r THEN "unused"
                                  ELSE IF q \in removed[r] THEN "deleted" ELSE token[q]]
  /\ expires' = [expires EXCEPT ![r] = now + Lifetime]
  /\ Finish(r, outcome)
  /\ UNCHANGED <<now, account, req, who, read, history>>

\* The mail with the token reaches the address of the request.
SendMail(r) ==
  /\ pc[r] = "mail"
  /\ Goto(r, "ok")
  /\ UNCHANGED <<now, rows, req, local, history>>

-----------------------------------------------------------------------------
(* ResetPassword *)

StartReset(r, q) ==
  /\ pc[r] = "idle"
  /\ pc[q] = "ok" /\ req[q].op = "forgot"
  /\ req' = [req EXCEPT ![r] = [op |-> "reset", token |-> q]]
  /\ Goto(r, "findToken")
  /\ late' = IF token[q] = "used" THEN late \cup {r} ELSE late
  /\ UNCHANGED <<now, rows, local, latest, crossed, raced>>

\* Faulty: used_at is not looked at.
FindTokenFaulty(r) ==
  LET q == req[r].token IN
  /\ pc[r] = "findToken"
  /\ IF token[q] \in {"unused", "used"} /\ expires[q] > now
     THEN Goto(r, "updatePassword") /\ who' = [who EXCEPT ![r] = who[q]]
     ELSE Goto(r, "refused") /\ UNCHANGED who
  /\ UNCHANGED <<now, rows, req, read, seen, removed, history>>

FindToken(r) ==
  LET q == req[r].token IN
  /\ pc[r] = "findToken"
  /\ IF token[q] = "unused" /\ expires[q] > now
     THEN Goto(r, "updatePassword") /\ who' = [who EXCEPT ![r] = who[q]]
     ELSE Goto(r, "refused") /\ UNCHANGED who
  /\ UNCHANGED <<now, rows, req, read, seen, removed, history>>

\* The token is not looked at again.
UpdatePassword(r, outcome) ==
  /\ pc[r] = "updatePassword"
  /\ account' = [account EXCEPT ![who[r]].hash = r]
  /\ SetsPassword(r, who[r])
  /\ Goto(r, outcome)
  /\ UNCHANGED <<now, token, expires, req, local, raced, late>>

\* The UPDATE waits for a transaction that deletes the token.  The request succeeds
\* whether or not the token was marked.
MarkUsed(r) ==
  LET q == req[r].token IN
  /\ pc[r] = "markUsed"
  /\ ~LockedByOther(r, q)
  /\ token' = IF token[q] = "unused" THEN [token EXCEPT ![q] = "used"] ELSE token
  /\ Goto(r, "ok")
  /\ UNCHANGED <<now, account, expires, req, local, history>>

\* MarkUsed fails: the error is logged only.
MarkFails(r) ==
  /\ pc[r] = "markUsed"
  /\ Goto(r, "ok")
  /\ UNCHANGED <<now, rows, req, local, history>>

-----------------------------------------------------------------------------

Next ==
  \/ Tick
  \/ \E r \in Requests :
       \/ \E c \in Callers, u \in Users, email \in Emails, role \in Roles :
            \/ StartCreate(r, c, u, email, role)
            \/ \E password \in BOOLEAN : StartEdit(r, c, u, email, role, password)
       \/ InsertAccount(r) \/ FindAccount(r) \/ UpdateAccount(r)
       \/ \E email \in Emails : StartForgot(r, email)
       \/ FindEmail(r) \/ DeleteUnused(r) \/ LockUnused(r)
       \/ \E outcome \in {"mail", "error"} : SaveToken(r, outcome)
       \/ SendMail(r)
       \/ \E q \in Requests : StartReset(r, q)
       \/ FindToken(r)
       \/ \E outcome \in {"markUsed", "error"} : UpdatePassword(r, outcome)
       \/ MarkUsed(r) \/ MarkFails(r)
       \/ Abort(r)
  \/ \E c \in Callers, u \in Users, b \in BOOLEAN : SetActive(c, u, b)

Spec == Init /\ [][Next]_vars

-----------------------------------------------------------------------------
(* Correctness *)

AccountRow == [state : {"stored"}, email : Emails, role : Roles, hash : Requests \cup {None},
               active : BOOLEAN]
CreateReq  == [op : {"create"}, caller : Callers, user : Users, email : Emails, role : Roles]
EditReq    == [op : {"edit"}, caller : Callers, user : Users, email : Emails, role : Roles,
               password : BOOLEAN]
ForgotReq  == [op : {"forgot"}, email : Emails]
ResetReq   == [op : {"reset"}, token : Requests]

\* The type of every variable.
TypeOK ==
  /\ now \in 0..MaxTime
  /\ account \in [Users -> AccountRow \cup {Absent}]
  /\ token \in [Requests -> {"none", "unused", "used", "deleted"}]
  /\ expires \in [Requests -> Nat]
  /\ req \in [Requests -> CreateReq \cup EditReq \cup ForgotReq \cup ResetReq \cup {NoReq}]
  /\ pc \in [Requests -> {"idle"} \cup Steps \cup Finished]
  /\ who \in [Requests -> Users \cup {None}]
  /\ read \in [Requests -> Requests \cup {None}]
  /\ seen \in [Requests -> SUBSET Requests]
  /\ removed \in [Requests -> SUBSET Requests]
  /\ latest \in [Users -> Requests \cup {None}]
  /\ crossed \subseteq Requests
  /\ raced \subseteq Users
  /\ late \subseteq Requests

\* Whose password r may set: the account it creates, one it edits for a caller of the
\* same association, or the one its reset token was made for.
MaySet(r, u) ==
  CASE req[r].op = "create" -> req[r].user = u
    [] req[r].op = "edit"   -> req[r].user = u /\ req[r].password /\ MayTouch(req[r].caller, u)
    [] req[r].op = "reset"  -> who[req[r].token] = u
    [] OTHER                -> FALSE

\* A stored password was set by somebody entitled to: an edit that writes the row back
\* does not bring in a password of another account, and a reset hits the account whose
\* token was mailed.
PasswordsEntitled == 
  \A u \in Users : Exists(u) =>
    IF account[u].hash = None THEN u \in DOMAIN Seed ELSE MaySet(account[u].hash, u)

\* The stored password is the one that was set last, unless an edit without a password
\* had read the row before that and wrote it back after.
LatestPassword ==
  \A u \in Users : Exists(u) =>
    \/ account[u].hash = latest[u]
    \/ \E q \in crossed : /\ req[q].user = u /\ ~req[q].password
                          /\ pc[q] \in {"ok", "error"}

\* A reset sent after its token had been marked as used sets no password.
UsedTokenRefused ==
  \A r \in late : \A u \in Users : latest[u] # r /\ (Exists(u) => account[u].hash # r)

\* A user has one unused reset token at most, unless two forgot requests of the user
\* replaced the tokens at the same time.
OneResetToken ==
  \A p, q \in Requests :
    (p # q /\ token[p] = "unused" /\ token[q] = "unused" /\ who[p] = who[q]) => who[p] \in raced

\* "The password is changed only if one was entered" (account/service.go:139).
EditKeepsPassword ==
  [][\A r \in Requests :
       (req[r].op = "edit" /\ pc[r] = "update" /\ pc'[r] = "ok" /\ ~req[r].password) =>
         account'[req[r].user].hash = account[req[r].user].hash]_vars

=============================================================================
