--------------------------- MODULE PasswordsProofs ---------------------------
(***************************************************************************)
(* Proofs about Passwords: whose password a request may set, that nothing  *)
(* but a stale edit brings an old one back, and that reset tokens are for  *)
(* one use and one at a time.                                              *)
(***************************************************************************)
EXTENDS Passwords, TLAPS

ForgotSteps == {"findEmail", "delete", "lock", "save", "mail"}
ResetSteps  == {"findToken", "updatePassword", "markUsed"}

\* What a request asks for fits the statement it is at, and the user it has looked up exists.
Shape ==
  \A r \in Requests :
    /\ pc[r] = "idle" => req[r] = NoReq
    /\ pc[r] = "insert" => req[r] \in CreateReq
    /\ pc[r] \in {"findAccount", "update"} => req[r] \in EditReq
    /\ pc[r] \in ForgotSteps => req[r] \in ForgotReq
    /\ pc[r] \in ResetSteps => req[r] \in ResetReq
    /\ pc[r] = "update" => Exists(req[r].user) /\ MayTouch(req[r].caller, req[r].user)
    /\ who[r] # None => Exists(who[r])
    /\ pc[r] \in {"delete", "lock", "save", "mail", "updatePassword", "markUsed"} => who[r] # None
    /\ token[r] # "none" =>
         who[r] # None /\ req[r] \in ForgotReq /\ pc[r] \in {"mail", "ok", "error"}
    /\ req[r] \in ResetReq =>
         LET q == req[r].token IN
           /\ pc[q] = "ok" /\ req[q] \in ForgotReq
           /\ pc[r] \in {"updatePassword", "markUsed"} => who[r] = who[q]

\* The source of a hash: the seeder or a request entitled to set it.
Entitled(h, u) == IF h = None THEN u \in DOMAIN Seed ELSE MaySet(h, u)

HashesEntitled ==
  /\ \A u \in Users : Exists(u) => Entitled(account[u].hash, u)
  /\ \A r \in Requests : pc[r] = "update" => Entitled(read[r], req[r].user)

\* r has set no password that is stored, read or remembered.
Unset(r) ==
  /\ \A u \in Users : latest[u] # r /\ (Exists(u) => account[u].hash # r)
  /\ \A q \in Requests : read[q] # r

\* An open transaction deletes unused tokens, each of which no other one deletes.
DeletesUnused ==
  \A r \in Requests : \A q \in removed[r] :
    pc[r] = "save" /\ token[q] = "unused" /\ ~LockedByOther(r, q)

LateRefused ==
  /\ \A r \in Requests : pc[r] = "idle" => Unset(r)
  /\ \A r \in late : /\ Unset(r)
                     /\ req[r] \in ResetReq /\ token[req[r].token] = "used"
                     /\ pc[r] \in {"findToken", "refused", "error"}

\* An edit without a password has written the row of u back across a change of its password.
Undone(u) == \E q \in crossed : req[q].user = u /\ ~req[q].password /\ pc[q] \in {"ok", "error"}

LatestRead ==
  /\ LatestPassword
  /\ \A q \in crossed : req[q] \in EditReq
  /\ \A q \in Requests : pc[q] = "update" =>
       read[q] = account[req[q].user].hash \/ q \in crossed \/ Undone(req[q].user)

\* Unless its user is in raced, a transaction that replaces tokens is alone and has selected
\* all unused ones.
Replaces ==
  /\ OneResetToken
  /\ \A r \in Requests : InTx(r) /\ who[r] \notin raced =>
       /\ \A p \in Requests \ {r} : InTx(p) => who[p] # who[r]
       /\ \A q \in Requests : token[q] = "unused" /\ who[q] = who[r] =>
            q \in (IF pc[r] = "lock" THEN seen[r] ELSE removed[r])

\* The inductive invariant.
IInv ==
  /\ TypeOK
  /\ Shape
  /\ HashesEntitled
  /\ DeletesUnused
  /\ LateRefused
  /\ LatestRead
  /\ Replaces
\* A seeded account has a row.
LEMMA SeedTyped ==
  /\ DOMAIN Seed \subseteq Users
  /\ \A u \in DOMAIN Seed : SeedRow(u) \in AccountRow /\ SeedRow(u) # Absent
<1>1. PICK S \in SUBSET Users : Seed \in [S -> [email : Emails, role : Roles]]
  BY Directory
<1>. QED
  BY <1>1 DEF SeedRow, AccountRow, Absent

LEMMA InitInv == Init => IInv
<1>. SUFFICES ASSUME Init PROVE IInv
  OBVIOUS
<1>1. TypeOK
  <2>1. account \in [Users -> AccountRow \cup {Absent}]
    BY SeedTyped DEF Init
  <2>. QED
    BY <2>1, Directory DEF Init, TypeOK
<1>2. Shape
  BY DEF Init, Shape, ForgotSteps, ResetSteps, NoReq, ResetReq
<1>3. HashesEntitled /\ DeletesUnused /\ LateRefused /\ Replaces
  <2>1. \A u \in Users : Exists(u) => u \in DOMAIN Seed /\ account[u].hash = None
    BY DEF Init, Exists, SeedRow
  <2>2. None \notin Requests
    BY Directory
  <2>. QED
    BY <2>1, <2>2 DEF Init, HashesEntitled, Entitled, DeletesUnused, LateRefused, Unset, Replaces,
       OneResetToken, InTx
<1>4. LatestRead
  BY DEF Init, LatestRead, LatestPassword, Exists, SeedRow
<1>. QED
  BY <1>1, <1>2, <1>3, <1>4 DEF IInv

-----------------------------------------------------------------------------
(* Types *)

\* The fields of a request, by the statement it is at.
LEMMA Asked ==
  ASSUME Shape, NEW r \in Requests
  PROVE  /\ pc[r] = "insert" => /\ req[r].op = "create" /\ req[r].user \in Users
                                /\ req[r].email \in Emails /\ req[r].role \in Roles
         /\ pc[r] \in {"findAccount", "update"} =>
              /\ req[r].op = "edit" /\ req[r].user \in Users
              /\ req[r].email \in Emails /\ req[r].role \in Roles
         /\ pc[r] \in ForgotSteps => req[r].op = "forgot" /\ req[r].email \in Emails
         /\ pc[r] \in ResetSteps => req[r].op = "reset" /\ req[r].token \in Requests
BY DEF Shape, CreateReq, EditReq, ForgotReq, ResetReq

\* A request that sets a password crosses the edits that have read the row.
LEMMA SetsTyped ==
  ASSUME TypeOK, NEW r \in Requests, NEW u \in Users, SetsPassword(r, u)
  PROVE  latest' \in [Users -> Requests \cup {None}] /\ crossed' \subseteq Requests
BY DEF TypeOK, SetsPassword

LEMMA TypeStep == TypeOK /\ Shape /\ [Next]_vars => TypeOK'
<1>. SUFFICES ASSUME TypeOK, Shape, [Next]_vars PROVE TypeOK'
  OBVIOUS
<1>. USE DEF TypeOK
<1>1. CASE UNCHANGED vars
  BY <1>1 DEF vars, rows, local, history
<1>2. CASE Tick
  BY <1>2, Directory DEF Tick, rows, local, history
<1>3. ASSUME NEW r \in Requests, NEW c \in Callers, NEW u \in Users, NEW email \in Emails,
             NEW role \in Roles, StartCreate(r, c, u, email, role)
      PROVE  TypeOK'
  BY <1>3 DEF StartCreate, Goto, CreateReq, Steps, rows, local, history
<1>4. ASSUME NEW r \in Requests, NEW c \in Callers, NEW u \in Users, NEW email \in Emails,
             NEW role \in Roles, NEW password \in BOOLEAN,
             StartEdit(r, c, u, email, role, password)
      PROVE  TypeOK'
  <2>1. [op |-> "edit", caller |-> c, user |-> u, email |-> email, role |-> role,
         password |-> password] \in EditReq
    BY DEF EditReq
  <2>. QED
    BY <1>4, <2>1 DEF StartEdit, Goto, Steps, rows, local, history
<1>5. ASSUME NEW r \in Requests, InsertAccount(r) PROVE TypeOK'
  <2>1. /\ req[r].user \in Users /\ req[r].email \in Emails /\ req[r].role \in Roles
    BY <1>5, Asked DEF InsertAccount
  <2>. DEFINE row == [state |-> "stored", email |-> req[r].email, role |-> req[r].role,
                      hash |-> r, active |-> TRUE]
  <2>4. row \in AccountRow
    BY <2>1 DEF AccountRow
  <2>5. account' = account \/ account' = [account EXCEPT ![req[r].user] = row]
    BY <1>5 DEF InsertAccount
  <2>. HIDE DEF row
  <2>2. account' \in [Users -> AccountRow \cup {Absent}]
    BY <2>1, <2>4, <2>5
  <2>3. latest' \in [Users -> Requests \cup {None}] /\ crossed' \subseteq Requests
    BY <1>5, <2>1, SetsTyped DEF InsertAccount
  <2>. QED
    BY <1>5, <2>2, <2>3 DEF InsertAccount, Goto, Finished, local
<1>6. ASSUME NEW r \in Requests, FindAccount(r) PROVE TypeOK'
  <2>1. req[r].user \in Users
    BY <1>6, Asked DEF FindAccount
  <2>2. Exists(req[r].user) => account[req[r].user].hash \in Requests \cup {None}
    BY <2>1 DEF Exists, AccountRow
  <2>. QED
    BY <1>6, <2>2 DEF FindAccount, Goto, Steps, Finished, rows, history
<1>7. ASSUME NEW r \in Requests, UpdateAccount(r) PROVE TypeOK'
  <2>1. /\ req[r].user \in Users /\ req[r].email \in Emails /\ req[r].role \in Roles
        /\ account[req[r].user] \in AccountRow
    BY <1>7, Asked DEF UpdateAccount, Shape, Exists
  <2>2. NewHash(r) \in Requests \cup {None}
    BY DEF NewHash
  <2>3. account' \in [Users -> AccountRow \cup {Absent}]
    <3>. DEFINE row == [account[req[r].user] EXCEPT !.email = req[r].email, !.role = req[r].role,
                                                     !.hash = NewHash(r)]
    <3>1. row \in AccountRow
      BY <2>1, <2>2 DEF AccountRow
    <3>2. account' = account \/ account' = [account EXCEPT ![req[r].user] = row]
      BY <1>7, <2>1 DEF UpdateAccount
    <3>. HIDE DEF row
    <3>. QED
      BY <2>1, <3>1, <3>2
  <2>4. latest' \in [Users -> Requests \cup {None}] /\ crossed' \subseteq Requests
    BY <1>7, <2>1, SetsTyped DEF UpdateAccount
  <2>. QED
    BY <1>7, <2>3, <2>4 DEF UpdateAccount, Goto, Finished, local
<1>8. ASSUME NEW r \in Requests, NEW email \in Emails, StartForgot(r, email) PROVE TypeOK'
  BY <1>8 DEF StartForgot, Goto, ForgotReq, Steps, rows, local, history
<1>9. ASSUME NEW r \in Requests, FindEmail(r) PROVE TypeOK'
  BY <1>9 DEF FindEmail, WithEmail, AdminsWithEmail, Goto, Steps, Finished, rows, history
<1>10. ASSUME NEW r \in Requests, DeleteUnused(r) PROVE TypeOK'
  <2>1. who[r] \in Users
    BY <1>10 DEF DeleteUnused, Shape
  <2>2. seen' \in [Requests -> SUBSET Requests] /\ raced' \subseteq Users
    BY <1>10, <2>1 DEF DeleteUnused
  <2>. QED
    BY <1>10, <2>2 DEF DeleteUnused, Goto, Steps, rows
<1>11. ASSUME NEW r \in Requests, LockUnused(r) PROVE TypeOK'
  BY <1>11 DEF LockUnused, Goto, Steps, rows, history
<1>12. ASSUME NEW r \in Requests, NEW outcome \in {"mail", "error"}, SaveToken(r, outcome)
       PROVE  TypeOK'
  BY <1>12, Directory DEF SaveToken, Finish, Goto, Steps, Finished, history
<1>13. ASSUME NEW r \in Requests, SendMail(r) PROVE TypeOK'
  BY <1>13 DEF SendMail, Goto, Finished, rows, local, history
<1>14. ASSUME NEW r \in Requests, NEW q \in Requests, StartReset(r, q) PROVE TypeOK'
  BY <1>14 DEF StartReset, Goto, ResetReq, Steps, rows, local, history
<1>15. ASSUME NEW r \in Requests, FindToken(r) PROVE TypeOK'
  <2>1. req[r].token \in Requests
    BY <1>15, Asked DEF FindToken, ResetSteps
  <2>. QED
    BY <1>15, <2>1 DEF FindToken, Goto, Steps, Finished, rows, history
<1>16. ASSUME NEW r \in Requests, NEW outcome \in {"markUsed", "error"}, UpdatePassword(r, outcome)
       PROVE  TypeOK'
  <2>1. who[r] \in Users /\ account[who[r]] \in AccountRow
    BY <1>16 DEF UpdatePassword, Shape, Exists
  <2>2. account' \in [Users -> AccountRow \cup {Absent}]
    BY <1>16, <2>1 DEF UpdatePassword, AccountRow
  <2>3. latest' \in [Users -> Requests \cup {None}] /\ crossed' \subseteq Requests
    BY <1>16, <2>1, SetsTyped DEF UpdatePassword
  <2>. QED
    BY <1>16, <2>2, <2>3 DEF UpdatePassword, Goto, Steps, Finished, local
<1>17. ASSUME NEW r \in Requests, MarkUsed(r) PROVE TypeOK'
  BY <1>17 DEF MarkUsed, Goto, Finished, local, history
<1>18. ASSUME NEW r \in Requests, MarkFails(r) PROVE TypeOK'
  BY <1>18 DEF MarkFails, Goto, Finished, rows, local, history
<1>19. ASSUME NEW r \in Requests, Abort(r) PROVE TypeOK'
  BY <1>19 DEF Abort, Finish, Goto, Finished, rows, history
<1>20. ASSUME NEW c \in Callers, NEW u \in Users, NEW b \in BOOLEAN, SetActive(c, u, b)
       PROVE  TypeOK'
  BY <1>20 DEF SetActive, Exists, AccountRow, local, history
<1>. QED
  BY <1>1, <1>2, <1>3, <1>4, <1>5, <1>6, <1>7, <1>8, <1>9, <1>10, <1>11, <1>12, <1>13, <1>14,
     <1>15, <1>16, <1>17, <1>18, <1>19, <1>20 DEF Next

-----------------------------------------------------------------------------
(* What every step leaves alone *)

\* A request keeps what it asks for, and a finished one moves no more.
LEMMA RequestsFrame ==
  ASSUME TypeOK, [Next]_vars, NEW q \in Requests
  PROVE  /\ pc[q] # "idle" => pc'[q] # "idle" /\ req'[q] = req[q]
         /\ pc'[q] = "idle" => pc[q] = "idle" /\ req'[q] = req[q]
         /\ pc[q] \in Finished => pc'[q] = pc[q]
         /\ \/ pc[q] \notin {"findEmail", "findToken"} \/ pc'[q] = pc[q] \/ pc'[q] \in Finished
            => who'[q] = who[q]
<1>. USE DEF TypeOK, Goto, Finish, Steps, Finished
<1>1. CASE \/ UNCHANGED vars \/ Tick
           \/ \E c \in Callers, u \in Users, b \in BOOLEAN : SetActive(c, u, b)
  BY <1>1 DEF vars, Tick, SetActive, local
<1>2. CASE \E r \in Requests, c \in Callers, u \in Users, email \in Emails, role \in Roles :
             \/ StartCreate(r, c, u, email, role)
             \/ \E password \in BOOLEAN : StartEdit(r, c, u, email, role, password)
  BY <1>2 DEF StartCreate, StartEdit, local
<1>3. CASE \E r \in Requests : \/ \E email \in Emails : StartForgot(r, email)
                               \/ \E p \in Requests : StartReset(r, p)
  BY <1>3 DEF StartForgot, StartReset, local
<1>4. CASE \E r \in Requests : InsertAccount(r) \/ FindAccount(r) \/ UpdateAccount(r)
  BY <1>4 DEF InsertAccount, FindAccount, UpdateAccount, local
<1>5. CASE \E r \in Requests : \/ FindEmail(r) \/ DeleteUnused(r) \/ LockUnused(r) \/ SendMail(r)
                               \/ \E outcome \in {"mail", "error"} : SaveToken(r, outcome)
  BY <1>5 DEF FindEmail, DeleteUnused, LockUnused, SendMail, SaveToken, local
<1>6. CASE \E r \in Requests : \/ FindToken(r) \/ MarkUsed(r) \/ MarkFails(r) \/ Abort(r)
                               \/ \E outcome \in {"markUsed", "error"} : UpdatePassword(r, outcome)
  BY <1>6 DEF FindToken, MarkUsed, MarkFails, Abort, UpdatePassword, local
<1>. QED
  BY <1>1, <1>2, <1>3, <1>4, <1>5, <1>6 DEF Next

\* An account is never removed.
LEMMA AccountsStay ==
  ASSUME TypeOK, [Next]_vars, NEW u \in Users, Exists(u)
  PROVE  account'[u] # Absent
<1>0. account[u] \in AccountRow /\ account[u].state = "stored"
  BY DEF TypeOK, Exists, AccountRow
<1>. SUFFICES ASSUME account'[u] # account[u] PROVE account'[u].state = "stored"
  BY <1>0 DEF Absent, Exists
<1>1. CASE \E r \in Requests : InsertAccount(r)
  BY <1>1, <1>0 DEF InsertAccount, TypeOK
<1>2. CASE \E r \in Requests : UpdateAccount(r)
  <2>1. PICK r \in Requests : UpdateAccount(r)
    BY <1>2
  <2>. DEFINE v == req[r].user
  <2>2. account' = [account EXCEPT ![v] = [account[v] EXCEPT !.email = req[r].email,
                                             !.role = req[r].role, !.hash = NewHash(r)]]
    BY <2>1 DEF UpdateAccount
  <2>. QED
    BY <2>2, <1>0 DEF TypeOK, AccountRow
<1>3. CASE \E r \in Requests, outcome \in {"markUsed", "error"} : UpdatePassword(r, outcome)
  BY <1>3, <1>0 DEF UpdatePassword, TypeOK
<1>4. CASE \E c \in Callers, v \in Users, b \in BOOLEAN : SetActive(c, v, b)
  BY <1>4, <1>0 DEF SetActive, TypeOK
<1>. QED
  BY <1>1, <1>2, <1>3, <1>4 DEF Next, vars, rows, Tick, StartCreate, StartEdit, StartForgot,
     StartReset, FindAccount, FindEmail, DeleteUnused, LockUnused, SaveToken, SendMail,
     FindToken, MarkUsed, MarkFails, Abort

\* Where a step takes a request: on along its handler, or to its end.
LEMMA Moves ==
  ASSUME TypeOK, [Next]_vars, NEW q \in Requests, pc'[q] # pc[q]
  PROVE  \/ pc[q] = "idle" /\ pc'[q] = "insert" /\ req'[q] \in CreateReq
         \/ pc[q] = "idle" /\ pc'[q] = "findAccount" /\ req'[q] \in EditReq
         \/ pc[q] = "idle" /\ pc'[q] = "findEmail" /\ req'[q] \in ForgotReq
         \/ /\ pc[q] = "idle" /\ pc'[q] = "findToken" /\ req'[q] \in ResetReq
            /\ pc[req'[q].token] = "ok" /\ req[req'[q].token].op = "forgot"
         \/ pc[q] = "findAccount" /\ FindAccount(q) /\ pc'[q] = "update"
         \/ pc[q] = "findEmail" /\ FindEmail(q) /\ pc'[q] = "delete"
         \/ pc[q] = "delete" /\ DeleteUnused(q) /\ pc'[q] = "lock"
         \/ pc[q] = "lock" /\ LockUnused(q) /\ pc'[q] = "save"
         \/ pc[q] = "save" /\ SaveToken(q, "mail") /\ pc'[q] = "mail"
         \/ pc[q] = "findToken" /\ FindToken(q) /\ pc'[q] = "updatePassword"
         \/ pc[q] = "updatePassword" /\ UpdatePassword(q, "markUsed") /\ pc'[q] = "markUsed"
         \/ pc[q] \in {"insert", "update", "mail", "markUsed"} /\ pc'[q] = "ok"
         \/ pc[q] \in Steps /\ pc'[q] = "error"
         \/ /\ pc[q] \in {"insert", "findAccount", "update", "findEmail", "findToken"}
            /\ pc'[q] = "refused"
<1>. USE DEF TypeOK, Goto, Finish, Steps, Finished
<1>1. CASE \/ UNCHANGED vars \/ Tick
           \/ \E c \in Callers, u \in Users, b \in BOOLEAN : SetActive(c, u, b)
  BY <1>1 DEF vars, Tick, SetActive
<1>2. CASE \E r \in Requests, c \in Callers, u \in Users, email \in Emails, role \in Roles :
             \/ StartCreate(r, c, u, email, role)
             \/ \E password \in BOOLEAN : StartEdit(r, c, u, email, role, password)
  <2>1. ASSUME NEW c \in Callers, NEW u \in Users, NEW email \in Emails, NEW role \in Roles,
               StartCreate(q, c, u, email, role)
        PROVE  pc[q] = "idle" /\ pc'[q] = "insert" /\ req'[q] \in CreateReq
    BY <2>1 DEF StartCreate, CreateReq
  <2>2. ASSUME NEW c \in Callers, NEW u \in Users, NEW email \in Emails, NEW role \in Roles,
               NEW password \in BOOLEAN, StartEdit(q, c, u, email, role, password)
        PROVE  pc[q] = "idle" /\ pc'[q] = "findAccount" /\ req'[q] \in EditReq
    <3>1. [op |-> "edit", caller |-> c, user |-> u, email |-> email, role |-> role,
           password |-> password] \in EditReq
      BY DEF EditReq
    <3>. QED
      BY <2>2, <3>1 DEF StartEdit
  <2>3. ASSUME NEW r \in Requests \ {q}, NEW c \in Callers, NEW u \in Users, NEW email \in Emails,
               NEW role \in Roles,
               \/ StartCreate(r, c, u, email, role)
               \/ \E password \in BOOLEAN : StartEdit(r, c, u, email, role, password)
        PROVE  pc'[q] = pc[q]
    BY <2>3 DEF StartCreate, StartEdit
  <2>. QED
    BY <1>2, <2>1, <2>2, <2>3
<1>3. CASE \E r \in Requests : \/ \E email \in Emails : StartForgot(r, email)
                               \/ \E p \in Requests : StartReset(r, p)
  BY <1>3 DEF StartForgot, StartReset, ForgotReq, ResetReq
<1>4. CASE \E r \in Requests : InsertAccount(r) \/ FindAccount(r) \/ UpdateAccount(r)
  <2>1. PICK r \in Requests : InsertAccount(r) \/ FindAccount(r) \/ UpdateAccount(r)
    BY <1>4
  <2>2. r = q
    BY <2>1 DEF InsertAccount, FindAccount, UpdateAccount
  <2>3. CASE FindAccount(q)
    BY <2>3 DEF FindAccount
  <2>4. CASE InsertAccount(q) \/ UpdateAccount(q)
    BY <2>4 DEF InsertAccount, UpdateAccount
  <2>. QED
    BY <2>1, <2>2, <2>3, <2>4
<1>5. CASE \E r \in Requests : \/ FindEmail(r) \/ DeleteUnused(r) \/ LockUnused(r) \/ SendMail(r)
                               \/ \E outcome \in {"mail", "error"} : SaveToken(r, outcome)
  <2>1. PICK r \in Requests : \/ FindEmail(r) \/ DeleteUnused(r) \/ LockUnused(r) \/ SendMail(r)
                              \/ SaveToken(r, "mail") \/ SaveToken(r, "error")
    BY <1>5
  <2>2. r = q
    BY <2>1 DEF FindEmail, DeleteUnused, LockUnused, SendMail, SaveToken
  <2>3. CASE FindEmail(q)
    BY <2>3 DEF FindEmail
  <2>4. CASE DeleteUnused(q) \/ LockUnused(q)
    BY <2>4 DEF DeleteUnused, LockUnused
  <2>5. CASE SendMail(q) \/ SaveToken(q, "mail") \/ SaveToken(q, "error")
    BY <2>5 DEF SendMail, SaveToken
  <2>. QED
    BY <2>1, <2>2, <2>3, <2>4, <2>5
<1>6. CASE \E r \in Requests : \/ FindToken(r) \/ MarkUsed(r) \/ MarkFails(r) \/ Abort(r)
                               \/ \E outcome \in {"markUsed", "error"} : UpdatePassword(r, outcome)
  <2>1. PICK r \in Requests : \/ FindToken(r) \/ MarkUsed(r) \/ MarkFails(r) \/ Abort(r)
                              \/ UpdatePassword(r, "markUsed") \/ UpdatePassword(r, "error")
    BY <1>6
  <2>2. r = q
    BY <2>1 DEF FindToken, MarkUsed, MarkFails, Abort, UpdatePassword
  <2>3. CASE FindToken(q)
    BY <2>3 DEF FindToken
  <2>4. CASE MarkUsed(q) \/ MarkFails(q) \/ Abort(q)
    BY <2>4 DEF MarkUsed, MarkFails, Abort
  <2>5. CASE UpdatePassword(q, "markUsed") \/ UpdatePassword(q, "error")
    BY <2>5 DEF UpdatePassword
  <2>. QED
    BY <2>1, <2>2, <2>3, <2>4, <2>5
<1>. QED
  BY <1>1, <1>2, <1>3, <1>4, <1>5, <1>6 DEF Next

\* Only SaveToken and MarkUsed touch reset tokens.
LEMMA TokensFrame ==
  ASSUME [Next]_vars
  PROVE  \/ token' = token
         \/ \E r \in Requests, outcome \in {"mail", "error"} : SaveToken(r, outcome)
         \/ \E r \in Requests : MarkUsed(r)
<1>1. CASE \/ UNCHANGED vars \/ Tick
           \/ \E c \in Callers, u \in Users, b \in BOOLEAN : SetActive(c, u, b)
  BY <1>1 DEF vars, rows, Tick, SetActive
<1>2. CASE \E r \in Requests, c \in Callers, u \in Users, email \in Emails, role \in Roles :
             \/ StartCreate(r, c, u, email, role)
             \/ \E password \in BOOLEAN : StartEdit(r, c, u, email, role, password)
  BY <1>2 DEF StartCreate, StartEdit, rows
<1>3. CASE \E r \in Requests : \/ \E email \in Emails : StartForgot(r, email)
                               \/ \E p \in Requests : StartReset(r, p)
  BY <1>3 DEF StartForgot, StartReset, rows
<1>4. CASE \E r \in Requests : \/ InsertAccount(r) \/ FindAccount(r) \/ UpdateAccount(r)
                               \/ FindEmail(r) \/ DeleteUnused(r) \/ LockUnused(r) \/ SendMail(r)
  BY <1>4 DEF InsertAccount, FindAccount, UpdateAccount, FindEmail, DeleteUnused, LockUnused,
     SendMail, rows
<1>5. CASE \E r \in Requests : \/ FindToken(r) \/ MarkFails(r) \/ Abort(r)
                               \/ \E outcome \in {"markUsed", "error"} : UpdatePassword(r, outcome)
  BY <1>5 DEF FindToken, MarkFails, Abort, UpdatePassword, rows
<1>. QED
  BY <1>1, <1>2, <1>3, <1>4, <1>5 DEF Next

-----------------------------------------------------------------------------
(* Shape *)

LEMMA ShapeStep == TypeOK /\ Shape /\ DeletesUnused /\ [Next]_vars => Shape'
<1>. SUFFICES ASSUME TypeOK, Shape, DeletesUnused, [Next]_vars, NEW r \in Requests
              PROVE
    /\ pc'[r] = "idle" => req'[r] = NoReq
    /\ pc'[r] = "insert" => req'[r] \in CreateReq
    /\ pc'[r] \in {"findAccount", "update"} => req'[r] \in EditReq
    /\ pc'[r] \in ForgotSteps => req'[r] \in ForgotReq
    /\ pc'[r] \in ResetSteps => req'[r] \in ResetReq
    /\ pc'[r] = "update" =>
         account'[req'[r].user] # Absent /\ MayTouch(req'[r].caller, req'[r].user)
    /\ who'[r] # None => account'[who'[r]] # Absent
    /\ pc'[r] \in {"delete", "lock", "save", "mail", "updatePassword", "markUsed"} =>
         who'[r] # None
    /\ token'[r] # "none" =>
         who'[r] # None /\ req'[r] \in ForgotReq /\ pc'[r] \in {"mail", "ok", "error"}
    /\ req'[r] \in ResetReq =>
         /\ pc'[req'[r].token] = "ok" /\ req'[req'[r].token] \in ForgotReq
         /\ pc'[r] \in {"updatePassword", "markUsed"} => who'[r] = who'[req'[r].token]
  BY DEF Shape, Exists, MayTouch, SystemAdmin
<1>1. TypeOK'
  BY TypeStep
<1>2. pc[r] # "idle" => req'[r] = req[r]
  BY RequestsFrame
<1>3. pc'[r] # pc[r] \/ pc'[r] = pc[r]
  OBVIOUS
<1>4. pc'[r] = "idle" => req'[r] = NoReq
  BY RequestsFrame DEF Shape
<1>5. pc'[r] = "insert" => req'[r] \in CreateReq
  BY <1>2, Moves, RequestsFrame DEF Shape, Finished
<1>6. pc'[r] \in {"findAccount", "update"} => req'[r] \in EditReq
  BY <1>2, Moves, RequestsFrame DEF Shape, Finished, FindAccount
<1>7. pc'[r] \in ForgotSteps => req'[r] \in ForgotReq
  BY <1>2, Moves, RequestsFrame DEF Shape, Finished, ForgotSteps, FindEmail, DeleteUnused, LockUnused,
     SaveToken
<1>8. pc'[r] \in ResetSteps => req'[r] \in ResetReq
  BY <1>2, Moves, RequestsFrame DEF Shape, Finished, ResetSteps, FindToken, UpdatePassword
<1>9. pc'[r] = "update" =>
        account'[req'[r].user] # Absent /\ MayTouch(req'[r].caller, req'[r].user)
  <2>. SUFFICES ASSUME pc'[r] = "update"
                PROVE account'[req'[r].user] # Absent /\ MayTouch(req'[r].caller, req'[r].user)
    OBVIOUS
  <2>1. Exists(req[r].user) /\ MayTouch(req[r].caller, req[r].user) /\ req'[r] = req[r]
    BY <1>2, Moves, RequestsFrame DEF Shape, Finished, FindAccount, Goto, TypeOK
  <2>2. req[r].user \in Users
    BY <1>6, <2>1 DEF EditReq
  <2>. QED
    BY <2>1, <2>2, AccountsStay
<1>10. /\ who'[r] # None => account'[who'[r]] # Absent
       /\ pc'[r] \in {"delete", "updatePassword"} => who'[r] # None
  <2>1. CASE FindEmail(r) /\ pc'[r] = "delete"
    <3>1. PICK u \in Users : Exists(u) /\ who'[r] = u
      BY <2>1 DEF FindEmail, WithEmail, AdminsWithEmail, Goto, TypeOK
    <3>. QED
      BY <3>1, AccountsStay, Directory
  <2>2. CASE FindToken(r) /\ pc'[r] = "updatePassword"
    <3>1. who'[r] = who[req[r].token] /\ token[req[r].token] = "unused" /\ req[r].token \in Requests
      BY <2>2, Asked DEF FindToken, Goto, TypeOK, ResetSteps
    <3>2. who'[r] \in Users /\ Exists(who'[r])
      BY <3>1 DEF Shape, TypeOK
    <3>. QED
      BY <3>2, AccountsStay, Directory
  <2>3. CASE /\ who'[r] = who[r]
             /\ ~(FindEmail(r) /\ pc'[r] = "delete") /\ ~(FindToken(r) /\ pc'[r] = "updatePassword")
    <3>1. who[r] # None => account'[who[r]] # Absent
      BY AccountsStay DEF Shape, TypeOK
    <3>2. pc'[r] \in {"delete", "updatePassword"} => pc[r] = pc'[r] \/ who[r] # None
      BY <2>3, Moves DEF Finished
    <3>. QED
      BY <2>3, <3>1, <3>2 DEF Shape
  <2>. QED
    BY <2>1, <2>2, <2>3, Moves, RequestsFrame DEF Finished
<1>11. ASSUME pc'[r] \in {"lock", "save", "mail", "markUsed"}
       PROVE  who'[r] # None
  <2>1. pc[r] \in {"delete", "lock", "save", "mail", "updatePassword", "markUsed"}
    BY <1>11, Moves DEF Finished
  <2>2. who'[r] = who[r]
    BY <2>1, RequestsFrame
  <2>. QED
    BY <2>1, <2>2 DEF Shape
<1>12. token'[r] # "none" => who'[r] # None /\ req'[r] \in ForgotReq /\ pc'[r] \in {"mail", "ok", "error"}
  <2>1. CASE token[r] # "none"
    BY <2>1, <1>2, Moves, RequestsFrame DEF Shape, Finished
  <2>2. CASE \E outcome \in {"mail", "error"} : SaveToken(r, outcome)
    BY <2>2, <1>2, RequestsFrame DEF Shape, SaveToken, Finish, Goto, TypeOK, ForgotSteps, Finished
  <2>3. CASE token[r] = "none" /\ ~\E outcome \in {"mail", "error"} : SaveToken(r, outcome)
    BY <2>3, TokensFrame DEF SaveToken, MarkUsed, TypeOK, DeletesUnused
  <2>. QED
    BY <2>1, <2>2, <2>3
<1>13. req'[r] \in ResetReq =>
         /\ pc'[req'[r].token] = "ok" /\ req'[req'[r].token] \in ForgotReq
         /\ pc'[r] \in {"updatePassword", "markUsed"} => who'[r] = who'[req'[r].token]
  <2>. SUFFICES ASSUME req'[r] \in ResetReq
                PROVE  LET q == req'[r].token IN
                         /\ pc'[q] = "ok" /\ req'[q] \in ForgotReq
                         /\ pc'[r] \in {"updatePassword", "markUsed"} => who'[r] = who'[q]
    OBVIOUS
  <2>. DEFINE q == req'[r].token
  <2>0. q \in Requests
    BY DEF ResetReq
  <2>1. CASE pc[r] = "idle"
    <3>1. pc[q] = "ok" /\ req[q].op = "forgot" /\ pc'[r] = "findToken"
      <4>1. pc'[r] # pc[r]
        BY <2>1, <1>4 DEF NoReq, ResetReq
      <4>2. CASE req'[r] \in CreateReq \cup EditReq \cup ForgotReq
        BY <4>2 DEF CreateReq, EditReq, ForgotReq, ResetReq
      <4>. QED
        BY <2>1, <4>1, <4>2, Moves DEF Steps
    <3>2. req[q] \in ForgotReq
      BY <3>1, <2>0 DEF TypeOK, CreateReq, EditReq, ForgotReq, ResetReq, NoReq
    <3>. QED
      BY <3>1, <3>2, <2>0, RequestsFrame DEF Finished
  <2>2. CASE pc[r] # "idle"
    <3>1. req'[r] = req[r] /\ pc[q] = "ok" /\ req[q] \in ForgotReq
      BY <2>2, <1>2 DEF Shape
    <3>2. pc'[q] = "ok" /\ req'[q] = req[q] /\ who'[q] = who[q]
      BY <3>1, <2>0, RequestsFrame DEF Finished
    <3>3. pc'[r] \in {"updatePassword", "markUsed"} => who'[r] = who[q]
      BY <3>1, Moves, RequestsFrame DEF Shape, Finished, FindToken, TypeOK, Goto
    <3>. QED
      BY <3>1, <3>2, <3>3
  <2>. QED
    BY <2>1, <2>2
<1>. QED
  BY <1>4, <1>5, <1>6, <1>7, <1>8, <1>9, <1>10, <1>11, <1>12, <1>13

-----------------------------------------------------------------------------
(* The passwords that are stored, and where they come from *)

\* UpdateAccount refuses, or replaces the hash in one row.
LEMMA EditWrites ==
  ASSUME TypeOK, Shape, NEW r \in Requests, UpdateAccount(r), pc'[r] # "refused"
  PROVE  LET u == req[r].user IN
           /\ u \in Users /\ Exists(u)
           /\ account'[u].hash = NewHash(r)
           /\ \A v \in Users \ {u} : account'[v] = account[v]
           /\ IF req[r].password THEN SetsPassword(r, u) ELSE UNCHANGED <<latest, crossed>>
<1>. DEFINE u == req[r].user
<1>1. pc[r] = "update" /\ u \in Users /\ Exists(u) /\ account[u] \in AccountRow
  BY Asked DEF UpdateAccount, Shape, TypeOK, Exists
<1>2. /\ account' = [account EXCEPT ![u].email = req[r].email, ![u].role = req[r].role,
                                    ![u].hash = NewHash(r)]
      /\ IF req[r].password THEN SetsPassword(r, u) ELSE UNCHANGED <<latest, crossed>>
  BY DEF UpdateAccount, Goto, TypeOK
<1>3. account' = [account EXCEPT ![u] = [account[u] EXCEPT !.email = req[r].email,
                                           !.role = req[r].role, !.hash = NewHash(r)]]
  BY <1>2
<1>4. account'[u] = [account[u] EXCEPT !.email = req[r].email, !.role = req[r].role, !.hash = NewHash(r)]
  BY <1>1, <1>3 DEF TypeOK
<1>5. account'[u].hash = NewHash(r)
  BY <1>1, <1>4 DEF AccountRow
<1>6. \A v \in Users \ {u} : account'[v] = account[v]
  BY <1>3 DEF TypeOK
<1>. QED
  BY <1>1, <1>2, <1>5, <1>6

\* The four ways to a stored password: the row had it, or a request has just stored it.
LEMMA Hashes ==
  ASSUME TypeOK, Shape, [Next]_vars, NEW u \in Users, account'[u] # Absent
  PROVE  \/ /\ Exists(u) /\ account'[u].hash = account[u].hash /\ latest'[u] = latest[u]
         \/ \E r \in Requests :
              \/ /\ InsertAccount(r) /\ pc[r] = "insert" /\ pc'[r] # "refused" /\ req[r].user = u
                 /\ account'[u].hash = r /\ latest'[u] = r
              \/ /\ UpdateAccount(r) /\ pc[r] = "update" /\ pc'[r] # "refused" /\ req[r].user = u
                 /\ account'[u].hash = NewHash(r)
                 /\ latest'[u] = IF req[r].password THEN r ELSE latest[u]
              \/ /\ \E outcome \in {"markUsed", "error"} : UpdatePassword(r, outcome)
                 /\ pc[r] = "updatePassword" /\ who[r] = u
                 /\ account'[u].hash = r /\ latest'[u] = r
<1>. USE DEF TypeOK
<1>1. ASSUME account'[u] = account[u], latest'[u] = latest[u]
      PROVE  Exists(u) /\ account'[u].hash = account[u].hash /\ latest'[u] = latest[u]
  BY <1>1 DEF Exists
<1>2. ASSUME NEW r \in Requests, InsertAccount(r)
      PROVE  \/ account'[u] = account[u] /\ latest'[u] = latest[u]
             \/ /\ pc[r] = "insert" /\ pc'[r] # "refused" /\ req[r].user = u
                /\ account'[u].hash = r /\ latest'[u] = r
  <2>1. CASE account' = account /\ latest' = latest
    BY <2>1
  <2>2. CASE ~(account' = account /\ latest' = latest)
    <3>1. /\ account' = [account EXCEPT ![req[r].user] =
               [state |-> "stored", email |-> req[r].email, role |-> req[r].role,
                hash |-> r, active |-> TRUE]]
          /\ latest' = [latest EXCEPT ![req[r].user] = r]
          /\ pc'[r] \in {"ok", "error"} /\ pc[r] = "insert"
      BY <1>2, <2>2 DEF InsertAccount, SetsPassword, Goto
    <3>. QED
      BY <3>1
  <2>. QED
    BY <2>1, <2>2
<1>3. ASSUME NEW r \in Requests, UpdateAccount(r)
      PROVE  \/ account'[u] = account[u] /\ latest'[u] = latest[u]
             \/ /\ pc[r] = "update" /\ pc'[r] # "refused" /\ req[r].user = u
                /\ account'[u].hash = NewHash(r)
                /\ latest'[u] = IF req[r].password THEN r ELSE latest[u]
  <2>1. CASE pc'[r] = "refused"
    BY <1>3, <2>1 DEF UpdateAccount, Goto
  <2>2. CASE pc'[r] # "refused"
    <3>1. pc[r] = "update" /\ (latest' = latest \/ latest' = [latest EXCEPT ![req[r].user] = r])
      BY <1>3, <2>2, EditWrites DEF UpdateAccount, SetsPassword
    <3>. QED
      BY <1>3, <2>2, <3>1, EditWrites DEF SetsPassword
  <2>. QED
    BY <2>1, <2>2
<1>4. ASSUME NEW r \in Requests, NEW outcome \in {"markUsed", "error"}, UpdatePassword(r, outcome)
      PROVE  \/ account'[u] = account[u] /\ latest'[u] = latest[u]
             \/ /\ pc[r] = "updatePassword" /\ who[r] = u
                /\ account'[u].hash = r /\ latest'[u] = r
  <2>1. who[r] \in Users /\ account[who[r]] \in AccountRow
    BY <1>4 DEF UpdatePassword, Shape, Exists
  <2>. QED
    BY <1>4, <2>1 DEF UpdatePassword, SetsPassword, AccountRow
<1>5. ASSUME NEW c \in Callers, NEW v \in Users, NEW b \in BOOLEAN, SetActive(c, v, b)
      PROVE  Exists(u) /\ account'[u].hash = account[u].hash /\ latest'[u] = latest[u]
  <2>1. account[v] \in AccountRow
    BY <1>5 DEF SetActive, Exists
  <2>. QED
    BY <1>5, <2>1 DEF SetActive, Exists, AccountRow, history
<1>6. CASE UNCHANGED <<account, latest>>
  BY <1>1, <1>6
<1>7. CASE ~UNCHANGED <<account, latest>>
  <2>1. \/ \E r \in Requests : InsertAccount(r)
        \/ \E r \in Requests : UpdateAccount(r)
        \/ \E r \in Requests, outcome \in {"markUsed", "error"} : UpdatePassword(r, outcome)
        \/ \E c \in Callers, v \in Users, b \in BOOLEAN : SetActive(c, v, b)
    BY <1>7 DEF Next, vars, rows, history, Tick, StartCreate, StartEdit, StartForgot, StartReset,
       FindAccount, FindEmail, DeleteUnused, LockUnused, SaveToken, SendMail, FindToken, MarkUsed,
       MarkFails, Abort
  <2>. QED
    BY <2>1, <1>1, <1>2, <1>3, <1>4, <1>5
<1>. QED
  BY <1>6, <1>7

\* Whose password a request may set is settled when it is sent.
LEMMA MaySetStable ==
  ASSUME TypeOK, Shape, [Next]_vars, NEW r \in Requests, NEW u \in Users, MaySet(r, u)
  PROVE  MaySet(r, u)'
<1>1. pc[r] # "idle"
  BY DEF MaySet, Shape, NoReq
<1>2. req'[r] = req[r]
  BY <1>1, RequestsFrame
<1>3. req[r].op = "reset" => who'[req[r].token] = who[req[r].token]
  <2>. SUFFICES ASSUME req[r].op = "reset" PROVE who'[req[r].token] = who[req[r].token]
    OBVIOUS
  <2>1. req[r] \in ResetReq
    BY DEF TypeOK, CreateReq, EditReq, ForgotReq, ResetReq, NoReq
  <2>2. req[r].token \in Requests /\ pc[req[r].token] = "ok"
    BY <2>1 DEF Shape, ResetReq
  <2>. QED
    BY <2>2, RequestsFrame DEF Finished
<1>. QED
  BY <1>2, <1>3 DEF MaySet, MayTouch, SystemAdmin

\* Only FindAccount reads a row to write it back.
LEMMA Reads ==
  ASSUME TypeOK, [Next]_vars, NEW q \in Requests
  PROVE  /\ read'[q] = read[q] \/ FindAccount(q)
         /\ pc'[q] = "update" =>
              (pc[q] = "update" /\ read'[q] = read[q]) \/ FindAccount(q)
<1>. USE DEF TypeOK
<1>1. UNCHANGED read \/ \E r \in Requests : FindAccount(r)
  <2>1. CASE \/ UNCHANGED vars \/ Tick
             \/ \E c \in Callers, u \in Users, b \in BOOLEAN : SetActive(c, u, b)
    BY <2>1 DEF vars, local, Tick, SetActive
  <2>2. CASE \E r \in Requests, c \in Callers, u \in Users, email \in Emails, role \in Roles :
               \/ StartCreate(r, c, u, email, role)
               \/ \E password \in BOOLEAN : StartEdit(r, c, u, email, role, password)
    BY <2>2 DEF StartCreate, StartEdit, local
  <2>3. CASE \E r \in Requests : \/ \E email \in Emails : StartForgot(r, email)
                                 \/ \E p \in Requests : StartReset(r, p)
    BY <2>3 DEF StartForgot, StartReset, local
  <2>4. CASE \E r \in Requests : \/ InsertAccount(r) \/ UpdateAccount(r)
                                 \/ FindEmail(r) \/ DeleteUnused(r) \/ LockUnused(r) \/ SendMail(r)
                                 \/ \E outcome \in {"mail", "error"} : SaveToken(r, outcome)
    BY <2>4 DEF InsertAccount, UpdateAccount, FindEmail, DeleteUnused, LockUnused, SendMail,
       SaveToken, local
  <2>5. CASE \E r \in Requests : \/ FindToken(r) \/ MarkUsed(r) \/ MarkFails(r) \/ Abort(r)
                                 \/ \E outcome \in {"markUsed", "error"} : UpdatePassword(r, outcome)
    BY <2>5 DEF FindToken, MarkUsed, MarkFails, Abort, UpdatePassword, local
  <2>. QED
    BY <2>1, <2>2, <2>3, <2>4, <2>5 DEF Next
<1>2. read'[q] = read[q] \/ FindAccount(q)
  BY <1>1 DEF FindAccount
<1>3. pc'[q] = "update" => pc[q] = "update" \/ FindAccount(q)
  BY Moves DEF Finished
<1>4. pc[q] = "update" => ~FindAccount(q)
  BY DEF FindAccount
<1>. QED
  BY <1>2, <1>3, <1>4

LEMMA EntitledStable ==
  ASSUME TypeOK, Shape, [Next]_vars, NEW h \in Requests \cup {None}, NEW u \in Users, Entitled(h, u)
  PROVE  Entitled(h, u)'
BY MaySetStable DEF Entitled

LEMMA EntitledStep == TypeOK /\ Shape /\ HashesEntitled /\ [Next]_vars => HashesEntitled'
<1>. SUFFICES ASSUME TypeOK, Shape, HashesEntitled, [Next]_vars
              PROVE  /\ \A u \in Users : account'[u] # Absent =>
                          \E h \in Requests \cup {None} : h = account'[u].hash /\ Entitled(h, u)'
                     /\ \A r \in Requests : pc'[r] = "update" =>
                          \E h \in Requests \cup {None}, u \in Users :
                            h = read'[r] /\ u = req'[r].user /\ Entitled(h, u)'
  BY DEF HashesEntitled, Exists, Entitled, MaySet, MayTouch, SystemAdmin
<1>1. ASSUME NEW u \in Users, account'[u] # Absent
      PROVE  \E h \in Requests \cup {None} : h = account'[u].hash /\ Entitled(h, u)
  <2>. DEFINE h == account'[u].hash
  <2>0. h \in Requests \cup {None}
    BY <1>1, TypeStep DEF TypeOK, AccountRow
  <2>1. CASE Exists(u) /\ h = account[u].hash
    BY <2>0, <2>1 DEF HashesEntitled
  <2>2. ASSUME NEW r \in Requests, pc[r] = "insert", req[r].user = u, h = r
        PROVE  Entitled(h, u)
    BY <2>2, Asked, Directory DEF Entitled, MaySet
  <2>3. ASSUME NEW r \in Requests, pc[r] = "update", req[r].user = u, h = NewHash(r)
        PROVE  Entitled(h, u)
    <3>1. CASE req[r].password
      BY <2>3, <3>1, Asked, Directory DEF NewHash, Entitled, MaySet, Shape
    <3>2. CASE ~req[r].password
      BY <2>3, <3>2 DEF NewHash, HashesEntitled
    <3>. QED
      BY <3>1, <3>2
  <2>4. ASSUME NEW r \in Requests, pc[r] = "updatePassword", who[r] = u, h = r
        PROVE  Entitled(h, u)
    <3>1. req[r].op = "reset" /\ who[req[r].token] = u
      BY <2>4, Asked DEF Shape, ResetSteps
    <3>. QED
      BY <2>4, <3>1, Directory DEF Entitled, MaySet
  <2>. HIDE DEF h
  <2>5. Entitled(h, u)
    BY <1>1, <2>1, <2>2, <2>3, <2>4, Hashes DEF h
  <2>. QED
    BY <2>0, <2>5 DEF h
<1>2. ASSUME NEW r \in Requests, pc'[r] = "update"
      PROVE  \E h \in Requests \cup {None}, u \in Users :
               h = read'[r] /\ u = req'[r].user /\ Entitled(h, u)
  <2>1. read'[r] \in Requests \cup {None}
    BY TypeStep DEF TypeOK
  <2>2. CASE pc[r] = "update" /\ read'[r] = read[r]
    BY <2>1, <2>2, RequestsFrame, Asked DEF HashesEntitled
  <2>3. CASE FindAccount(r)
    <3>1. /\ pc[r] = "findAccount" /\ req[r].user \in Users
          /\ Exists(req[r].user) /\ read'[r] = account[req[r].user].hash
      BY <1>2, <2>3, Asked DEF FindAccount, Goto, TypeOK
    <3>. QED
      BY <2>1, <3>1, RequestsFrame DEF HashesEntitled
  <2>. QED
    BY <1>2, <2>2, <2>3, Reads
<1>. QED
  BY <1>1, <1>2, EntitledStable


-----------------------------------------------------------------------------
(* The password set last *)

\* A stored password changes when one is set, or when an edit writes back what it has read.
LEMMA Changes ==
  ASSUME TypeOK, Shape, [Next]_vars, NEW u \in Users, account'[u] # Absent
  PROVE  \/ /\ Exists(u) /\ account'[u].hash = account[u].hash /\ latest'[u] = latest[u]
         \/ \E r \in Requests : /\ SetsPassword(r, u) /\ pc'[r] # "update"
                               /\ account'[u].hash = r /\ latest'[u] = r
         \/ \E r \in Requests :
              /\ pc[r] = "update" /\ req[r] \in EditReq /\ req[r].user = u /\ ~req[r].password
              /\ pc'[r] \in {"ok", "error"}
              /\ Exists(u) /\ account'[u].hash = read[r] /\ latest'[u] = latest[u]
<1>1. ASSUME NEW r \in Requests, InsertAccount(r), pc'[r] # "refused", req[r].user = u
      PROVE  SetsPassword(r, u) /\ pc'[r] # "update"
  BY <1>1 DEF InsertAccount, Goto, TypeOK
<1>2. ASSUME NEW r \in Requests, UpdateAccount(r), pc[r] = "update", pc'[r] # "refused", req[r].user = u,
             account'[u].hash = NewHash(r), latest'[u] = IF req[r].password THEN r ELSE latest[u]
      PROVE  \/ /\ SetsPassword(r, u) /\ pc'[r] # "update"
                /\ account'[u].hash = r /\ latest'[u] = r
             \/ /\ pc[r] = "update" /\ req[r] \in EditReq /\ req[r].user = u /\ ~req[r].password
                /\ pc'[r] \in {"ok", "error"}
                /\ Exists(u) /\ account'[u].hash = read[r] /\ latest'[u] = latest[u]
  <2>1. pc'[r] \in {"ok", "error"}
    BY <1>2 DEF UpdateAccount, Goto, TypeOK
  <2>2. Exists(u) /\ req[r] \in EditReq
    BY <1>2 DEF Shape
  <2>3. req[r].password => SetsPassword(r, u)
    BY <1>2, EditWrites
  <2>. QED
    BY <1>2, <2>1, <2>2, <2>3 DEF NewHash
<1>3. ASSUME NEW r \in Requests, \E outcome \in {"markUsed", "error"} : UpdatePassword(r, outcome),
             who[r] = u
      PROVE  SetsPassword(r, u) /\ pc'[r] # "update"
  BY <1>3 DEF UpdatePassword, Goto, TypeOK
<1>. QED
  BY <1>1, <1>2, <1>3, Hashes

\* The requests that set passwords.
LEMMA SetsFrame ==
  ASSUME TypeOK, Shape, [Next]_vars
  PROVE  \/ UNCHANGED <<latest, crossed>>
         \/ \E r \in Requests, u \in Users :
              pc[r] \in {"insert", "update", "updatePassword"} /\ SetsPassword(r, u)
<1>1. CASE \/ UNCHANGED vars \/ Tick
           \/ \E c \in Callers, u \in Users, b \in BOOLEAN : SetActive(c, u, b)
  BY <1>1 DEF vars, history, Tick, SetActive
<1>3. CASE \E r \in Requests, c \in Callers, u \in Users, email \in Emails, role \in Roles :
             \/ StartCreate(r, c, u, email, role)
             \/ \E password \in BOOLEAN : StartEdit(r, c, u, email, role, password)
  BY <1>3 DEF StartCreate, StartEdit, history
<1>4. CASE \E r \in Requests : \/ \E email \in Emails : StartForgot(r, email)
                               \/ \E p \in Requests : StartReset(r, p)
  BY <1>4 DEF StartForgot, StartReset, history
<1>2. ASSUME NEW r \in Requests, InsertAccount(r) \/ UpdateAccount(r)
      PROVE  UNCHANGED <<latest, crossed>> \/ (req[r].user \in Users /\ SetsPassword(r, req[r].user))
  BY <1>2, Asked DEF InsertAccount, UpdateAccount
<1>5. CASE \E r \in Requests : InsertAccount(r) \/ UpdateAccount(r)
  BY <1>2, <1>5 DEF InsertAccount, UpdateAccount
<1>6. CASE \E r \in Requests : \/ FindAccount(r) \/ FindEmail(r) \/ DeleteUnused(r) \/ LockUnused(r)
                               \/ SendMail(r)
                               \/ \E outcome \in {"mail", "error"} : SaveToken(r, outcome)
  BY <1>6 DEF FindAccount, FindEmail, DeleteUnused, LockUnused, SendMail, SaveToken, history
<1>7. CASE \E r \in Requests : FindToken(r) \/ MarkUsed(r) \/ MarkFails(r) \/ Abort(r)
  BY <1>7 DEF FindToken, MarkUsed, MarkFails, Abort, history
<1>8. CASE \E r \in Requests, outcome \in {"markUsed", "error"} : UpdatePassword(r, outcome)
  BY <1>8 DEF UpdatePassword, Shape, TypeOK
<1>. QED
  BY <1>1, <1>3, <1>4, <1>5, <1>6, <1>7, <1>8 DEF Next

\* Only edits that have read their row are crossed, and they stay crossed.
LEMMA CrossedFrame ==
  ASSUME TypeOK, Shape, [Next]_vars
  PROVE  crossed \subseteq crossed' /\ \A q \in crossed' : q \in crossed \/ pc[q] = "update"
BY SetsFrame DEF SetsPassword

LEMMA UndoneStable ==
  ASSUME TypeOK, Shape, LatestRead, [Next]_vars, NEW u \in Users, Undone(u)
  PROVE  Undone(u)'
<1>1. PICK q \in crossed : req[q].user = u /\ ~req[q].password /\ pc[q] \in {"ok", "error"}
  BY DEF Undone
<1>2. q \in Requests /\ q \in crossed'
  BY CrossedFrame DEF TypeOK
<1>3. req'[q] = req[q] /\ pc'[q] = pc[q]
  BY <1>1, <1>2, RequestsFrame DEF Finished
<1>. QED
  BY <1>1, <1>2, <1>3 DEF Undone

LEMMA LatestStep == TypeOK /\ Shape /\ LatestRead /\ [Next]_vars => LatestRead'
<1>. SUFFICES ASSUME TypeOK, Shape, LatestRead, [Next]_vars
              PROVE  LatestRead'
  OBVIOUS
<1>1. \A q \in crossed' : req'[q] \in EditReq
  <2>. SUFFICES ASSUME NEW q \in crossed' PROVE req'[q] \in EditReq
    OBVIOUS
  <2>1. q \in Requests /\ req[q] \in EditReq
    BY CrossedFrame, TypeStep DEF LatestRead, Shape, TypeOK
  <2>2. pc[q] # "idle"
    BY <2>1 DEF Shape, EditReq, NoReq
  <2>. QED
    BY <2>1, <2>2, RequestsFrame
\* What a stale edit writes back is the stored password, or an edit has been crossed.
<1>2. ASSUME NEW u \in Users, NEW r \in Requests,
             pc[r] = "update" /\ req[r] \in EditReq /\ req[r].user = u /\ ~req[r].password,
             pc'[r] \in {"ok", "error"}
      PROVE  read[r] = account[u].hash \/ Undone(u)'
  <2>1. read[r] = account[u].hash \/ r \in crossed \/ Undone(u)
    BY <1>2 DEF LatestRead
  <2>2. r \in crossed => r \in crossed'
    BY CrossedFrame
  <2>3. req'[r] = req[r]
    BY <1>2, RequestsFrame
  <2>. QED
    BY <1>2, <2>1, <2>2, <2>3, UndoneStable DEF Undone
<1>3. ASSUME NEW u \in Users, account'[u] # Absent
      PROVE  account'[u].hash = latest'[u] \/ Undone(u)'
  <2>1. CASE Exists(u) /\ account'[u].hash = account[u].hash /\ latest'[u] = latest[u]
    BY <2>1, UndoneStable DEF LatestRead, LatestPassword, Undone
  <2>2. ASSUME NEW r \in Requests,
               pc[r] = "update" /\ req[r] \in EditReq /\ req[r].user = u /\ ~req[r].password,
               pc'[r] \in {"ok", "error"},
               Exists(u) /\ account'[u].hash = read[r] /\ latest'[u] = latest[u]
        PROVE  account'[u].hash = latest'[u] \/ Undone(u)'
    BY <2>2, <1>2, UndoneStable DEF LatestRead, LatestPassword, Undone
  <2>. QED
    BY <1>3, <2>1, <2>2, Changes
<1>4. ASSUME NEW q \in Requests, NEW u \in Users, pc'[q] = "update", u = req'[q].user
      PROVE  read'[q] = account'[u].hash \/ q \in crossed' \/ Undone(u)'
  <2>1. CASE pc[q] = "update" /\ read'[q] = read[q]
    <3>1. req'[q] = req[q] /\ Exists(u) /\ account'[u] # Absent
      BY <2>1, <1>4, RequestsFrame, AccountsStay DEF Shape
    <3>2. read[q] = account[u].hash \/ q \in crossed \/ Undone(u)
      BY <2>1, <3>1, <1>4 DEF LatestRead
    <3>3. (q \in crossed => q \in crossed') /\ (Undone(u) => Undone(u)')
      BY CrossedFrame, UndoneStable
    <3>4. CASE account'[u].hash = account[u].hash
      BY <2>1, <3>2, <3>3, <3>4
    <3>5. ASSUME NEW r \in Requests, SetsPassword(r, u), pc'[r] # "update"
          PROVE  q \in crossed'
      BY <3>5, <2>1, <3>1, <1>4 DEF SetsPassword
    <3>6. ASSUME NEW r \in Requests,
                 pc[r] = "update" /\ req[r] \in EditReq /\ req[r].user = u /\ ~req[r].password,
                 pc'[r] \in {"ok", "error"}, account'[u].hash = read[r]
          PROVE  account'[u].hash = account[u].hash \/ Undone(u)'
      BY <3>6, <1>2
    <3>. QED
      BY <3>1, <3>4, <3>5, <3>6, Changes
  <2>2. CASE FindAccount(q)
    <3>1. req'[q] = req[q] /\ account' = account
      BY <2>2, RequestsFrame DEF FindAccount, rows
    <3>2. read'[q] = account[u].hash
      BY <2>2, <3>1, <1>4 DEF FindAccount, Goto, TypeOK
    <3>. QED
      BY <3>1, <3>2
  <2>. QED
    BY <1>4, <2>1, <2>2, Reads
<1>5. ASSUME NEW q \in Requests, pc'[q] = "update"
      PROVE  req'[q].user \in Users
  BY <1>5, Reads, RequestsFrame, Asked DEF FindAccount
<1>. QED
  BY <1>1, <1>3, <1>4, <1>5 DEF LatestRead, LatestPassword, Exists, Undone

-----------------------------------------------------------------------------
(* Transactions that replace reset tokens *)

\* A transaction changes by a step of its own request only.
LEMMA TxFrame ==
  ASSUME TypeOK, [Next]_vars
  PROVE  \/ \E r \in Requests : DeleteUnused(r) \/ LockUnused(r) \/ Abort(r)
         \/ \E r \in Requests, outcome \in {"mail", "error"} : SaveToken(r, outcome)
         \/ /\ UNCHANGED <<seen, removed, raced>>
            /\ \A q \in Requests : pc'[q] \in {"lock", "save"} \/ InTx(q) => pc'[q] = pc[q]
<1>. USE DEF TypeOK, InTx, Goto
<1>1. CASE \/ UNCHANGED vars \/ Tick
           \/ \E c \in Callers, u \in Users, b \in BOOLEAN : SetActive(c, u, b)
  BY <1>1 DEF vars, local, history, Tick, SetActive
<1>2. CASE \E r \in Requests, c \in Callers, u \in Users, email \in Emails, role \in Roles :
             \/ StartCreate(r, c, u, email, role)
             \/ \E password \in BOOLEAN : StartEdit(r, c, u, email, role, password)
  BY <1>2 DEF StartCreate, StartEdit, local, history
<1>3. CASE \E r \in Requests : \/ \E email \in Emails : StartForgot(r, email)
                               \/ \E p \in Requests : StartReset(r, p)
  BY <1>3 DEF StartForgot, StartReset, local, history
<1>4. CASE \E r \in Requests : InsertAccount(r) \/ UpdateAccount(r)
  BY <1>4 DEF InsertAccount, UpdateAccount, local
<1>5. CASE \E r \in Requests : FindAccount(r) \/ FindEmail(r) \/ SendMail(r)
  BY <1>5 DEF FindAccount, FindEmail, SendMail, local, history
<1>6. CASE \E r \in Requests : \/ FindToken(r) \/ MarkUsed(r) \/ MarkFails(r)
                               \/ \E outcome \in {"markUsed", "error"} : UpdatePassword(r, outcome)
  BY <1>6 DEF FindToken, MarkUsed, MarkFails, UpdatePassword, local, history
<1>. QED
  BY <1>1, <1>2, <1>3, <1>4, <1>5, <1>6 DEF Next

LEMMA DeletesStep == TypeOK /\ DeletesUnused /\ [Next]_vars => DeletesUnused'
<1>. SUFFICES ASSUME TypeOK, DeletesUnused, [Next]_vars
              PROVE  \A r \in Requests : \A q \in removed'[r] :
                       /\ pc'[r] = "save" /\ token'[q] = "unused"
                       /\ \A p \in Requests \ {r} : q \notin removed'[p]
  BY DEF DeletesUnused, LockedByOther
<1>. USE DEF TypeOK, DeletesUnused, LockedByOther
<1>1. ASSUME NEW r \in Requests, DeleteUnused(r)
      PROVE  UNCHANGED <<removed, token>> /\ \A q \in Requests : pc[q] = "save" => pc'[q] = "save"
  BY <1>1 DEF DeleteUnused, Goto, rows
<1>2. CASE \E r \in Requests : DeleteUnused(r)
  BY <1>1, <1>2
<1>3. CASE \E r \in Requests : LockUnused(r)
  BY <1>3 DEF LockUnused, Goto, rows
<1>4. CASE \E r \in Requests : Abort(r)
  BY <1>4 DEF Abort, Finish, Goto, rows
<1>5. CASE \E r \in Requests, outcome \in {"mail", "error"} : SaveToken(r, outcome)
  BY <1>5 DEF SaveToken, Finish, Goto
<1>6. CASE /\ UNCHANGED <<seen, removed, raced>>
           /\ \A q \in Requests : pc'[q] \in {"lock", "save"} \/ InTx(q) => pc'[q] = pc[q]
  <2>1. CASE token' = token
    BY <1>6, <2>1 DEF InTx
  <2>2. CASE \E r \in Requests : MarkUsed(r)
    BY <1>6, <2>2 DEF InTx, MarkUsed
  <2>3. CASE \E r \in Requests, outcome \in {"mail", "error"} : SaveToken(r, outcome)
    BY <1>5, <2>3
  <2>. QED
    BY <2>1, <2>2, <2>3, TokensFrame
<1>. QED
  BY <1>2, <1>3, <1>4, <1>5, <1>6, TxFrame

LEMMA ReplacesStep ==
  TypeOK /\ Shape /\ DeletesUnused /\ Replaces /\ [Next]_vars => Replaces'
<1>. SUFFICES ASSUME TypeOK, Shape, DeletesUnused, Replaces, [Next]_vars
              PROVE  /\ \A p, q \in Requests :
                          (p # q /\ token'[p] = "unused" /\ token'[q] = "unused" /\ who'[p] = who'[q])
                            => who'[p] \in raced'
                     /\ \A r \in Requests : pc'[r] \in {"lock", "save"} /\ who'[r] \notin raced' =>
                          /\ \A p \in Requests \ {r} : pc'[p] \in {"lock", "save"} => who'[p] # who'[r]
                          /\ \A q \in Requests : token'[q] = "unused" /\ who'[q] = who'[r] =>
                               q \in (IF pc'[r] = "lock" THEN seen'[r] ELSE removed'[r])
  BY DEF Replaces, OneResetToken, InTx
<1>. USE DEF TypeOK, Replaces, OneResetToken, InTx
<1>1. \A q \in Requests :
        token[q] # "none" \/ pc[q] \in {"delete", "lock", "save"} => who'[q] = who[q]
  BY RequestsFrame DEF Shape
<1>2. CASE \E r \in Requests : DeleteUnused(r)
  <2>1. PICK r \in Requests : DeleteUnused(r)
    BY <1>2
  <2>2. /\ pc' = [pc EXCEPT ![r] = "lock"] /\ pc[r] = "delete"
        /\ token' = token /\ who' = who /\ removed' = removed
        /\ seen' = [seen EXCEPT ![r] = {q \in Requests : token[q] = "unused" /\ who[q] = who[r]}]
        /\ raced \subseteq raced'
        /\ (\E q \in Requests : pc[q] \in {"lock", "save"} /\ who[q] = who[r]) => who[r] \in raced'
    BY <2>1 DEF DeleteUnused, Goto, rows
  <2>. QED
    BY <2>2
<1>3. CASE \E r \in Requests : LockUnused(r)
  BY <1>3 DEF LockUnused, Goto, rows, history
<1>4. CASE \E r \in Requests : Abort(r)
  <2>1. PICK r \in Requests : Abort(r)
    BY <1>4
  <2>2. /\ pc' = [pc EXCEPT ![r] = "error"] /\ token' = token /\ who' = who /\ raced' = raced
        /\ \A q \in Requests \ {r} : seen'[q] = seen[q] /\ removed'[q] = removed[q]
    BY <2>1 DEF Abort, Finish, Goto, rows, history
  <2>. QED
    BY <2>2
<1>5. CASE \E r \in Requests, outcome \in {"mail", "error"} : SaveToken(r, outcome)
  <2>1. PICK r \in Requests, outcome \in {"mail", "error"} : SaveToken(r, outcome)
    BY <1>5
  <2>2. /\ pc' = [pc EXCEPT ![r] = outcome] /\ pc[r] = "save" /\ who' = who /\ raced' = raced
        /\ token' = [q \in Requests |-> IF q = r THEN "unused"
                                        ELSE IF q \in removed[r] THEN "deleted" ELSE token[q]]
        /\ \A q \in Requests \ {r} : seen'[q] = seen[q] /\ removed'[q] = removed[q]
    BY <2>1 DEF SaveToken, Finish, Goto, history
  <2>3. \A q \in Requests \ {r} :
          token'[q] = "unused" => token[q] = "unused" /\ (who[q] = who[r] => who[r] \in raced)
    BY <2>2
  <2>. QED
    BY <2>2, <2>3
<1>6. CASE /\ UNCHANGED <<seen, removed, raced>>
           /\ \A q \in Requests : pc'[q] \in {"lock", "save"} \/ InTx(q) => pc'[q] = pc[q]
  <2>1. CASE \A q \in Requests : token'[q] = "unused" => token[q] = "unused"
    <3>1. \A q \in Requests : token'[q] = "unused" \/ pc'[q] \in {"lock", "save"} => who'[q] = who[q]
      BY <1>1, <1>6, <2>1
    <3>. QED
      BY <1>6, <2>1, <3>1
  <2>2. CASE \E r \in Requests, outcome \in {"mail", "error"} : SaveToken(r, outcome)
    BY <1>5, <2>2
  <2>. QED
    BY <2>1, <2>2, TokensFrame DEF MarkUsed
<1>. QED
  BY <1>2, <1>3, <1>4, <1>5, <1>6, TxFrame

-----------------------------------------------------------------------------
(* Late resets *)

\* A request that is not at a statement that sets a password stays without effect.
LEMMA UnsetStable ==
  ASSUME TypeOK, Shape, [Next]_vars, NEW r \in Requests, Unset(r),
         pc[r] \notin {"insert", "update", "updatePassword"}
  PROVE  Unset(r)'
<1>1. \A u \in Users : latest'[u] # r
  BY SetsFrame DEF SetsPassword, Unset, TypeOK
<1>2. ASSUME NEW u \in Users, account'[u] # Absent
      PROVE  account'[u].hash # r
  <2>1. \A p \in Requests : p # r => NewHash(p) # r
    BY DEF NewHash, Unset
  <2>. QED
    BY <1>2, <2>1, Hashes DEF Unset
<1>3. ASSUME NEW q \in Requests
      PROVE  read'[q] # r
  <2>1. FindAccount(q) => read'[q] # r
    BY Asked DEF FindAccount, Unset, TypeOK, Exists
  <2>. QED
    BY <2>1, Reads DEF Unset
<1>. QED
  BY <1>1, <1>2, <1>3 DEF Unset, Exists

\* A token that has been marked stays marked.
LEMMA UsedStays ==
  ASSUME TypeOK, Shape, DeletesUnused, [Next]_vars, NEW q \in Requests, token[q] = "used"
  PROVE  token'[q] = "used"
<1>1. ASSUME NEW r \in Requests, NEW outcome \in {"mail", "error"}, SaveToken(r, outcome)
      PROVE  token'[q] = "used"
  BY <1>1 DEF SaveToken, Shape, DeletesUnused, TypeOK
<1>2. ASSUME NEW r \in Requests, MarkUsed(r)
      PROVE  token'[q] = "used"
  BY <1>2 DEF MarkUsed, TypeOK
<1>. QED
  BY <1>1, <1>2, TokensFrame

LEMMA LateFrame ==
  ASSUME [Next]_vars
  PROVE  UNCHANGED late \/ \E r, q \in Requests : StartReset(r, q)
<1>1. CASE \/ UNCHANGED vars \/ Tick
           \/ \E c \in Callers, u \in Users, b \in BOOLEAN : SetActive(c, u, b)
  BY <1>1 DEF vars, history, Tick, SetActive
<1>2. CASE \E r \in Requests, c \in Callers, u \in Users, email \in Emails, role \in Roles :
             \/ StartCreate(r, c, u, email, role)
             \/ \E password \in BOOLEAN : StartEdit(r, c, u, email, role, password)
  BY <1>2 DEF StartCreate, StartEdit, history
<1>3. CASE \E r \in Requests : \/ \E email \in Emails : StartForgot(r, email)
                               \/ \E p \in Requests : StartReset(r, p)
  BY <1>3 DEF StartForgot, history
<1>4. CASE \E r \in Requests : InsertAccount(r) \/ FindAccount(r) \/ UpdateAccount(r)
  BY <1>4 DEF InsertAccount, FindAccount, UpdateAccount, history
<1>5. CASE \E r \in Requests : \/ FindEmail(r) \/ DeleteUnused(r) \/ LockUnused(r) \/ SendMail(r)
                               \/ \E outcome \in {"mail", "error"} : SaveToken(r, outcome)
  BY <1>5 DEF FindEmail, DeleteUnused, LockUnused, SendMail, SaveToken, history
<1>6. CASE \E r \in Requests : \/ FindToken(r) \/ MarkUsed(r) \/ MarkFails(r) \/ Abort(r)
                               \/ \E outcome \in {"markUsed", "error"} : UpdatePassword(r, outcome)
  BY <1>6 DEF FindToken, MarkUsed, MarkFails, Abort, UpdatePassword, history
<1>. QED
  BY <1>1, <1>2, <1>3, <1>4, <1>5, <1>6 DEF Next

LEMMA LateStep ==
  TypeOK /\ Shape /\ DeletesUnused /\ LateRefused /\ [Next]_vars => LateRefused'
<1>. SUFFICES ASSUME TypeOK, Shape, DeletesUnused, LateRefused, [Next]_vars
              PROVE  LateRefused'
  OBVIOUS
<1>1. ASSUME NEW r \in Requests, pc'[r] = "idle"
      PROVE  Unset(r)'
  BY <1>1, UnsetStable, RequestsFrame DEF LateRefused
<1>2. ASSUME NEW r \in late
      PROVE  /\ Unset(r)'
             /\ req'[r] \in ResetReq /\ token'[req'[r].token] = "used"
             /\ pc'[r] \in {"findToken", "refused", "error"}
  <2>1. /\ r \in Requests /\ Unset(r) /\ req[r] \in ResetReq /\ token[req[r].token] = "used"
        /\ pc[r] \in {"findToken", "refused", "error"}
    BY <1>2 DEF LateRefused, TypeOK
  <2>2. req[r].token \in Requests
    BY <2>1 DEF ResetReq
  <2>3. pc'[r] \in {"findToken", "refused", "error"}
    <3>1. FindToken(r) => pc'[r] = "refused"
      BY <2>1 DEF FindToken, Goto, TypeOK
    <3>. QED
      BY <2>1, <3>1, Moves, RequestsFrame DEF Finished
  <2>. QED
    BY <2>1, <2>2, <2>3, UnsetStable, UsedStays, RequestsFrame
<1>3. ASSUME NEW r \in Requests, NEW q \in Requests, StartReset(r, q), token[q] = "used"
      PROVE  /\ Unset(r)'
             /\ req'[r] \in ResetReq /\ token'[req'[r].token] = "used"
             /\ pc'[r] \in {"findToken", "refused", "error"}
  <2>1. /\ pc[r] = "idle" /\ pc'[r] = "findToken" /\ token' = token
        /\ req'[r] = [op |-> "reset", token |-> q]
    BY <1>3 DEF StartReset, Goto, TypeOK, rows
  <2>. QED
    BY <1>3, <2>1, UnsetStable DEF LateRefused, ResetReq
<1>4. late' \subseteq Requests
  BY TypeStep DEF TypeOK
<1>5. ASSUME NEW r \in late', r \notin late
      PROVE  \E q \in Requests : StartReset(r, q) /\ token[q] = "used"
  BY <1>5, LateFrame DEF StartReset
<1>. QED
  BY <1>1, <1>2, <1>3, <1>4, <1>5 DEF LateRefused, Unset, Exists

-----------------------------------------------------------------------------
(* The theorems *)

\* The three facts of the inductive invariant.
LEMMA InvStep == IInv /\ [Next]_vars => IInv'
BY TypeStep, ShapeStep, EntitledStep, DeletesStep, LateStep, LatestStep, ReplacesStep DEF IInv

LEMMA InvHolds == Spec => []IInv
BY InitInv, InvStep, PTL DEF Spec

\* Every variable keeps its type.
THEOREM TypeCorrect == Spec => []TypeOK
<1>1. IInv => TypeOK
  BY DEF IInv
<1>. QED
  BY <1>1, InvHolds, PTL

\* A stored password was set by the seeder, or by a request entitled to: neither an edit that
\* writes a row back nor a reset brings in the password of another account.
THEOREM Entitlement == Spec => []PasswordsEntitled
<1>1. IInv => PasswordsEntitled
  BY DEF IInv, HashesEntitled, Entitled, PasswordsEntitled
<1>. QED
  BY <1>1, InvHolds, PTL

\* The write-back of an edit that was crossed is the only way the last password is lost.
THEOREM LastPasswordKept == Spec => []LatestPassword
<1>1. IInv => LatestPassword
  BY DEF IInv, LatestRead
<1>. QED
  BY <1>1, InvHolds, PTL

\* A reset token that has been marked sets no password any more.
THEOREM ResetsOnce == Spec => []UsedTokenRefused
<1>1. IInv => UsedTokenRefused
  BY DEF IInv, LateRefused, Unset, UsedTokenRefused
<1>. QED
  BY <1>1, InvHolds, PTL

\* Without overlapping forgot requests of a user, the transaction leaves the user one token.
THEOREM OneTokenEach == Spec => []OneResetToken
<1>1. IInv => OneResetToken
  BY DEF IInv, Replaces
<1>. QED
  BY <1>1, InvHolds, PTL
=============================================================================
