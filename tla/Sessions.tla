------------------------------ MODULE Sessions ------------------------------
(***************************************************************************)
(* Sessions (service/auth_service.go, repository/refresh_token_repository  *)
(* .go): a login creates a refresh token, a refresh exchanges it for       *)
(* another one, a logout deletes the tokens of the user.  Accounts and     *)
(* associations are deactivated meanwhile.                                 *)
(*                                                                         *)
(* Login and refresh are several statements without a transaction; other   *)
(* requests run between two of them, and a failure, a cancelled request or *)
(* a crash may end a request after any of them.  A request creates one     *)
(* token at most, so the request stands for the token it creates.          *)
(***************************************************************************)
EXTENDS Naturals, FiniteSets

CONSTANTS
  Requests,     \* requests to log in or to refresh
  Users, SystemAdmins,
  Assocs,
  HomeOf,       \* association of a user who is no system admin
  Lifetime,     \* RefreshTokenExpiry
  MaxTime       \* bound: the clock stops here

ASSUME Accounts ==
  /\ SystemAdmins \subseteq Users
  /\ HomeOf \in [Users -> Assocs]
  /\ Lifetime \in Nat /\ MaxTime \in Nat

VARIABLES
  now,         \* wall clock
  active,      \* users.is_active
  assocActive, \* associations.is_active
  tokens,      \* rows of refresh_tokens
  req,         \* req[r]: what request r asks for
  pc,          \* pc[r]: the next repository call of r, or its outcome
  root,        \* history: root[r] is the login that began the session of r
  over,        \* history: sessions that a logout has ended
  raced,       \* history: sessions two refreshes of which overlapped
  late,        \* history: refreshes sent after their token had been exchanged
  barred       \* history: requests of users inactive since they were sent

rows    == <<active, assocActive, tokens>>
history == <<root, over, raced, late, barred>>
vars    == <<now, rows, req, pc, history>>

NoReq == [op |-> "none"]

\* A request past FindByTokenHash, or a login past the lookup of its user.
Exchanging == {"findActive", "deleteToken", "createToken"}
Steps      == {"findUser", "findToken"} \cup Exchanging
Finished   == {"ok", "denied", "error"}

Init ==
  /\ now = 0
  /\ active = [u \in Users |-> TRUE]
  /\ assocActive = [a \in Assocs |-> TRUE]
  /\ tokens = {}
  /\ req = [r \in Requests |-> NoReq]
  /\ pc = [r \in Requests |-> "idle"]
  /\ root = [r \in Requests |-> r]
  /\ over = {}
  /\ raced = {}
  /\ late = {}
  /\ barred = {}

Tick ==
  /\ now < MaxTime
  /\ now' = now + 1
  /\ UNCHANGED <<rows, req, pc, history>>

\* The user of the session of r.
UserOf(r) == req[root[r]].user

Goto(r, step) == pc' = [pc EXCEPT ![r] = step]

\* Requests between the lookup and the end of a login or refresh of session x.
InFlight(x) == {r \in Requests : root[r] = x /\ pc[r] \in Exchanging}

\* Clients that were given a token: only they can refresh or log out.
HasToken(r) == pc[r] = "ok"

-----------------------------------------------------------------------------
(* AuthService.Login *)

StartLogin(r, u) ==
  /\ pc[r] = "idle"
  /\ req' = [req EXCEPT ![r] = [op |-> "login", user |-> u]]
  /\ Goto(r, "findUser")
  /\ barred' = IF active[u] THEN barred ELSE barred \cup {r}
  /\ UNCHANGED <<now, rows, root, over, raced, late>>

\* Faulty: the lookup ignores is_active of the user.
FindUserFaulty(r) ==
  /\ pc[r] = "findUser"
  /\ Goto(r, "createToken")
  /\ UNCHANGED <<now, rows, req, history>>

\* FindByEmailAndAssociationCode finds the user, or FindByEmailForSystemAdmin does.
MayLogin(u) == active[u] /\ (u \in SystemAdmins \/ assocActive[HomeOf[u]])

\* Login of a user who knows the password.
FindUser(r) ==
  /\ pc[r] = "findUser"
  /\ Goto(r, IF MayLogin(req[r].user) THEN "createToken" ELSE "denied")
  /\ UNCHANGED <<now, rows, req, history>>

\* Faulty: the lifetime is subtracted from the clock.
CreateTokenFaulty(r, outcome) ==
  /\ pc[r] = "createToken"
  /\ tokens' = tokens \cup {[by |-> r, user |-> UserOf(r), expires |-> now - Lifetime]}
  /\ Goto(r, outcome)
  /\ UNCHANGED <<now, active, assocActive, req, history>>

\* RefreshTokenRepository.Create, the last step of Login and RefreshToken.  The client
\* gets no token if the connection is lost after the INSERT.
CreateToken(r, outcome) ==
  /\ pc[r] = "createToken"
  /\ tokens' = tokens \cup {[by |-> r, user |-> UserOf(r), expires |-> now + Lifetime]}
  /\ Goto(r, outcome)
  /\ UNCHANGED <<now, active, assocActive, req, history>>

-----------------------------------------------------------------------------
(* AuthService.RefreshToken *)

StartRefresh(r, q) ==
  /\ pc[r] = "idle"
  /\ HasToken(q)
  /\ req' = [req EXCEPT ![r] = [op |-> "refresh", token |-> q]]
  /\ root' = [root EXCEPT ![r] = root[q]]
  /\ Goto(r, "findToken")
  /\ late' = IF \E p \in Requests : pc[p] = "ok" /\ req[p] = [op |-> "refresh", token |-> q]
             THEN late \cup {r} ELSE late
  /\ barred' = IF active[UserOf(q)] THEN barred ELSE barred \cup {r}
  /\ UNCHANGED <<now, rows, over, raced>>

FindToken(r) ==
  /\ pc[r] = "findToken"
  /\ IF \E t \in tokens : t.by = req[r].token /\ t.expires > now
     THEN /\ Goto(r, "findActive")
          /\ raced' = IF InFlight(root[r]) # {} THEN raced \cup {root[r]} ELSE raced
     ELSE Goto(r, "denied") /\ UNCHANGED raced
  /\ UNCHANGED <<now, rows, req, root, over, late, barred>>

\* UserRepository.FindByID: the association's is_active is not looked at.
FindActive(r) ==
  /\ pc[r] = "findActive"
  /\ Goto(r, IF active[UserOf(r)] THEN "deleteToken" ELSE "denied")
  /\ UNCHANGED <<now, rows, req, history>>

\* Faulty: the exchanged token is kept.
DeleteTokenFaulty(r) ==
  /\ pc[r] = "deleteToken"
  /\ Goto(r, "createToken")
  /\ UNCHANGED <<now, rows, req, history>>

\* DeleteByTokenHash does not tell whether the row was still there.
DeleteToken(r) ==
  /\ pc[r] = "deleteToken"
  /\ tokens' = {t \in tokens : t.by # req[r].token}
  /\ Goto(r, "createToken")
  /\ UNCHANGED <<now, active, assocActive, req, history>>

\* A failing statement, a cancelled request or a crash of the server.
Abort(r) ==
  /\ pc[r] \in Steps
  /\ Goto(r, "error")
  /\ UNCHANGED <<now, rows, req, history>>

-----------------------------------------------------------------------------
(* AuthService.Logout; accounts and associations *)

\* The sessions of u that a logout ends: those without a refresh that has found its
\* token already.
Ended(u) ==
  {x \in Requests : /\ req[x] = [op |-> "login", user |-> u]
                    /\ pc[x] \in Finished
                    /\ InFlight(x) = {}}

\* Faulty: the logout deletes the token it was sent with only.
LogoutFaulty(q) ==
  /\ HasToken(q)
  /\ tokens' = {t \in tokens : t.by # q}
  /\ over' = over \cup Ended(UserOf(q))
  /\ UNCHANGED <<now, active, assocActive, req, pc, root, raced, late, barred>>

\* DeleteByUserID
TokensOf(u) == {t \in tokens : t.user = u}

\* The client of token q logs out.
Logout(q) ==
  /\ HasToken(q)
  /\ tokens' = tokens \ TokensOf(UserOf(q))
  /\ over' = over \cup Ended(UserOf(q))
  /\ UNCHANGED <<now, active, assocActive, req, pc, root, raced, late, barred>>

\* Account Activate and Deactivate; nobody deactivates the own account.
SetActive(caller, u, b) ==
  /\ b \/ caller # u
  /\ caller \in SystemAdmins \/ (u \notin SystemAdmins /\ HomeOf[caller] = HomeOf[u])
  /\ active' = [active EXCEPT ![u] = b]
  /\ barred' = IF b THEN {r \in barred : UserOf(r) # u} ELSE barred
  /\ UNCHANGED <<now, assocActive, tokens, req, pc, root, over, raced, late>>

\* Association Activate and Deactivate, by a system admin.
SetAssocActive(a, b) ==
  /\ assocActive' = [assocActive EXCEPT ![a] = b]
  /\ UNCHANGED <<now, active, tokens, req, pc, history>>

-----------------------------------------------------------------------------

Next ==
  \/ Tick
  \/ \E r \in Requests :
       \/ \E u \in Users : StartLogin(r, u)
       \/ \E q \in Requests : StartRefresh(r, q)
       \/ FindUser(r) \/ FindToken(r) \/ FindActive(r) \/ DeleteToken(r)
       \/ \E outcome \in {"ok", "error"} : CreateToken(r, outcome)
       \/ Abort(r)
       \/ Logout(r)
  \/ \E c, u \in Users, b \in BOOLEAN : SetActive(c, u, b)
  \/ \E a \in Assocs, b \in BOOLEAN : SetAssocActive(a, b)

Spec == Init /\ [][Next]_vars

-----------------------------------------------------------------------------
(* Correctness *)

LoginReq   == [op : {"login"}, user : Users]
RefreshReq == [op : {"refresh"}, token : Requests]
TokenRow   == [by : Requests, user : Users, expires : Nat]

\* The type of every variable.
TypeOK ==
  /\ now \in 0..MaxTime
  /\ active \in [Users -> BOOLEAN]
  /\ assocActive \in [Assocs -> BOOLEAN]
  /\ tokens \subseteq TokenRow
  /\ req \in [Requests -> LoginReq \cup RefreshReq \cup {NoReq}]
  /\ pc \in [Requests -> {"idle"} \cup Steps \cup Finished]
  /\ root \in [Requests -> Requests]
  /\ over \subseteq Requests
  /\ raced \subseteq Requests
  /\ late \subseteq Requests
  /\ barred \subseteq Requests

\* A logout ends the sessions of its user for good: no token of theirs is stored or in
\* the making any more.  Only a login or refresh that had found its user or token before
\* the DELETE survives it.
SessionEnds ==
  /\ \A t \in tokens : root[t.by] \notin over
  /\ \A x \in over : InFlight(x) = {}

\* A refresh sent after its token had been exchanged gets no token.
LateReuseRefused ==
  \A r \in late : pc[r] # "ok" /\ \A t \in tokens : t.by # r

\* A request whose user was deactivated before it was sent, and is still, gets no token.
InactiveGetsNothing ==
  \A r \in barred : pc[r] # "ok" /\ \A t \in tokens : t.by # r

\* A session has one stored token at most, unless two of its refreshes overlapped.
OneTokenPerSession ==
  \A s, t \in tokens : (s # t /\ root[s.by] = root[t.by]) => root[t.by] \in raced

\* "A used refresh token becomes invalid" (internal/auth/service_test.go:201): no two
\* refreshes exchange the same token.
ExchangedOnce ==
  \A q, r \in Requests :
    (q # r /\ pc[q] = "ok" /\ pc[r] = "ok" /\ req[q].op = "refresh" /\ req[r].op = "refresh")
      => req[q].token # req[r].token

=============================================================================
