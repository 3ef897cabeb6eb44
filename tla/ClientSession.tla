---------------------------- MODULE ClientSession ----------------------------
(***************************************************************************)
(* The session of a client (frontend features/auth: AuthRepository and     *)
(* AuthNotifier) on top of the server's Sessions: the tokens the app keeps *)
(* in the secure storage, and the access tokens the middleware admits.     *)
(*                                                                         *)
(* The app is the one of AppUser.  It writes and deletes its two tokens    *)
(* one after the other, may be killed at any moment, and takes every       *)
(* exception of its HTTP client, a timeout included, for a refusal.  The   *)
(* requests that are not the app's are those of other devices, AppUser's   *)
(* own among them.                                                         *)
(***************************************************************************)
EXTENDS Sessions

CONSTANTS
  AppUser,
  AccessLife,  \* AccessTokenExpiry
  None

ASSUME Client ==
  /\ AppUser \in Users
  /\ AccessLife \in Nat
  /\ None \notin Requests

VARIABLES
  phase,    \* what the app is doing
  call,     \* the login or refresh the app waits for, or whose tokens it saves
  access, refresh, \* the requests whose tokens the secure storage holds
  issued,   \* issued[r]: when the access token of request r was signed
  mine,     \* history: the requests of the app
  stray,    \* history: requests whose refresh token the app dropped and did not log out
  cut,      \* history: tokens the app was killed with while it exchanged or deleted them
  revoked,  \* history: tokens that a logout has deleted
  since,    \* history: since[u]: when u was last deactivated
  straddled \* history: requests that had found their user active when it was deactivated

app     == <<phase, call, access, refresh, mine, stray, cut>>
account == <<revoked, since, straddled>>
all     == <<vars, app, issued, account>>

\* Phases in which an answer or its tokens are on their way.
Calling == {"signIn", "restore", "saveAccess", "saveRefresh"}
Phases  == Calling \cup {"closed", "login", "in", "signOut", "clearAccess", "clearRefresh"}

AppInit ==
  /\ Init
  /\ phase = "closed"
  /\ call = None /\ access = None /\ refresh = None
  /\ issued = [r \in Requests |-> 0]
  /\ mine = {} /\ stray = {} /\ cut = {} /\ revoked = {}
  /\ since = [u \in Users |-> 0]
  /\ straddled = {}

Become(p) == phase' = p /\ UNCHANGED <<call, access, refresh, mine, cut>>

Rejected(r) == pc[r] \in {"denied", "error"}

\* The app gives up tokens rs without the server having deleted them.
Drop(rs) == stray' = stray \cup (rs \ {None})

-----------------------------------------------------------------------------
(* The server *)

\* Faulty: a token that has expired is accepted.
AuthenticatesFaulty(r) == r \in Requests /\ pc[r] = "ok"

\* ValidateAccessToken: signature and expiry, neither the account nor its session.
Authenticates(r) == r \in Requests /\ pc[r] = "ok" /\ now < issued[r] + AccessLife

\* The steps of a login or refresh that has been sent.
Serve(r) ==
  \/ /\ FindUser(r) \/ FindToken(r) \/ FindActive(r) \/ DeleteToken(r) \/ Abort(r)
     /\ UNCHANGED issued
  \/ /\ \E outcome \in {"ok", "error"} : CreateToken(r, outcome)
     /\ issued' = [issued EXCEPT ![r] = now]

\* An account is activated or deactivated.
Administer(caller, u, b) ==
  /\ SetActive(caller, u, b)
  /\ IF b THEN UNCHANGED <<since, straddled>>
     ELSE /\ since' = [since EXCEPT ![u] = IF active[u] THEN now ELSE @]
          /\ straddled' = straddled \cup
               {r \in Requests : pc[r] \in {"deleteToken", "createToken"} /\ UserOf(r) = u}
  /\ UNCHANGED <<app, issued, revoked>>

\* POST /auth/logout behind Authenticate, sent with the access token of r.
LogoutWith(r) ==
  /\ Authenticates(r)
  /\ Logout(r)
  /\ revoked' = revoked \cup {t.by : t \in TokensOf(UserOf(r))}
  /\ UNCHANGED <<issued, since, straddled>>

-----------------------------------------------------------------------------
(* The app *)

\* AuthNotifier.initialize and restoreSession: without a refresh token there is no call.
Open(r) ==
  /\ phase = "closed"
  /\ IF refresh = None
     THEN phase' = "login" /\ UNCHANGED <<vars, call, mine>>
     ELSE /\ StartRefresh(r, refresh)
          /\ phase' = "restore" /\ call' = r /\ mine' = mine \cup {r}
  /\ UNCHANGED <<access, refresh, stray, cut, issued, account>>

SignIn(r) ==
  /\ phase = "login"
  /\ StartLogin(r, AppUser)
  /\ phase' = "signIn" /\ call' = r /\ mine' = mine \cup {r}
  /\ UNCHANGED <<access, refresh, stray, cut, issued, account>>

Answered ==
  /\ phase \in {"signIn", "restore"} /\ pc[call] = "ok"
  /\ Become("saveAccess")
  /\ UNCHANGED <<vars, stray, issued, account>>

\* The call is refused, fails or times out, whether or not the server has answered it;
\* restoreSession then clears the storage.
Failed ==
  /\ phase \in {"signIn", "restore"}
  /\ phase' = IF phase = "restore" THEN "clearAccess" ELSE "login"
  /\ call' = None
  /\ Drop({call, refresh})
  /\ UNCHANGED <<vars, access, refresh, mine, cut, issued, account>>

\* _saveTokens
SaveAccess ==
  /\ phase = "saveAccess"
  /\ access' = call /\ phase' = "saveRefresh"
  /\ UNCHANGED <<vars, call, refresh, mine, stray, cut, issued, account>>

\* Faulty: the refresh token of the login is kept.
SaveRefreshFaulty ==
  /\ phase = "saveRefresh"
  /\ refresh' = IF refresh = None THEN call ELSE refresh
  /\ call' = None /\ phase' = "in"
  /\ UNCHANGED <<vars, access, mine, stray, cut, issued, account>>

SaveRefresh ==
  /\ phase = "saveRefresh"
  /\ refresh' = call /\ call' = None /\ phase' = "in"
  /\ UNCHANGED <<vars, access, mine, stray, cut, issued, account>>

SignOut ==
  /\ phase = "in"
  /\ Become("signOut")
  /\ UNCHANGED <<vars, stray, issued, account>>

\* Faulty: the app forgets its tokens and does not tell the server.
SignedOutFaulty ==
  /\ phase = "signOut"
  /\ Become("clearAccess")
  /\ UNCHANGED <<vars, stray, issued, account>>

\* The logout reaches the server, which deletes the tokens of AppUser.
SignedOut ==
  /\ phase = "signOut"
  /\ LogoutWith(access)
  /\ Become("clearAccess")
  /\ stray' = {r \in stray : pc[r] \in Steps}

\* The logout does not arrive, fails, or is refused because the access token has expired:
\* the exception is swallowed.
SignOutFailed ==
  /\ phase = "signOut"
  /\ Become("clearAccess")
  /\ Drop({refresh})
  /\ UNCHANGED <<vars, issued, account>>

\* _clearTokens
ClearAccess ==
  /\ phase = "clearAccess"
  /\ access' = None /\ phase' = "clearRefresh"
  /\ UNCHANGED <<vars, call, refresh, mine, stray, cut, issued, account>>

ClearRefresh ==
  /\ phase = "clearRefresh"
  /\ refresh' = None /\ phase' = "login"
  /\ UNCHANGED <<vars, call, access, mine, stray, cut, issued, account>>

\* The app is closed or killed; the storage stays as it is.
Kill ==
  /\ phase # "closed"
  /\ phase' = "closed" /\ call' = None
  /\ Drop({call})
  /\ cut' = IF phase = "in" THEN cut ELSE cut \cup ({refresh} \ {None})
  /\ UNCHANGED <<vars, access, refresh, mine, issued, account>>

-----------------------------------------------------------------------------

App(r) == Open(r) \/ SignIn(r)

AppStep ==
  \/ Answered \/ Failed \/ SaveAccess \/ SaveRefresh
  \/ SignOut \/ SignedOut \/ SignOutFailed \/ ClearAccess \/ ClearRefresh \/ Kill

\* Other devices use the tokens they were given themselves.
OtherDevice(r) ==
  \/ /\ \/ \E u \in Users : StartLogin(r, u)
        \/ \E q \in Requests \ mine : StartRefresh(r, q)
     /\ UNCHANGED <<app, issued, account>>
  \/ r \notin mine /\ LogoutWith(r) /\ UNCHANGED app

AppNext ==
  \/ AppStep
  \/ \E r \in Requests :
       \/ App(r) \/ OtherDevice(r)
       \/ Serve(r) /\ UNCHANGED <<app, account>>
  \/ \E c, u \in Users, b \in BOOLEAN : Administer(c, u, b)
  \/ /\ Tick \/ \E a \in Assocs, b \in BOOLEAN : SetAssocActive(a, b)
     /\ UNCHANGED <<app, issued, account>>

AppSpec == AppInit /\ [][AppNext]_all

-----------------------------------------------------------------------------
(* Correctness *)

Token == Requests \cup {None}

\* The type of every variable of the client and of the server.
AppTypeOK ==
  /\ TypeOK
  /\ phase \in Phases
  /\ call \in Token /\ access \in Token /\ refresh \in Token
  /\ (call # None) <=> (phase \in Calling)
  /\ issued \in [Requests -> 0..MaxTime]
  /\ mine \subseteq Requests /\ stray \subseteq mine /\ cut \subseteq mine
  /\ revoked \subseteq Requests
  /\ since \in [Users -> 0..MaxTime]
  /\ straddled \subseteq Requests

\* Every refresh token of the app that the server still accepts is the one it keeps or is
\* about to save, unless the app dropped it: killed, answered too late, refused, or logged
\* out while the server did not take the logout.
NothingLeftBehind ==
  \A t \in tokens : t.by \in mine => t.by \in stray \cup {refresh, call}

\* The refresh token an app keeps is still stored by the server, so that the app gets in
\* again when it is opened, unless a logout of the user deleted it or the app was killed
\* while it exchanged or deleted it.
StoredSessionAlive ==
  (refresh # None /\ phase \in {"closed", "in"}) =>
    refresh \in {t.by : t \in tokens} \cup revoked \cup cut

\* A deactivated user is admitted for the life of an access token at most, but for the
\* token of a login or refresh that had found the user active before.
AccessEnds ==
  \A r \in Requests \ straddled :
    Authenticates(r) => active[UserOf(r)] \/ now < since[UserOf(r)] + AccessLife

=============================================================================
