------------------------- MODULE ClientSessionProofs -------------------------
(***************************************************************************)
(* Proofs about Sessions, for every number of users, associations and      *)
(* requests, every token lifetime and every bound on the clock; and about  *)
(* ClientSession: the client and the server together are an instance of    *)
(* Sessions, so that all of that holds for them, and the tokens the app    *)
(* keeps and those the server accepts agree.                               *)
(***************************************************************************)
EXTENDS ClientSession, TLAPS

-----------------------------------------------------------------------------
(* The inductive invariant *)

AtLogin   == {"findUser", "createToken"} \cup Finished
AtRefresh == {"findToken"} \cup Exchanging \cup Finished

\* A session descends from its login, token by token; every token of the chain but
\* the last was given to a client.
Lineage ==
  \A r \in Requests :
    \/ pc[r] = "idle" /\ req[r] = NoReq /\ root[r] = r
    \/ pc[r] \in AtLogin /\ req[r] \in LoginReq /\ root[r] = r
    \/ /\ pc[r] \in AtRefresh
       /\ req[r] \in RefreshReq
       /\ pc[req[r].token] = "ok"
       /\ root[r] = root[req[r].token]
       /\ pc[root[r]] = "ok" /\ req[root[r]] \in LoginReq

\* A request stores one token at most, as its last step and for the session's user.
TokensFit ==
  /\ \A t \in tokens : pc[t.by] \in {"ok", "error"} /\ t.user = UserOf(t.by)
  /\ \A s, t \in tokens : s.by = t.by => s = t

\* A token that has been exchanged is not stored any more.
ExchangedGone ==
  \A r \in Requests :
    (pc[r] \in {"createToken", "ok"} /\ req[r] \in RefreshReq) =>
      \A t \in tokens : t.by # req[r].token

\* Only sessions whose login has ended are ended, and nothing of them is left.
OverGone ==
  /\ \A x \in over : pc[x] \in Finished /\ req[x] \in LoginReq
  /\ \A t \in tokens : root[t.by] \notin over
  /\ \A r \in Requests : pc[r] \in Exchanging => root[r] \notin over

\* A late refresh never gets past its lookup, because its token is gone.
LateStuck ==
  \A r \in late :
    /\ pc[r] \in {"findToken", "denied", "error"}
    /\ req[r] \in RefreshReq
    /\ \A t \in tokens : t.by # req[r].token
    /\ \A t \in tokens : t.by # r

\* A barred request never gets past the check of its user, who is inactive.
BarredStuck ==
  \A r \in barred :
    /\ pc[r] \in {"findUser", "findToken", "findActive", "denied", "error"}
    /\ ~active[UserOf(r)]
    /\ \A t \in tokens : t.by # r

\* Of a session whose refreshes never overlapped, one request at most is past its
\* lookup, and the only stored token is the one this request is about to exchange.
Alone ==
  \A r \in Requests :
    (pc[r] \in Exchanging /\ root[r] \notin raced) =>
      /\ \A p \in Requests : (pc[p] \in Exchanging /\ root[p] = root[r]) => p = r
      /\ \A t \in tokens : root[t.by] = root[r] =>
           pc[r] # "createToken" /\ t.by = req[r].token

\* The inductive invariant: the chain of tokens from its login on, which tokens of the chain
\* can be stored, and why ended sessions, late refreshes and barred requests are stuck.
IInv ==
  /\ TypeOK
  /\ Lineage
  /\ TokensFit
  /\ ExchangedGone
  /\ OverGone
  /\ LateStuck
  /\ BarredStuck
  /\ Alone
  /\ OneTokenPerSession

LEMMA InitInv == Init => IInv
BY Accounts DEF Init, IInv, TypeOK, Lineage, TokensFit, ExchangedGone, OverGone, LateStuck,
   BarredStuck, Alone, OneTokenPerSession, Exchanging, rows, history

-----------------------------------------------------------------------------
(* What every step leaves alone *)

\* The user of a session is the user of its login.
LEMMA UserTyped ==
  ASSUME TypeOK, Lineage, NEW r \in Requests, pc[r] # "idle"
  PROVE  /\ root[r] \in Requests /\ pc[root[r]] # "idle"
         /\ req[root[r]] \in LoginReq
         /\ UserOf(r) \in Users
BY DEF TypeOK, Lineage, LoginReq, UserOf

\* A step moves one request, starts one, or touches no request at all.
LEMMA Frame ==
  ASSUME TypeOK, Lineage, Next
  PROVE  /\ \A r \in Requests : pc[r] # "idle" =>
              /\ pc'[r] # "idle" /\ req'[r] = req[r] /\ root'[r] = root[r]
              /\ UserOf(r)' = UserOf(r)
         /\ \A r \in Requests : pc[r] \in Finished => pc'[r] = pc[r]
<1>. USE DEF TypeOK
<1>1. ASSUME NEW r \in Requests, pc[r] = "idle",
             \A q \in Requests \ {r} : pc'[q] = pc[q] /\ req'[q] = req[q] /\ root'[q] = root[q]
      PROVE  \A q \in Requests : pc[q] # "idle" =>
               /\ pc'[q] # "idle" /\ req'[q] = req[q] /\ root'[q] = root[q]
               /\ UserOf(q)' = UserOf(q)
  <2> SUFFICES ASSUME NEW q \in Requests, pc[q] # "idle"
               PROVE  /\ pc'[q] # "idle" /\ req'[q] = req[q] /\ root'[q] = root[q]
                      /\ UserOf(q)' = UserOf(q)
    OBVIOUS
  <2>1. root[q] \in Requests \ {r} /\ q # r
    BY <1>1, UserTyped
  <2>. QED
    BY <1>1, <2>1 DEF UserOf
<1>2. CASE \E r \in Requests, u \in Users : StartLogin(r, u)
  BY <1>1, <1>2 DEF StartLogin, Goto, rows, Finished
<1>3. CASE \E r, q \in Requests : StartRefresh(r, q)
  BY <1>1, <1>3 DEF StartRefresh, Goto, rows, Finished
<1>4. CASE \E r \in Requests : \/ FindUser(r) \/ FindToken(r) \/ FindActive(r) \/ DeleteToken(r)
                               \/ \E outcome \in {"ok", "error"} : CreateToken(r, outcome)
                               \/ Abort(r)
  BY <1>4 DEF FindUser, FindToken, FindActive, DeleteToken, CreateToken, Abort, Goto, rows,
     history, Steps, Exchanging, Finished, UserOf
<1>5. CASE \/ Tick
           \/ \E q \in Requests : Logout(q)
           \/ \E c, u \in Users, b \in BOOLEAN : SetActive(c, u, b)
           \/ \E a \in Assocs, b \in BOOLEAN : SetAssocActive(a, b)
  BY <1>5 DEF Tick, Logout, SetActive, SetAssocActive, history, UserOf
<1>. QED
  BY <1>2, <1>3, <1>4, <1>5 DEF Next

\* Only CreateToken adds a token.
LEMMA TokensStep ==
  ASSUME Next
  PROVE  \/ tokens' \subseteq tokens
         \/ \E r \in Requests, outcome \in {"ok", "error"} : CreateToken(r, outcome)
BY DEF Next, Tick, StartLogin, StartRefresh, FindUser, FindToken, FindActive, DeleteToken,
   Abort, Logout, SetActive, SetAssocActive, rows

LEMMA TypeStep == ASSUME IInv, [Next]_vars PROVE TypeOK'
<1>. USE Accounts DEF IInv, TypeOK
<1>1. CASE Next
  <2>1. CASE Tick
    BY <2>1 DEF Tick, rows, history
  <2>2. ASSUME NEW r \in Requests, NEW u \in Users, StartLogin(r, u) PROVE TypeOK'
    BY <2>2 DEF StartLogin, Goto, rows, Steps, LoginReq
  <2>3. ASSUME NEW r \in Requests, NEW q \in Requests, StartRefresh(r, q) PROVE TypeOK'
    BY <2>3 DEF StartRefresh, Goto, rows, Steps, RefreshReq
  <2>4. ASSUME NEW r \in Requests,
               FindUser(r) \/ FindToken(r) \/ FindActive(r) \/ DeleteToken(r) \/ Abort(r)
        PROVE  TypeOK'
    BY <2>4 DEF FindUser, FindToken, FindActive, DeleteToken, Abort, Goto, rows, history,
       Steps, Exchanging, Finished
  <2>5. ASSUME NEW r \in Requests, NEW outcome \in {"ok", "error"}, CreateToken(r, outcome)
        PROVE  TypeOK'
    <3>1. UserOf(r) \in Users
      BY <2>5, UserTyped DEF CreateToken
    <3>2. [by |-> r, user |-> UserOf(r), expires |-> now + Lifetime] \in TokenRow
      BY <3>1 DEF TokenRow
    <3>. QED
      BY <2>5, <3>2 DEF CreateToken, Goto, history, Finished
  <2>6. ASSUME NEW q \in Requests, Logout(q) PROVE TypeOK'
    BY <2>6 DEF Logout, Ended
  <2>7. ASSUME NEW c \in Users, NEW u \in Users, NEW b \in BOOLEAN, SetActive(c, u, b)
        PROVE  TypeOK'
    BY <2>7 DEF SetActive
  <2>8. ASSUME NEW a \in Assocs, NEW b \in BOOLEAN, SetAssocActive(a, b) PROVE TypeOK'
    BY <2>8 DEF SetAssocActive, history
  <2>. QED
    BY <1>1, <2>1, <2>2, <2>3, <2>4, <2>5, <2>6, <2>7, <2>8 DEF Next
<1>2. CASE UNCHANGED vars
  BY <1>2 DEF vars, rows, history
<1>. QED
  BY <1>1, <1>2

LEMMA LineageStep == ASSUME IInv, Next PROVE Lineage'
<1>. USE DEF IInv, TypeOK
<1>1. ASSUME NEW r \in Requests, NEW u \in Users, StartLogin(r, u) PROVE Lineage'
  BY <1>1 DEF StartLogin, Goto, Lineage, AtLogin, AtRefresh, LoginReq, Finished, Exchanging
<1>2. ASSUME NEW r \in Requests, NEW q \in Requests, StartRefresh(r, q) PROVE Lineage'
  BY <1>2 DEF StartRefresh, HasToken, Goto, Lineage, AtLogin, AtRefresh, RefreshReq, LoginReq,
     Finished, Exchanging
<1>3. ASSUME NEW r \in Requests, \/ FindUser(r) \/ FindToken(r) \/ FindActive(r) \/ DeleteToken(r)
                               \/ \E outcome \in {"ok", "error"} : CreateToken(r, outcome)
                               \/ Abort(r)
      PROVE Lineage'
  BY <1>3 DEF FindUser, FindToken, FindActive, DeleteToken, CreateToken, Abort, Goto, rows,
     history, Steps, Exchanging, Finished, Lineage, AtLogin, AtRefresh, LoginReq, RefreshReq
<1>4. CASE \/ Tick
           \/ \E q \in Requests : Logout(q)
           \/ \E c, u \in Users, b \in BOOLEAN : SetActive(c, u, b)
           \/ \E a \in Assocs, b \in BOOLEAN : SetAssocActive(a, b)
  BY <1>4 DEF Tick, Logout, SetActive, SetAssocActive, history, Lineage
<1>. QED
  BY <1>1, <1>2, <1>3, <1>4 DEF Next

LEMMA TokensFitStep == ASSUME IInv, Next PROVE TokensFit'
<1>. USE DEF IInv
<1>1. CASE tokens' \subseteq tokens
  BY <1>1, Frame DEF TokensFit, TypeOK, TokenRow, Finished
<1>2. ASSUME NEW r \in Requests, NEW outcome \in {"ok", "error"}, CreateToken(r, outcome)
      PROVE  TokensFit'
  BY <1>2, Frame DEF CreateToken, Goto, history, UserOf, TokensFit, TypeOK, TokenRow, Finished
<1>. QED
  BY <1>1, <1>2, TokensStep

\* CreateToken adds the token of a request that had none, for the user of its session.
LEMMA NewToken ==
  ASSUME IInv, NEW r \in Requests, NEW outcome \in {"ok", "error"}, CreateToken(r, outcome)
  PROVE  /\ pc[r] = "createToken" /\ pc'[r] = outcome
         /\ \A t \in tokens : t.by # r
         /\ \A t \in tokens' : t \in tokens \/ t.by = r
         /\ \A q \in Requests \ {r} : pc'[q] = pc[q]
         /\ UNCHANGED <<req, root, active, over, late, barred, raced>>
BY DEF IInv, TypeOK, TokensFit, CreateToken, Goto, history

\* What moves a request is one of its own steps.
LEMMA Moves ==
  ASSUME TypeOK, Next, NEW r \in Requests, pc'[r] # pc[r]
  PROVE  \/ \E u \in Users : StartLogin(r, u)
         \/ \E q \in Requests : StartRefresh(r, q)
         \/ FindUser(r) \/ FindToken(r) \/ FindActive(r) \/ DeleteToken(r)
         \/ \E outcome \in {"ok", "error"} : CreateToken(r, outcome)
         \/ Abort(r)
<1>1. ASSUME NEW p \in Requests, p # r
      PROVE  /\ \A u \in Users : ~StartLogin(p, u)
             /\ \A q \in Requests : ~StartRefresh(p, q)
             /\ ~FindUser(p) /\ ~FindToken(p) /\ ~FindActive(p) /\ ~DeleteToken(p)
             /\ \A outcome \in {"ok", "error"} : ~CreateToken(p, outcome)
             /\ ~Abort(p)
  BY <1>1 DEF TypeOK, StartLogin, StartRefresh, FindUser, FindToken, FindActive, DeleteToken,
     CreateToken, Abort, Goto
<1>2. /\ ~Tick
      /\ \A q \in Requests : ~Logout(q)
      /\ \A c, u \in Users, b \in BOOLEAN : ~SetActive(c, u, b)
      /\ \A a \in Assocs, b \in BOOLEAN : ~SetAssocActive(a, b)
  BY DEF Tick, Logout, SetActive, SetAssocActive
<1>. QED
  BY <1>1, <1>2 DEF Next

LEMMA ExchangedGoneStep == ASSUME IInv, Next PROVE ExchangedGone'
<1> SUFFICES ASSUME NEW r \in Requests, pc'[r] \in {"createToken", "ok"}, req'[r] \in RefreshReq,
                    NEW t \in tokens', t.by = req'[r].token
             PROVE  FALSE
  BY DEF ExchangedGone, RefreshReq
<1>. USE DEF IInv
<1>1. \/ pc[r] \in {"createToken", "ok"} \/ FindUser(r) \/ DeleteToken(r)
  BY Moves DEF TypeOK, StartLogin, StartRefresh, FindToken, FindActive, CreateToken, Abort, Goto
<1>2. pc[r] # "idle" /\ req'[r] = req[r]
  BY <1>1, Frame DEF FindUser, DeleteToken
<1>3. pc[req[r].token] = "ok" /\ req[r].token \in Requests
  BY <1>2 DEF Lineage, RefreshReq, LoginReq
<1>4. t \in tokens
  BY <1>2, <1>3, TokensStep, NewToken
<1>5. CASE pc[r] \in {"createToken", "ok"}
  BY <1>2, <1>4, <1>5 DEF ExchangedGone
<1>6. CASE FindUser(r)
  BY <1>2, <1>6 DEF FindUser, Lineage, AtRefresh, Exchanging, Finished, LoginReq, RefreshReq
<1>7. CASE DeleteToken(r)
  BY <1>2, <1>7 DEF DeleteToken
<1>. QED
  BY <1>1, <1>5, <1>6, <1>7

LEMMA OverGoneStep == ASSUME IInv, Next PROVE OverGone'
<1>. USE DEF IInv
<1>1. ASSUME NEW q \in Requests, Logout(q) PROVE OverGone'
  <2>1. /\ UNCHANGED <<req, pc, root>>
        /\ over' = over \cup Ended(UserOf(q))
        /\ tokens' = tokens \ TokensOf(UserOf(q))
    BY <1>1 DEF Logout
  <2>2. \A x \in Ended(UserOf(q)) : /\ x \in Requests /\ pc[x] \in Finished
                                   /\ req[x] \in LoginReq /\ req[x].user = UserOf(q)
                                   /\ InFlight(x) = {}
    BY <1>1, UserTyped DEF Ended, LoginReq, Logout, HasToken
  <2>3. \A t \in tokens' : root[t.by] \notin Ended(UserOf(q))
    BY <2>1, <2>2 DEF TokensFit, TokensOf, UserOf
  <2>4. \A r \in Requests : pc[r] \in Exchanging => root[r] \notin Ended(UserOf(q))
    BY <2>2 DEF InFlight
  <2>. QED
    BY <2>1, <2>2, <2>3, <2>4 DEF OverGone
<1>2. CASE \A q \in Requests : ~Logout(q)
  <2>1. over' = over
    BY <1>2 DEF Next, Tick, StartLogin, StartRefresh, FindUser, FindToken, FindActive,
       DeleteToken, CreateToken, Abort, SetActive, SetAssocActive, history
  <2>2. \A x \in over : x \in Requests /\ pc'[x] \in Finished /\ req'[x] \in LoginReq
    BY Frame DEF OverGone, TypeOK, Finished
  <2>3. \A t \in tokens' : root'[t.by] \notin over
    <3>1. CASE tokens' \subseteq tokens
      BY <3>1, Frame DEF OverGone, TokensFit, TypeOK, TokenRow
    <3>2. ASSUME NEW r \in Requests, NEW outcome \in {"ok", "error"}, CreateToken(r, outcome)
          PROVE  \A t \in tokens' : root'[t.by] \notin over
      BY <3>2, NewToken DEF OverGone, Exchanging
    <3>. QED
      BY <3>1, <3>2, TokensStep
  <2>4. \A r \in Requests : pc'[r] \in Exchanging => root'[r] \notin over
    <3> SUFFICES ASSUME NEW r \in Requests, pc'[r] \in Exchanging PROVE root'[r] \notin over
      OBVIOUS
    <3>1. CASE pc[r] \in Exchanging
      BY <3>1, Frame DEF OverGone, Exchanging
    <3>2. CASE pc[r] = "findUser"
      BY <3>2, Frame DEF OverGone, Lineage, AtRefresh, Exchanging, Finished
    <3>3. CASE FindToken(r) /\ pc'[r] = "findActive"
      <4>1. PICK t \in tokens : t.by = req[r].token
        BY <3>3 DEF FindToken, Goto, TypeOK
      <4>2. root[r] = root[t.by]
        BY <3>3, <4>1 DEF FindToken, Lineage, AtLogin, Finished, Exchanging
      <4>. QED
        BY <3>3, <4>1, <4>2 DEF FindToken, OverGone
    <3>4. pc[r] \in Exchanging \/ pc[r] = "findUser" \/ (FindToken(r) /\ pc'[r] = "findActive")
      BY Moves DEF TypeOK, StartLogin, StartRefresh, FindUser, FindToken, FindActive,
         DeleteToken, CreateToken, Abort, Goto, Exchanging
    <3>. QED
      BY <3>1, <3>2, <3>3, <3>4
  <2>. QED
    BY <2>1, <2>2, <2>3, <2>4 DEF OverGone
<1>. QED
  BY <1>1, <1>2

\* A late refresh finds no token: it starts after the token's exchange has ended.
LEMMA LateStuckStep == ASSUME IInv, Next PROVE LateStuck'
<1>. USE DEF IInv
<1>1. ASSUME NEW r \in Requests, NEW q \in Requests, StartRefresh(r, q), r \notin late, r \in late'
      PROVE  \A t \in tokens' : t.by # q /\ t.by # r
  <2>1. PICK p \in Requests : pc[p] = "ok" /\ req[p] = [op |-> "refresh", token |-> q]
    BY <1>1 DEF StartRefresh
  <2>2. \A t \in tokens : t.by # q
    BY <2>1 DEF ExchangedGone, RefreshReq
  <2>. QED
    BY <1>1, <2>2 DEF StartRefresh, rows, TokensFit
<1>2. ASSUME NEW r \in late', r \notin late
      PROVE  \E q \in Requests : StartRefresh(r, q)
  BY <1>2 DEF Next, Tick, StartLogin, StartRefresh, FindUser, FindToken, FindActive,
     DeleteToken, CreateToken, Abort, Logout, SetActive, SetAssocActive, history
<1>3. ASSUME NEW r \in late', r \notin late
      PROVE  /\ pc'[r] \in {"findToken", "denied", "error"}
             /\ req'[r] \in RefreshReq
             /\ \A t \in tokens' : t.by # req'[r].token /\ t.by # r
  <2>1. PICK q \in Requests : r \in Requests /\ StartRefresh(r, q)
    BY <1>2, <1>3, TypeStep DEF TypeOK
  <2>2. /\ pc'[r] = "findToken"
        /\ req'[r] \in RefreshReq /\ req'[r].token = q
    BY <2>1 DEF StartRefresh, Goto, TypeOK, RefreshReq
  <2>. QED
    BY <1>1, <1>3, <2>1, <2>2
<1>4. ASSUME NEW r \in late
      PROVE  /\ pc'[r] \in {"findToken", "denied", "error"}
             /\ req'[r] \in RefreshReq
             /\ \A t \in tokens' : t.by # req'[r].token /\ t.by # r
  <2>1. /\ r \in Requests /\ pc[r] \in {"findToken", "denied", "error"}
        /\ req[r] \in RefreshReq /\ req'[r] = req[r]
    BY Frame DEF LateStuck, TypeOK
  <2>2. req[r].token \in Requests /\ pc[req[r].token] = "ok"
    BY <2>1 DEF Lineage, LoginReq, RefreshReq
  <2>3. \A t \in tokens' : t.by # req[r].token /\ t.by # r
    BY <2>1, <2>2, TokensStep, NewToken DEF LateStuck
  <2>4. pc'[r] \in {"findToken", "denied", "error"}
    BY <2>1, Moves DEF LateStuck, TypeOK, StartLogin, StartRefresh, FindUser, FindToken,
       FindActive, DeleteToken, CreateToken, Abort, Goto
  <2>. QED
    BY <2>1, <2>3, <2>4
<1>. QED
  BY <1>3, <1>4 DEF LateStuck

\* A barred request meets the check of its user before the user is active again.
LEMMA BarredStuckStep == ASSUME IInv, Next PROVE BarredStuck'
<1>. USE DEF IInv
<1>1. ASSUME NEW r \in Requests, NEW u \in Users, StartLogin(r, u) PROVE BarredStuck'
  <2>1. UserOf(r)' = u /\ pc'[r] = "findUser"
    BY <1>1 DEF StartLogin, Goto, UserOf, TypeOK, Lineage, AtLogin, AtRefresh, Finished, Exchanging
  <2>2. \A p \in barred : p \in Requests /\ p # r /\ pc'[p] = pc[p] /\ UserOf(p)' = UserOf(p)
    BY <1>1, Frame DEF StartLogin, Goto, TypeOK, BarredStuck
  <2>3. \A t \in tokens : t.by # r
    BY <1>1 DEF StartLogin, TokensFit
  <2>. QED
    BY <1>1, <2>1, <2>2, <2>3 DEF StartLogin, rows, BarredStuck
<1>2. ASSUME NEW r \in Requests, NEW q \in Requests, StartRefresh(r, q) PROVE BarredStuck'
  <2>1. UserOf(r)' = UserOf(q) /\ pc'[r] = "findToken"
    <3>1. root[q] # r /\ q # r
      BY <1>2, UserTyped DEF StartRefresh, HasToken
    <3>. QED
      BY <1>2, <3>1 DEF StartRefresh, Goto, UserOf, TypeOK
  <2>2. \A p \in barred : p \in Requests /\ p # r /\ pc'[p] = pc[p] /\ UserOf(p)' = UserOf(p)
    BY <1>2, Frame DEF StartRefresh, Goto, TypeOK, BarredStuck
  <2>3. \A t \in tokens : t.by # r
    BY <1>2 DEF StartRefresh, TokensFit
  <2>. QED
    BY <1>2, <2>1, <2>2, <2>3 DEF StartRefresh, rows, BarredStuck
<1>3. ASSUME NEW c \in Users, NEW u \in Users, NEW b \in BOOLEAN, SetActive(c, u, b)
      PROVE  BarredStuck'
  BY <1>3 DEF SetActive, BarredStuck, UserOf, TypeOK
<1>4. ASSUME UNCHANGED <<barred, active>> PROVE BarredStuck'
  <2> SUFFICES ASSUME NEW r \in barred
               PROVE  /\ pc'[r] \in {"findUser", "findToken", "findActive", "denied", "error"}
                      /\ ~active[UserOf(r)']
                      /\ \A t \in tokens' : t.by # r
    BY <1>4 DEF BarredStuck
  <2>1. /\ r \in Requests /\ pc[r] \in {"findUser", "findToken", "findActive", "denied", "error"}
        /\ ~active[UserOf(r)] /\ UserOf(r)' = UserOf(r) /\ \A t \in tokens : t.by # r
    BY Frame DEF BarredStuck, TypeOK
  <2>2. pc[r] = "findUser" => UserOf(r) = req[r].user
    BY <2>1 DEF UserOf, Lineage, AtRefresh, Exchanging, Finished
  <2>3. pc'[r] \in {"findUser", "findToken", "findActive", "denied", "error"}
    BY <2>1, <2>2, Moves DEF TypeOK, StartLogin, StartRefresh, FindUser, MayLogin, FindToken,
       FindActive, DeleteToken, CreateToken, Abort, Goto
  <2>4. \A t \in tokens' : t.by # r
    BY <2>1, TokensStep, NewToken
  <2>. QED
    BY <2>1, <2>3, <2>4
<1>5. \/ UNCHANGED <<barred, active>>
      \/ \E r \in Requests, u \in Users : StartLogin(r, u)
      \/ \E r, q \in Requests : StartRefresh(r, q)
      \/ \E c, u \in Users, b \in BOOLEAN : SetActive(c, u, b)
  BY DEF Next, Tick, FindUser, FindToken, FindActive, DeleteToken, CreateToken, Abort, Logout,
     SetAssocActive, rows, history
<1>. QED
  BY <1>1, <1>2, <1>3, <1>4, <1>5

\* Two tokens of a session that has not raced cannot meet: the new one is stored when
\* the session has no other.
LEMMA OneTokenStep == ASSUME IInv, Next PROVE OneTokenPerSession'
<1>. USE DEF IInv
<1>1. raced \subseteq raced'
  BY DEF Next, Tick, StartLogin, StartRefresh, FindUser, FindToken, FindActive, DeleteToken,
     CreateToken, Abort, Logout, SetActive, SetAssocActive, rows, history
<1>2. CASE tokens' \subseteq tokens
  <2>1. \A t \in tokens' : t \in tokens /\ root'[t.by] = root[t.by]
    BY <1>2, Frame DEF TokensFit, TypeOK, TokenRow
  <2>. QED
    BY <1>1, <2>1 DEF OneTokenPerSession
<1>3. ASSUME NEW r \in Requests, NEW outcome \in {"ok", "error"}, CreateToken(r, outcome)
      PROVE  OneTokenPerSession'
  <2>1. root[r] \in raced \/ \A t \in tokens : root[t.by] # root[r]
    BY <1>3, NewToken DEF Alone, Exchanging
  <2>2. \A s, t \in tokens' : s.by = r /\ t.by = r => s = t
    BY <1>3, NewToken DEF CreateToken
  <2>. QED
    BY <1>3, <2>1, <2>2, NewToken DEF OneTokenPerSession
<1>. QED
  BY <1>2, <1>3, TokensStep

\* A request that gets past its lookup meets nobody of its session there, or the
\* session has raced; and from then on only it can store a token of the session.
LEMMA AloneStep == ASSUME IInv, Next PROVE Alone'
<1>. USE DEF IInv
<1>1. raced \subseteq raced'
  BY DEF Next, Tick, StartLogin, StartRefresh, FindUser, FindToken, FindActive, DeleteToken,
     CreateToken, Abort, Logout, SetActive, SetAssocActive, rows, history
<1>2. ASSUME NEW p \in Requests, pc'[p] \in Exchanging
      PROVE  /\ req'[p] = req[p] /\ root'[p] = root[p]
             /\ \/ pc[p] \in Exchanging
                \/ FindUser(p) /\ pc'[p] = "createToken"
                \/ FindToken(p) /\ pc'[p] = "findActive"
  <2>1. \/ pc[p] \in Exchanging
        \/ FindUser(p) /\ pc'[p] = "createToken"
        \/ FindToken(p) /\ pc'[p] = "findActive"
    BY <1>2, Moves DEF TypeOK, StartLogin, StartRefresh, FindUser, FindToken, FindActive,
       DeleteToken, CreateToken, Abort, Goto, Exchanging
  <2>. QED
    BY <2>1, Frame DEF FindUser, FindToken, Exchanging
<1>3. ASSUME NEW p \in Requests, FindUser(p)
      PROVE  /\ root[p] = p
             /\ \A t \in tokens : root[t.by] # p
             /\ \A q \in Requests \ {p} : pc[q] \in Exchanging => root[q] # p
  BY <1>3 DEF FindUser, Lineage, AtLogin, AtRefresh, Exchanging, Finished, TokensFit, TypeOK,
     TokenRow
<1>4. ASSUME NEW p \in Requests, FindToken(p), pc'[p] = "findActive", root[p] \notin raced'
      PROVE  /\ InFlight(root[p]) = {}
             /\ \A t \in tokens : root[t.by] = root[p] => t.by = req[p].token
  <2>1. PICK t \in tokens : t.by = req[p].token
    BY <1>4 DEF FindToken, Goto, TypeOK
  <2>2. root[p] = root[t.by]
    BY <1>4, <2>1 DEF FindToken, Lineage, AtLogin, Exchanging, Finished
  <2>3. InFlight(root[p]) = {} /\ raced' = raced
    BY <1>4, <2>1 DEF FindToken, Goto, TypeOK
  <2>. QED
    BY <1>4, <2>1, <2>2, <2>3 DEF OneTokenPerSession
<1>5. ASSUME NEW r \in Requests, pc'[r] \in Exchanging, root'[r] \notin raced',
             NEW p \in Requests, pc'[p] \in Exchanging, root'[p] = root'[r]
      PROVE  p = r
  <2>1. root[r] \notin raced /\ root[p] = root[r]
    BY <1>1, <1>2, <1>5
  <2>2. CASE pc[r] \in Exchanging /\ pc[p] \in Exchanging
    BY <2>1, <2>2 DEF Alone
  <2>3. CASE FindUser(r) \/ FindUser(p)
    BY <1>2, <1>3, <1>5, <2>1, <2>3 DEF FindUser, FindToken, Lineage, AtRefresh, Exchanging, Finished
  <2>4. ASSUME FindToken(r), pc'[r] = "findActive", p # r PROVE FALSE
    <3>1. pc[p] \notin Exchanging
      BY <1>2, <1>4, <1>5, <2>1, <2>4 DEF InFlight
    <3>2. pc'[p] = pc[p]
      BY <2>4 DEF FindToken, Goto, TypeOK
    <3>. QED
      BY <1>5, <3>1, <3>2
  <2>5. ASSUME FindToken(p), pc'[p] = "findActive", p # r PROVE FALSE
    <3>1. pc[r] \notin Exchanging
      BY <1>2, <1>4, <1>5, <2>1, <2>5 DEF InFlight
    <3>2. pc'[r] = pc[r]
      BY <2>5 DEF FindToken, Goto, TypeOK
    <3>. QED
      BY <1>5, <3>1, <3>2
  <2>. QED
    BY <1>2, <1>5, <2>2, <2>3, <2>4, <2>5
<1>6. ASSUME NEW r \in Requests, pc'[r] \in Exchanging, root'[r] \notin raced',
             NEW t \in tokens', root'[t.by] = root'[r]
      PROVE  pc'[r] # "createToken" /\ t.by = req'[r].token
  <2>1. root[r] \notin raced /\ root'[r] = root[r] /\ req'[r] = req[r]
    BY <1>1, <1>2, <1>6
  <2>2. t \in tokens /\ root[t.by] = root[r]
    <3>1. CASE tokens' \subseteq tokens
      BY <1>6, <2>1, <3>1, Frame DEF TokensFit, TypeOK, TokenRow
    <3>2. ASSUME NEW p \in Requests, NEW outcome \in {"ok", "error"}, CreateToken(p, outcome),
                 t.by = p
          PROVE  FALSE
      <4>1. pc[p] \in Exchanging /\ root[p] = root[r]
        BY <1>6, <2>1, <3>2, NewToken DEF Exchanging
      <4>2. pc[r] \in Exchanging /\ p # r
        BY <1>6, <3>2, NewToken DEF Exchanging
      <4>. QED
        BY <2>1, <4>1, <4>2 DEF Alone
    <3>3. ASSUME NEW p \in Requests, NEW outcome \in {"ok", "error"}, CreateToken(p, outcome),
                 t.by # p
          PROVE  t \in tokens /\ root[t.by] = root[r]
      BY <1>6, <2>1, <3>3, NewToken
    <3>. QED
      BY <3>1, <3>2, <3>3, TokensStep
  <2>3. CASE pc[r] \in Exchanging
    <3>1. t.by = req[r].token /\ pc[r] # "createToken"
      BY <2>1, <2>2, <2>3 DEF Alone
    <3>2. ASSUME pc'[r] = "createToken" PROVE FALSE
      <4>1. DeleteToken(r)
        BY <2>3, <3>1, <3>2, Moves DEF TypeOK, StartLogin, StartRefresh, FindUser, FindToken,
           FindActive, CreateToken, Abort, Goto, Exchanging
      <4>. QED
        BY <1>6, <3>1, <4>1 DEF DeleteToken
    <3>. QED
      BY <2>1, <3>1, <3>2
  <2>4. CASE FindUser(r)
    BY <1>3, <2>2, <2>4
  <2>5. CASE FindToken(r) /\ pc'[r] = "findActive"
    BY <1>4, <1>6, <2>1, <2>2, <2>5
  <2>. QED
    BY <1>2, <1>6, <2>3, <2>4, <2>5
<1>. QED
  BY <1>5, <1>6 DEF Alone

LEMMA InvStep == ASSUME IInv, [Next]_vars PROVE IInv'
<1>1. CASE Next
  BY <1>1, TypeStep, LineageStep, TokensFitStep, ExchangedGoneStep, OverGoneStep, LateStuckStep,
     BarredStuckStep, AloneStep, OneTokenStep DEF IInv
<1>2. CASE UNCHANGED vars
  BY <1>2 DEF vars, rows, history, IInv, TypeOK, Lineage, TokensFit, ExchangedGone, OverGone,
     LateStuck, BarredStuck, Alone, OneTokenPerSession, UserOf
<1>. QED
  BY <1>1, <1>2

-----------------------------------------------------------------------------
(* Theorems *)

\* The inductive invariant holds in every reachable state.
THEOREM Invariance == Spec => []IInv
<1>1. IInv /\ [Next]_vars => IInv'
  BY InvStep
<1>. QED
  BY InitInv, <1>1, PTL DEF Spec

\* Every variable keeps its type.
THEOREM TypeCorrect == Spec => []TypeOK
BY Invariance, PTL DEF IInv

\* AuthService.Logout ends every session of its user that no refresh was exchanging:
\* none of its tokens is stored again.
THEOREM LogoutEnds == Spec => []SessionEnds
<1>1. IInv => SessionEnds
  BY DEF IInv, OverGone, SessionEnds, InFlight
<1>. QED
  BY <1>1, Invariance, PTL

\* AuthService.RefreshToken refuses a token whose exchange has ended.
THEOREM ReuseRefused == Spec => []LateReuseRefused
<1>1. IInv => LateReuseRefused
  BY DEF IInv, LateStuck, LateReuseRefused
<1>. QED
  BY <1>1, Invariance, PTL

\* Login and RefreshToken give no token to a user who has been inactive throughout.
THEOREM InactiveRefused == Spec => []InactiveGetsNothing
<1>1. IInv => InactiveGetsNothing
  BY DEF IInv, BarredStuck, InactiveGetsNothing
<1>. QED
  BY <1>1, Invariance, PTL

\* The rotation keeps one token per session as long as no two refreshes of the session
\* overlap between their lookup and their INSERT.
THEOREM Rotation == Spec => []OneTokenPerSession
BY Invariance, PTL DEF IInv


-----------------------------------------------------------------------------
(* The client *)

\* The type of every variable of the client.
AppTypes ==
  /\ phase \in Phases
  /\ call \in Token /\ access \in Token /\ refresh \in Token
  /\ (call # None) <=> (phase \in Calling)
  /\ issued \in [Requests -> 0..MaxTime]
  /\ mine \subseteq Requests /\ stray \subseteq mine /\ cut \subseteq mine
  /\ revoked \subseteq Requests
  /\ since \in [Users -> 0..MaxTime]
  /\ straddled \subseteq Requests

Holds(q) == \E t \in tokens : t.by = q

\* Some refresh was sent with the token of q.
Used(q) == \E r \in Requests : req[r] \in RefreshReq /\ req[r].token = q

\* The requests of the app are logins of AppUser and refreshes with the tokens of such requests,
\* which only the app uses.
MineApart ==
  /\ \A r \in mine : pc[r] # "idle" /\ UserOf(r) = AppUser
  /\ \A r \in Requests : req[r] \in RefreshReq /\ req[r].token \in mine => r \in mine

\* What the app keeps and waits for.
Kept ==
  /\ access # None => access \in mine /\ pc[access] = "ok"
  /\ refresh # None => refresh \in mine /\ pc[refresh] = "ok"
  /\ call # None => call \in mine /\ call # refresh /\ ~Used(call)
  /\ phase \in {"saveAccess", "saveRefresh"} => pc[call] = "ok"
  /\ phase \in {"login", "signIn"} => refresh = None
  /\ call # None /\ refresh # None => req[call] = [op |-> "refresh", token |-> refresh]
  /\ phase \in {"closed", "in", "signOut"} /\ refresh # None => refresh \in cut \/ ~Used(refresh)
  /\ phase \in {"clearAccess", "clearRefresh"} /\ refresh # None => refresh \in stray \/ ~Holds(refresh)

\* A token is stored until it is used or its user logs out.
StoredUntil == \A q \in Requests : pc[q] = "ok" => Holds(q) \/ Used(q) \/ q \in revoked

\* What the app neither keeps nor has dropped is gone for good.
Forgotten ==
  \A q \in mine \ (stray \cup {refresh, call}) : pc[q] \notin Steps /\ ~Holds(q)

\* Logins and refreshes of users who were deactivated before.
SignedBefore ==
  \A r \in Requests \ straddled :
    /\ pc[r] \in {"deleteToken", "createToken"} => active[UserOf(r)]
    /\ pc[r] = "ok" => active[UserOf(r)] \/ issued[r] <= since[UserOf(r)]

IssuedBefore == \A r \in Requests : issued[r] <= now

\* The inductive invariant.
AppInv ==
  /\ IInv
  /\ AppTypes
  /\ MineApart
  /\ Kept
  /\ StoredUntil
  /\ Forgotten
  /\ IssuedBefore
  /\ SignedBefore

-----------------------------------------------------------------------------
(* The steps, by what they change *)

\* Steps of the app that are none of the server.
AppAlone ==
  \/ Answered \/ Failed \/ SaveAccess \/ SaveRefresh
  \/ SignOut \/ SignOutFailed \/ ClearAccess \/ ClearRefresh \/ Kill

\* Steps that leave the app as it is.
Server ==
  /\ UNCHANGED app
  /\ \/ \E r \in Requests : OtherDevice(r) \/ (Serve(r) /\ UNCHANGED account)
     \/ \E c, u \in Users, b \in BOOLEAN : Administer(c, u, b)
     \/ (Tick \/ \E a \in Assocs, b \in BOOLEAN : SetAssocActive(a, b)) /\ UNCHANGED <<issued, account>>
     \/ UNCHANGED <<vars, issued, account>>

LEMMA StepsOf ==
  ASSUME [AppNext]_all
  PROVE  AppAlone \/ SignedOut \/ Server \/ \E r \in Requests : Open(r) \/ SignIn(r)
<1>1. CASE UNCHANGED all
  BY <1>1 DEF all, Server
<1>2. CASE AppStep
  BY <1>2 DEF AppStep, AppAlone
<1>3. CASE \E r \in Requests : App(r)
  BY <1>3 DEF App
<1>4. CASE \E r \in Requests : OtherDevice(r) \/ (Serve(r) /\ UNCHANGED <<app, account>>)
  BY <1>4 DEF OtherDevice, Server
<1>5. CASE \E c, u \in Users, b \in BOOLEAN : Administer(c, u, b)
  BY <1>5 DEF Administer, Server
<1>6. CASE (Tick \/ \E a \in Assocs, b \in BOOLEAN : SetAssocActive(a, b)) /\ UNCHANGED <<app, issued, account>>
  BY <1>6 DEF Server
<1>. QED
  BY <1>1, <1>2, <1>3, <1>4, <1>5, <1>6 DEF AppNext

LEMMA AloneFrame ==
  ASSUME AppAlone
  PROVE  UNCHANGED <<vars, issued, account>>
BY DEF AppAlone, Answered, Failed, SaveAccess, SaveRefresh, SignOut, SignOutFailed, ClearAccess, ClearRefresh, Kill

\* Every step of the composition is a step of the server or none of it.
LEMMA ServerStep ==
  ASSUME AppTypes, [AppNext]_all
  PROVE  [Next]_vars
<1>1. CASE AppAlone
  BY <1>1, AloneFrame
<1>2. CASE SignedOut
  BY <1>2 DEF SignedOut, LogoutWith, Authenticates, Next
<1>3. ASSUME NEW r \in Requests, Open(r)
      PROVE  [Next]_vars
  <2>1. refresh # None => refresh \in Requests
    BY DEF AppTypes, Token
  <2>. QED
    BY <1>3, <2>1 DEF Open, Next
<1>4. ASSUME NEW r \in Requests, SignIn(r)
      PROVE  [Next]_vars
  BY <1>4, Client DEF SignIn, Next
<1>5. CASE Server
  <2>1. ASSUME NEW r \in Requests, OtherDevice(r) PROVE Next
    BY <2>1 DEF OtherDevice, LogoutWith, Authenticates, Next
  <2>2. ASSUME NEW r \in Requests, Serve(r) PROVE Next
    BY <2>2 DEF Serve, Next
  <2>3. ASSUME NEW c \in Users, NEW u \in Users, NEW b \in BOOLEAN, Administer(c, u, b) PROVE Next
    BY <2>3 DEF Administer, Next
  <2>. QED
    BY <1>5, <2>1, <2>2, <2>3 DEF Server, Next
<1>. QED
  BY <1>1, <1>2, <1>3, <1>4, <1>5, StepsOf

\* A request that was sent stays what it is, and one that has ended has.
LEMMA SentStays ==
  ASSUME IInv, [Next]_vars, NEW r \in Requests
  PROVE  /\ pc[r] # "idle" => /\ pc'[r] # "idle" /\ req'[r] = req[r]
                              /\ UserOf(r)' = UserOf(r)
         /\ pc[r] \in Finished => pc'[r] = pc[r]
<1>1. CASE Next
  BY <1>1, Frame DEF IInv
<1>2. CASE UNCHANGED vars
  BY <1>2 DEF vars, rows, history, UserOf
<1>. QED
  BY <1>1, <1>2

\* A token is stored by the last statement of its request.
LEMMA HoldsStep ==
  ASSUME [Next]_vars, NEW q \in Requests, Holds(q)', ~Holds(q)
  PROVE  pc[q] = "createToken"
<1>1. CASE UNCHANGED vars
  BY <1>1 DEF Holds, vars, rows
<1>2. CASE tokens' \subseteq tokens
  BY <1>2 DEF Holds
<1>3. ASSUME NEW r \in Requests, NEW outcome \in {"ok", "error"}, CreateToken(r, outcome)
      PROVE  pc[q] = "createToken"
  BY <1>3 DEF CreateToken, Holds
<1>. QED
  BY <1>1, <1>2, <1>3, TokensStep

\* Which requests a step starts.
LEMMA Starts ==
  ASSUME IInv, AppTypes, [AppNext]_all, NEW r \in Requests
  PROVE  \/ req'[r] = req[r]
         \/ \E u \in Users : pc[r] = "idle" /\ req'[r] = [op |-> "login", user |-> u]
         \/ pc[r] = "idle" /\ Open(r) /\ refresh # None
         \/ \E q \in Requests \ mine :
              pc[r] = "idle" /\ UNCHANGED app /\ req'[r] = [op |-> "refresh", token |-> q]
<1>. USE DEF IInv, TypeOK
<1>1. CASE AppAlone
  BY <1>1, AloneFrame DEF vars
<1>2. CASE SignedOut
  BY <1>2 DEF SignedOut, LogoutWith, Logout
<1>3. ASSUME NEW p \in Requests, Open(p)
      PROVE  req'[r] = req[r] \/ (pc[r] = "idle" /\ Open(r) /\ refresh # None)
  BY <1>3 DEF Open, StartRefresh, vars
<1>4. ASSUME NEW p \in Requests, SignIn(p)
      PROVE  req'[r] = req[r] \/ \E u \in Users : pc[r] = "idle" /\ req'[r] = [op |-> "login", user |-> u]
  BY <1>4, Client DEF SignIn, StartLogin
<1>5. CASE Server
  <2>1. ASSUME NEW p \in Requests, NEW u \in Users, StartLogin(p, u)
        PROVE  req'[r] = req[r] \/ \E v \in Users : pc[r] = "idle" /\ req'[r] = [op |-> "login", user |-> v]
    BY <2>1 DEF StartLogin
  <2>2. ASSUME NEW p \in Requests, NEW q \in Requests \ mine, StartRefresh(p, q)
        PROVE  req'[r] = req[r] \/ (pc[r] = "idle" /\ req'[r] = [op |-> "refresh", token |-> q])
    BY <2>2 DEF StartRefresh
  <2>3. ASSUME NEW p \in Requests, LogoutWith(p) PROVE req' = req
    BY <2>3 DEF LogoutWith, Logout
  <2>4. ASSUME NEW p \in Requests, Serve(p) PROVE req' = req
    BY <2>4 DEF Serve, FindUser, FindToken, FindActive, DeleteToken, CreateToken, Abort
  <2>5. ASSUME NEW c \in Users, NEW u \in Users, NEW b \in BOOLEAN, Administer(c, u, b) PROVE req' = req
    BY <2>5 DEF Administer, SetActive
  <2>6. ASSUME Tick \/ (\E a \in Assocs, b \in BOOLEAN : SetAssocActive(a, b)) \/ UNCHANGED vars
        PROVE  req' = req
    BY <2>6 DEF Tick, SetAssocActive, vars
  <2>7. UNCHANGED app
    BY <1>5 DEF Server
  <2>8. ASSUME NEW p \in Requests, OtherDevice(p)
        PROVE  \/ req'[r] = req[r]
               \/ \E u \in Users : pc[r] = "idle" /\ req'[r] = [op |-> "login", user |-> u]
               \/ \E q \in Requests \ mine : pc[r] = "idle" /\ req'[r] = [op |-> "refresh", token |-> q]
    BY <2>1, <2>2, <2>3, <2>8 DEF OtherDevice
  <2>9. \/ \E p \in Requests : OtherDevice(p)
        \/ req' = req
    BY <1>5, <2>4, <2>5, <2>6 DEF Server
  <2>. QED
    BY <2>7, <2>8, <2>9
<1>. QED
  BY <1>1, <1>2, <1>3, <1>4, <1>5, StepsOf

-----------------------------------------------------------------------------
(* Types *)

LEMMA AppTypesStep ==
  ASSUME IInv, AppTypes, Kept, [AppNext]_all
  PROVE  AppTypes'
<1>. USE DEF AppTypes, Token, Phases, Calling
<1>0. /\ now \in 0..MaxTime /\ None \notin Requests /\ AppUser \in Users
      /\ call # None => call \in mine
      /\ refresh # None => refresh \in mine
  BY Client DEF IInv, TypeOK, Kept
<1>1. CASE AppAlone
  <2>. USE <1>0
  <2>1. UNCHANGED <<issued, revoked, since, straddled>>
    BY <1>1, AloneFrame DEF account
  <2>2. CASE Answered \/ Failed
    BY <2>1, <2>2 DEF Answered, Failed, Become, Drop
  <2>3. CASE SaveAccess \/ SaveRefresh
    BY <2>1, <2>3 DEF SaveAccess, SaveRefresh
  <2>4. CASE SignOut \/ SignOutFailed
    BY <2>1, <2>4 DEF SignOut, SignOutFailed, Become, Drop
  <2>5. CASE ClearAccess \/ ClearRefresh
    BY <2>1, <2>5 DEF ClearAccess, ClearRefresh
  <2>6. CASE Kill
    BY <2>1, <2>6 DEF Kill, Drop
  <2>. QED
    BY <1>1, <2>2, <2>3, <2>4, <2>5, <2>6 DEF AppAlone
<1>2. CASE SignedOut
  <2>1. revoked' \subseteq Requests
    BY <1>2 DEF SignedOut, LogoutWith, TokensOf, IInv, TypeOK, TokenRow
  <2>. QED
    BY <1>0, <1>2, <2>1 DEF SignedOut, LogoutWith, Become
<1>3. ASSUME NEW r \in Requests, Open(r) \/ SignIn(r)
      PROVE  AppTypes'
  BY <1>0, <1>3 DEF Open, SignIn, account
<1>4. CASE Server
  <2>1. UNCHANGED <<phase, call, access, refresh, mine, stray, cut>>
    BY <1>4 DEF Server, app
  <2>2. issued' \in [Requests -> 0..MaxTime]
    BY <1>0, <1>4 DEF Server, OtherDevice, LogoutWith, Serve, Administer
  <2>3. revoked' \subseteq Requests
    BY <1>0, <1>4 DEF Server, OtherDevice, LogoutWith, Administer, account, TokensOf, IInv, TypeOK, TokenRow
  <2>4. since' \in [Users -> 0..MaxTime] /\ straddled' \subseteq Requests
    BY <1>0, <1>4 DEF Server, OtherDevice, LogoutWith, Administer, account
  <2>. QED
    BY <2>1, <2>2, <2>3, <2>4
<1>. QED
  BY <1>1, <1>2, <1>3, <1>4, StepsOf

-----------------------------------------------------------------------------
(* The requests of the app *)

LEMMA MineApartStep ==
  ASSUME IInv, AppTypes, MineApart, Kept, [AppNext]_all
  PROVE  MineApart'
<1>0. [Next]_vars
  BY ServerStep
<1>1. ASSUME NEW r \in mine
      PROVE  pc'[r] # "idle" /\ UserOf(r)' = AppUser
  BY <1>0, <1>1, SentStays DEF MineApart, AppTypes
<1>2. ASSUME NEW r \in Requests, SignIn(r)
      PROVE  pc'[r] # "idle" /\ UserOf(r)' = AppUser
  <2>1. pc[r] = "idle" /\ root[r] = r
    BY <1>2 DEF SignIn, StartLogin, IInv, Lineage, AtLogin, AtRefresh, Finished, Exchanging
  <2>2. pc'[r] = "findUser" /\ req'[r] = [op |-> "login", user |-> AppUser] /\ root'[r] = r
    BY <1>2, <2>1 DEF SignIn, StartLogin, Goto, IInv, TypeOK
  <2>. QED
    BY <2>2 DEF UserOf
<1>3. ASSUME NEW r \in Requests, Open(r), refresh # None
      PROVE  pc'[r] # "idle" /\ UserOf(r)' = AppUser
  <2>1. refresh \in mine /\ refresh \in Requests /\ pc[refresh] = "ok" /\ UserOf(refresh) = AppUser
    BY <1>3 DEF Kept, MineApart, AppTypes
  <2>2. pc[r] = "idle" /\ root[refresh] \in Requests /\ pc[root[refresh]] # "idle"
    BY <1>3, <2>1, UserTyped DEF Open, StartRefresh, IInv
  <2>3. /\ pc'[r] = "findToken" /\ root'[r] = root[refresh]
        /\ req'[root[refresh]] = req[root[refresh]]
    BY <1>3, <2>2 DEF Open, StartRefresh, Goto, IInv, TypeOK
  <2>. QED
    BY <2>1, <2>3 DEF UserOf
<1>4. ASSUME NEW r \in mine'
      PROVE  pc'[r] # "idle" /\ UserOf(r)' = AppUser
  <2>1. CASE AppAlone \/ SignedOut \/ Server
    <3>1. mine' = mine
      BY <2>1 DEF AppAlone, Answered, Failed, SaveAccess, SaveRefresh, SignOut, SignOutFailed,
         ClearAccess, ClearRefresh, Kill, Become, SignedOut, Server, app
    <3>. QED
      BY <1>1, <1>4, <3>1
  <2>2. ASSUME NEW p \in Requests, Open(p) \/ SignIn(p)
        PROVE  pc'[r] # "idle" /\ UserOf(r)' = AppUser
    <3>1. r \in mine \/ (r = p /\ (SignIn(p) \/ (Open(p) /\ refresh # None)))
      BY <1>4, <2>2 DEF Open, SignIn
    <3>. QED
      BY <1>1, <1>2, <1>3, <3>1
  <2>. QED
    BY <2>1, <2>2, StepsOf
<1>5. mine \subseteq mine' /\ \A r \in mine' \ mine : r \in Requests /\ pc[r] = "idle"
  <2>1. CASE AppAlone \/ SignedOut \/ Server
    BY <2>1 DEF AppAlone, Answered, Failed, SaveAccess, SaveRefresh, SignOut, SignOutFailed,
       ClearAccess, ClearRefresh, Kill, Become, SignedOut, Server, app
  <2>2. ASSUME NEW p \in Requests, Open(p) \/ SignIn(p)
        PROVE  mine \subseteq mine' /\ \A r \in mine' \ mine : r \in Requests /\ pc[r] = "idle"
    BY <2>2 DEF Open, SignIn, StartRefresh, StartLogin
  <2>. QED
    BY <2>1, <2>2, StepsOf
<1>6. ASSUME NEW r \in Requests, req'[r] \in RefreshReq, req'[r].token \in mine'
      PROVE  r \in mine'
  <2>1. CASE req'[r] = req[r]
    <3>1. pc[req[r].token] = "ok"
      BY <1>6, <2>1 DEF IInv, Lineage, NoReq, RefreshReq, LoginReq
    <3>2. req[r].token \in mine
      BY <1>5, <1>6, <2>1, <3>1
    <3>. QED
      BY <1>5, <1>6, <2>1, <3>2 DEF MineApart
  <2>2. ASSUME NEW u \in Users, req'[r] = [op |-> "login", user |-> u]
        PROVE  FALSE
    BY <1>6, <2>2 DEF RefreshReq
  <2>3. CASE Open(r) /\ refresh # None
    BY <2>3 DEF Open
  <2>4. ASSUME NEW q \in Requests \ mine, UNCHANGED app, req'[r] = [op |-> "refresh", token |-> q]
        PROVE  FALSE
    BY <1>6, <2>4 DEF app
  <2>. QED
    BY <2>1, <2>2, <2>3, <2>4, Starts
<1>. QED
  BY <1>4, <1>6 DEF MineApart

-----------------------------------------------------------------------------
(* The tokens the app keeps *)

\* A token that is used stays used; one of the app becomes used when the app is opened with it.
LEMMA UsedStep ==
  ASSUME IInv, AppTypes, [AppNext]_all, NEW q \in Requests
  PROVE  /\ Used(q) => Used(q)'
         /\ Used(q)' /\ ~Used(q) /\ q \in mine => q = refresh /\ \E r \in Requests : Open(r)
         /\ Used(q)' => Used(q) \/ pc[q] = "ok"
<1>0. [Next]_vars
  BY ServerStep
<1>1. Used(q) => Used(q)'
  <2>1. \A r \in Requests : req[r] \in RefreshReq => pc[r] # "idle"
    BY DEF IInv, Lineage, NoReq, RefreshReq, AtLogin, AtRefresh, Finished, Exchanging
  <2>. QED
    BY <1>0, <2>1, SentStays DEF Used
<1>2. ASSUME NEW r \in Requests, req'[r] \in RefreshReq, req'[r].token = q, ~Used(q)
      PROVE  /\ q \in mine => q = refresh /\ Open(r)
             /\ pc[q] = "ok"
  <2>1. req'[r] # req[r]
    BY <1>2 DEF Used
  <2>2. \A u \in Users : req'[r] # [op |-> "login", user |-> u]
    BY <1>2 DEF RefreshReq
  <2>3. CASE Open(r) /\ refresh # None
    <3>1. StartRefresh(r, refresh)
      BY <2>3 DEF Open
    <3>. QED
      BY <1>2, <2>3, <3>1 DEF StartRefresh, HasToken, IInv, TypeOK
  <2>4. ASSUME NEW p \in Requests \ mine, req'[r] = [op |-> "refresh", token |-> p]
        PROVE  q \notin mine
    BY <1>2, <2>4
  <2>5. q \in mine => q = refresh /\ Open(r)
    <3>1. CASE Open(r) /\ refresh # None
      <4>1. StartRefresh(r, refresh)
        BY <3>1 DEF Open
      <4>. QED
        BY <1>2, <3>1, <4>1 DEF StartRefresh, IInv, TypeOK
    <3>. QED
      BY <2>1, <2>2, <2>4, <3>1, Starts
  <2>6. pc[q] = "ok" \/ UNCHANGED vars
    <3>1. CASE \E u \in Users, p \in Requests : StartLogin(p, u)
      BY <1>2, <2>1, <3>1 DEF StartLogin, RefreshReq, IInv, TypeOK
    <3>2. CASE \E p, s \in Requests : StartRefresh(p, s)
      BY <1>2, <2>1, <3>2 DEF StartRefresh, HasToken, IInv, TypeOK
    <3>. QED
      BY <1>0, <2>1, <3>1, <3>2 DEF Next, Tick, FindUser, FindToken, FindActive, DeleteToken,
         CreateToken, Abort, Logout, SetActive, SetAssocActive
  <2>. QED
    BY <2>1, <2>5, <2>6 DEF vars
<1>. QED
  BY <1>1, <1>2 DEF Used

LEMMA KeptServer ==
  ASSUME IInv, AppTypes, MineApart, Kept, [AppNext]_all, UNCHANGED app
  PROVE  Kept'
<1>0. [Next]_vars
  BY ServerStep
<1>1. UNCHANGED <<phase, call, access, refresh, mine, stray, cut>>
  BY DEF app
<1>2. ~\E r \in Requests : Open(r) /\ refresh # None
  BY <1>1 DEF Open, StartRefresh, MineApart
<1>3. \A q \in mine : q \in Requests /\ (pc[q] = "ok" => pc'[q] = "ok") /\ req'[q] = req[q]
  BY <1>0, SentStays DEF AppTypes, MineApart, Finished
<1>4. \A q \in mine : Used(q)' => Used(q)
  BY <1>2, <1>3, UsedStep, Client DEF AppTypes
<1>5. \A q \in mine : pc[q] = "ok" /\ Holds(q)' => Holds(q)
  BY <1>0, <1>3, HoldsStep
<1>6. access # None => access \in mine /\ pc'[access] = "ok"
  BY <1>3 DEF Kept
<1>7. refresh # None => refresh \in mine /\ pc'[refresh] = "ok"
  BY <1>3 DEF Kept
<1>8. call # None => call \in mine /\ call # refresh /\ ~Used(call)'
  BY <1>1, <1>4 DEF Kept, Used
<1>9. phase \in {"saveAccess", "saveRefresh"} => pc'[call] = "ok"
  BY <1>3 DEF Kept, AppTypes, Calling
<1>10. call # None /\ refresh # None => req'[call] = [op |-> "refresh", token |-> refresh]
  BY <1>3 DEF Kept
<1>11. phase \in {"closed", "in", "signOut"} /\ refresh # None => refresh \in cut \/ ~Used(refresh)'
  BY <1>1, <1>4 DEF Kept, Used
<1>12. phase \in {"clearAccess", "clearRefresh"} /\ refresh # None => refresh \in stray \/ ~Holds(refresh)'
  BY <1>1, <1>5 DEF Kept, Holds
<1>. QED
  BY <1>1, <1>6, <1>7, <1>8, <1>9, <1>10, <1>11, <1>12 DEF Kept

\* Nobody has used the token of a request that is not sent yet.
LEMMA NewUnused ==
  ASSUME IInv, NEW r \in Requests, pc[r] = "idle"
  PROVE  ~Used(r)
BY DEF Used, IInv, Lineage, NoReq, RefreshReq, LoginReq

LEMMA KeptStep ==
  ASSUME IInv, AppTypes, MineApart, Kept, [AppNext]_all
  PROVE  Kept'
<1>0. [Next]_vars
  BY ServerStep
<1>1. CASE AppAlone
  <2>1. /\ UNCHANGED <<pc, req, tokens>>
        /\ \A q : Used(q)' <=> Used(q)
        /\ \A q : Holds(q)' <=> Holds(q)
    BY <1>1, AloneFrame DEF vars, rows, Used, Holds
  <2>2. CASE Answered
    BY <2>1, <2>2 DEF Answered, Become, Kept
  <2>3. CASE Failed
    BY <2>1, <2>3 DEF Failed, Drop, Kept
  <2>4. CASE SaveAccess
    BY <2>1, <2>4 DEF SaveAccess, Kept, AppTypes, Calling
  <2>5. CASE SaveRefresh
    BY <2>1, <2>5 DEF SaveRefresh, Kept, AppTypes, Calling
  <2>6. CASE SignOut
    BY <2>1, <2>6 DEF SignOut, Become, Kept
  <2>7. CASE SignOutFailed
    BY <2>1, <2>7 DEF SignOutFailed, Become, Drop, Kept
  <2>8. CASE ClearAccess \/ ClearRefresh
    BY <2>1, <2>8 DEF ClearAccess, ClearRefresh, Kept, AppTypes, Calling
  <2>9. CASE Kill
    BY <2>1, <2>9 DEF Kill, Drop, Kept
  <2>. QED
    BY <1>1, <2>2, <2>3, <2>4, <2>5, <2>6, <2>7, <2>8, <2>9 DEF AppAlone
<1>2. CASE SignedOut
  <2>1. /\ phase = "signOut" /\ phase' = "clearAccess" /\ UNCHANGED <<call, access, refresh, mine, cut, req, pc>>
        /\ tokens' = tokens \ TokensOf(UserOf(access)) /\ access \in Requests
    BY <1>2 DEF SignedOut, LogoutWith, Logout, Authenticates, Become
  <2>2. \A q : Used(q)' <=> Used(q)
    BY <2>1 DEF Used
  <2>3. access # None
    BY <2>1, Client
  <2>4. refresh # None => ~Holds(refresh)'
    BY <2>1, <2>3 DEF Holds, TokensOf, IInv, TokensFit, Kept, MineApart
  <2>5. call = None
    BY <2>1 DEF AppTypes, Calling
  <2>. QED
    BY <2>1, <2>2, <2>4, <2>5 DEF Kept
<1>3. ASSUME NEW r \in Requests, Open(r), refresh = None
      PROVE  Kept'
  <2>1. /\ UNCHANGED <<vars, call, access, refresh, mine, stray, cut>>
        /\ phase = "closed" /\ phase' = "login"
    BY <1>3 DEF Open
  <2>2. \A q : Used(q)' <=> Used(q)
    BY <2>1 DEF Used, vars
  <2>3. UNCHANGED pc /\ call = None
    BY <2>1 DEF vars, AppTypes, Calling
  <2>. QED
    BY <1>3, <2>1, <2>2, <2>3 DEF Kept
<1>4. ASSUME NEW r \in Requests, \/ Open(r) /\ refresh # None
                                 \/ SignIn(r)
      PROVE  Kept'
  <2>1. /\ pc[r] = "idle" /\ call' = r /\ mine' = mine \cup {r}
        /\ UNCHANGED <<access, refresh, stray, cut>>
        /\ phase' \in {"restore", "signIn"} /\ phase \in {"closed", "login"}
        /\ phase' = "signIn" <=> phase = "login"
    BY <1>4 DEF Open, SignIn, StartRefresh, StartLogin
  <2>2. refresh # None => req'[r] = [op |-> "refresh", token |-> refresh]
    BY <1>4, <2>1 DEF Open, SignIn, StartRefresh, IInv, TypeOK, Kept
  <2>3. /\ access # None => access \in mine /\ pc'[access] = "ok"
        /\ refresh # None => refresh \in mine /\ pc'[refresh] = "ok"
    BY <1>0, SentStays DEF Kept, AppTypes, Finished
  <2>4. ~Used(r)'
    BY <2>1, NewUnused, UsedStep
  <2>5. r # None /\ r # refresh
    BY <2>1, Client DEF Kept
  <2>6. phase' = "signIn" => refresh' = None
    BY <2>1 DEF Kept
  <2>. QED
    BY <2>1, <2>2, <2>3, <2>4, <2>5, <2>6 DEF Kept
<1>5. CASE Server
  BY <1>5, KeptServer DEF Server
<1>. QED
  BY <1>1, <1>2, <1>3, <1>4, <1>5, StepsOf

-----------------------------------------------------------------------------
(* Tokens that are stored, used, revoked or forgotten *)

LEMMA StoredUntilStep ==
  ASSUME IInv, AppTypes, StoredUntil, [AppNext]_all
  PROVE  StoredUntil'
<1>0. [Next]_vars
  BY ServerStep
<1>. SUFFICES ASSUME NEW q \in Requests, pc'[q] = "ok"
              PROVE  Holds(q)' \/ Used(q)' \/ q \in revoked'
  BY DEF StoredUntil
<1>1. CASE pc[q] # "ok"
  <2>1. CreateToken(q, "ok")
    BY <1>0, <1>1 DEF Next, vars, IInv, TypeOK, Goto, Tick, StartLogin, StartRefresh, FindUser, FindToken,
       FindActive, DeleteToken, CreateToken, Abort, Logout, SetActive, SetAssocActive
  <2>2. PICK t : t \in tokens' /\ t.by = q
    <3>. DEFINE new == [by |-> q, user |-> UserOf(q), expires |-> now + Lifetime]
    <3>1. new \in tokens' /\ new.by = q
      BY <2>1 DEF CreateToken
    <3>. QED
      BY <3>1
  <2>. QED
    BY <2>2 DEF Holds
<1>2. CASE pc[q] = "ok"
  <2>1. Holds(q) \/ Used(q) \/ q \in revoked
    BY <1>2 DEF StoredUntil
  <2>2. revoked \subseteq revoked'
    BY StepsOf, AloneFrame DEF SignedOut, LogoutWith, Open, SignIn, Server, OtherDevice, Administer, account
  <2>3. Used(q) => Used(q)'
    BY UsedStep
  <2>4. ASSUME NEW r \in Requests, DeleteToken(r), Holds(q)
        PROVE  Holds(q)' \/ Used(q)
    <3>1. req[r] \in RefreshReq
      BY <2>4 DEF DeleteToken, IInv, Lineage, AtLogin, Finished
    <3>. QED
      BY <2>4, <3>1 DEF DeleteToken, Holds, Used
  <2>5. ASSUME NEW r \in Requests, LogoutWith(r), Holds(q)
        PROVE  Holds(q)' \/ q \in revoked'
    BY <2>5 DEF LogoutWith, Logout, Holds
  <2>6. Holds(q) => Holds(q)' \/ Used(q) \/ q \in revoked'
    <3>1. CASE AppAlone
      BY <3>1, AloneFrame DEF vars, rows, Holds
    <3>2. CASE SignedOut
      BY <2>5, <3>2 DEF SignedOut, LogoutWith, Authenticates
    <3>3. CASE \E r \in Requests : Open(r) \/ SignIn(r)
      BY <3>3 DEF Open, SignIn, StartRefresh, StartLogin, vars, rows, Holds
    <3>4. CASE Server
      <4>1. ASSUME NEW r \in Requests, OtherDevice(r), ~LogoutWith(r)
            PROVE  UNCHANGED tokens
        BY <4>1 DEF OtherDevice, StartLogin, StartRefresh, rows
      <4>2. ASSUME NEW r \in Requests, Serve(r), ~DeleteToken(r)
            PROVE  tokens \subseteq tokens'
        BY <4>2 DEF Serve, FindUser, FindToken, FindActive, CreateToken, Abort, rows
      <4>3. ASSUME NEW c \in Users, NEW u \in Users, NEW b \in BOOLEAN, Administer(c, u, b)
            PROVE  UNCHANGED tokens
        BY <4>3 DEF Administer, SetActive
      <4>4. ASSUME Tick \/ (\E a \in Assocs, b \in BOOLEAN : SetAssocActive(a, b)) \/ UNCHANGED vars
            PROVE  UNCHANGED tokens
        BY <4>4 DEF Tick, SetAssocActive, vars, rows
      <4>5. tokens \subseteq tokens' => (Holds(q) => Holds(q)')
        BY DEF Holds
      <4>. QED
        BY <2>4, <2>5, <3>4, <4>1, <4>2, <4>3, <4>4, <4>5 DEF Server
    <3>. QED
      BY <3>1, <3>2, <3>3, <3>4, StepsOf
  <2>. QED
    BY <2>1, <2>2, <2>3, <2>6
<1>. QED
  BY <1>1, <1>2

LEMMA ForgottenStep ==
  ASSUME IInv, AppTypes, MineApart, Kept, Forgotten, [AppNext]_all
  PROVE  Forgotten'
<1>0. [Next]_vars
  BY ServerStep
<1>. SUFFICES ASSUME NEW q \in mine', q \notin stray', q # refresh', q # call'
              PROVE  pc'[q] \notin Steps /\ ~Holds(q)'
  BY DEF Forgotten
<1>1. ASSUME q \in mine, pc[q] \notin Steps, ~Holds(q)
      PROVE  pc'[q] \notin Steps /\ ~Holds(q)'
  <2>1. pc[q] \in Finished /\ q \in Requests
    BY <1>1 DEF MineApart, AppTypes, IInv, TypeOK
  <2>. QED
    BY <1>0, <1>1, <2>1, SentStays, HoldsStep DEF Finished, Steps, Exchanging
<1>2. CASE AppAlone
  <2>1. UNCHANGED <<pc, req, tokens, mine>>
    BY <1>2, AloneFrame DEF vars, rows, AppAlone, Answered, Failed, SaveAccess, SaveRefresh, SignOut,
       SignOutFailed, ClearAccess, ClearRefresh, Kill, Become
  <2>2. CASE Answered \/ SaveAccess \/ SignOut \/ ClearAccess
    BY <1>1, <2>1, <2>2 DEF Answered, SaveAccess, SignOut, ClearAccess, Become, Forgotten
  <2>3. CASE Failed \/ SignOutFailed \/ Kill
    BY <1>1, <2>1, <2>3, Client DEF Failed, SignOutFailed, Kill, Become, Drop, Forgotten, AppTypes
  <2>4. CASE SaveRefresh
    <3>1. q = refresh => pc[q] = "ok" /\ ~Holds(q)
      <4>. SUFFICES ASSUME q = refresh PROVE pc[q] = "ok" /\ ~Holds(q)
        OBVIOUS
      <4>1. refresh # None /\ call # None /\ pc[call] = "ok" /\ call \in Requests
        BY <2>1, <2>4, Client DEF SaveRefresh, AppTypes, Calling, Kept
      <4>2. req[call] = [op |-> "refresh", token |-> refresh] /\ pc[refresh] = "ok"
        BY <4>1 DEF Kept
      <4>3. req[call] \in RefreshReq /\ req[call].token = refresh
        BY <2>1, <4>2 DEF RefreshReq, AppTypes
      <4>. QED
        BY <4>1, <4>2, <4>3 DEF Holds, IInv, ExchangedGone
    <3>. QED
      BY <1>1, <2>1, <2>4, <3>1 DEF SaveRefresh, Forgotten, Steps, Exchanging
  <2>5. CASE ClearRefresh
    <3>1. q = refresh => pc[q] = "ok" /\ ~Holds(q)
      BY <2>1, <2>5, Client DEF ClearRefresh, Kept, AppTypes
    <3>. QED
      BY <1>1, <2>1, <2>5, <3>1 DEF ClearRefresh, Forgotten, Steps, Exchanging
  <2>. QED
    BY <1>2, <2>2, <2>3, <2>4, <2>5 DEF AppAlone
<1>3. CASE SignedOut
  <2>1. /\ UNCHANGED <<call, refresh, mine, pc>> /\ stray' = {r \in stray : pc[r] \in Steps}
        /\ tokens' = tokens \ TokensOf(UserOf(access)) /\ access \in Requests
    BY <1>3 DEF SignedOut, LogoutWith, Logout, Authenticates, Become
  <2>2. UserOf(access) = AppUser /\ UserOf(q) = AppUser
    BY <2>1, Client DEF Kept, MineApart
  <2>3. ~Holds(q)'
    BY <2>1, <2>2 DEF Holds, TokensOf, IInv, TokensFit
  <2>. QED
    BY <2>1, <2>3 DEF Forgotten
<1>4. ASSUME NEW r \in Requests, Open(r) \/ SignIn(r)
      PROVE  pc'[q] \notin Steps /\ ~Holds(q)'
  <2>1. call = None /\ (q \in mine \/ q = call') /\ UNCHANGED <<refresh, stray>>
    BY <1>4, Client DEF Open, SignIn, AppTypes, Calling
  <2>2. q \in mine /\ q # call
    BY <2>1, Client DEF AppTypes
  <2>. QED
    BY <1>1, <2>1, <2>2 DEF Forgotten
<1>5. CASE Server
  BY <1>1, <1>5 DEF Server, app, Forgotten
<1>. QED
  BY <1>2, <1>3, <1>4, <1>5, StepsOf

-----------------------------------------------------------------------------
(* Access tokens *)

LEMMA IssuedBeforeStep ==
  ASSUME IInv, AppTypes, IssuedBefore, [AppNext]_all
  PROVE  IssuedBefore'
<1>0. now \in Nat /\ now' \in Nat /\ now <= now'
  <2>1. now' = now \/ now' = now + 1
    BY ServerStep DEF Next, vars, Tick, StartLogin, StartRefresh, FindUser, FindToken,
       FindActive, DeleteToken, CreateToken, Abort, Logout, SetActive, SetAssocActive
  <2>2. now \in Nat
    BY Accounts DEF IInv, TypeOK
  <2>. QED
    BY <2>1, <2>2
<1>1. ASSUME UNCHANGED issued
      PROVE  IssuedBefore'
  BY <1>0, <1>1, Accounts DEF IssuedBefore, AppTypes
<1>2. ASSUME NEW r \in Requests, Serve(r)
      PROVE  IssuedBefore'
  <2>1. \A q \in Requests : issued'[q] \in {issued[q], now}
    BY <1>2 DEF Serve, AppTypes
  <2>. QED
    BY <1>0, <2>1, Accounts DEF IssuedBefore, AppTypes
<1>. QED
  BY <1>1, <1>2, StepsOf, AloneFrame DEF SignedOut, LogoutWith, Open, SignIn, Server, OtherDevice, Administer

LEMMA SignedBeforeStep ==
  ASSUME IInv, AppTypes, IssuedBefore, SignedBefore, [AppNext]_all
  PROVE  SignedBefore'
<1>0. [Next]_vars
  BY ServerStep
<1>. SUFFICES ASSUME NEW r \in Requests, r \notin straddled'
              PROVE  /\ pc'[r] \in {"deleteToken", "createToken"} => active'[UserOf(r)']
                     /\ pc'[r] = "ok" => active'[UserOf(r)'] \/ issued'[r] <= since'[UserOf(r)']
  BY DEF SignedBefore
<1>1. pc[r] # "idle" => UserOf(r)' = UserOf(r) /\ UserOf(r) \in Users
  BY <1>0, SentStays, UserTyped DEF IInv
<1>2. r \notin straddled => /\ pc[r] \in {"deleteToken", "createToken"} => active[UserOf(r)]
                            /\ pc[r] = "ok" => active[UserOf(r)] \/ issued[r] <= since[UserOf(r)]
  BY DEF SignedBefore
<1>3. ASSUME NEW c \in Users, NEW u \in Users, NEW b \in BOOLEAN, Administer(c, u, b)
      PROVE  /\ pc'[r] \in {"deleteToken", "createToken"} => active'[UserOf(r)']
             /\ pc'[r] = "ok" => active'[UserOf(r)'] \/ issued'[r] <= since'[UserOf(r)']
  <2>1. /\ pc' = pc /\ issued' = issued
        /\ active' = [active EXCEPT ![u] = b]
        /\ b => UNCHANGED <<since, straddled>>
        /\ ~b => /\ since' = [since EXCEPT ![u] = IF active[u] THEN now ELSE @]
                 /\ straddled' = straddled \cup
                      {q \in Requests : pc[q] \in {"deleteToken", "createToken"} /\ UserOf(q) = u}
    BY <1>3 DEF Administer, SetActive
  <2>2. r \notin straddled
    BY <2>1
  <2>3. active \in [Users -> BOOLEAN] /\ since \in [Users -> 0..MaxTime] /\ issued[r] <= now
    BY DEF IInv, TypeOK, AppTypes, IssuedBefore
  <2>4. ASSUME pc[r] \in {"deleteToken", "createToken"}
        PROVE  active'[UserOf(r)]
    BY <1>1, <1>2, <2>1, <2>2, <2>3, <2>4
  <2>5. ASSUME pc[r] = "ok"
        PROVE  active'[UserOf(r)] \/ issued[r] <= since'[UserOf(r)]
    BY <1>1, <1>2, <2>1, <2>2, <2>3, <2>5
  <2>. QED
    BY <1>1, <2>1, <2>4, <2>5
<1>4. ASSUME UNCHANGED <<active, since, straddled>>, pc'[r] = pc[r], issued'[r] = issued[r]
      PROVE  /\ pc'[r] \in {"deleteToken", "createToken"} => active'[UserOf(r)']
             /\ pc'[r] = "ok" => active'[UserOf(r)'] \/ issued'[r] <= since'[UserOf(r)']
  BY <1>1, <1>2, <1>4
<1>5. ASSUME UNCHANGED <<active, since, straddled>>, Serve(r)
      PROVE  /\ pc'[r] \in {"deleteToken", "createToken"} => active'[UserOf(r)']
             /\ pc'[r] = "ok" => active'[UserOf(r)'] \/ issued'[r] <= since'[UserOf(r)']
  <2>1. pc[r] # "idle" /\ pc \in [Requests -> {"idle"} \cup Steps \cup Finished]
    BY <1>5 DEF Serve, FindUser, FindToken, FindActive, DeleteToken, CreateToken, Abort, Steps, Exchanging,
       IInv, TypeOK
  <2>2. pc[r] = "findUser" => UserOf(r) = req[r].user
    BY DEF UserOf, IInv, Lineage, AtRefresh, Exchanging, Finished
  <2>3. CASE FindUser(r) \/ FindToken(r) \/ FindActive(r) \/ DeleteToken(r) \/ Abort(r)
    BY <1>1, <1>2, <1>5, <2>1, <2>2, <2>3
       DEF FindUser, FindToken, FindActive, DeleteToken, Abort, Goto, MayLogin
  <2>4. CASE \E outcome \in {"ok", "error"} : CreateToken(r, outcome)
    BY <1>1, <1>2, <1>5, <2>1, <2>4 DEF CreateToken, Goto
  <2>. QED
    BY <1>5, <2>3, <2>4 DEF Serve
<1>6. ASSUME NEW q \in Requests \ {r}, Serve(q)
      PROVE  pc'[r] = pc[r] /\ issued'[r] = issued[r]
  BY <1>6 DEF Serve, FindUser, FindToken, FindActive, DeleteToken, CreateToken, Abort, Goto, IInv, TypeOK,
     AppTypes
<1>7. ASSUME NEW q \in Requests, Serve(q)
      PROVE  UNCHANGED active
  BY <1>7 DEF Serve, FindUser, FindToken, FindActive, DeleteToken, CreateToken, Abort, rows
<1>8. ASSUME UNCHANGED <<since, straddled, issued>>,
             \/ \E q \in Requests : \/ LogoutWith(q)
                                    \/ \E u \in Users : StartLogin(q, u)
                                    \/ \E p \in Requests : StartRefresh(q, p)
             \/ Tick \/ (\E a \in Assocs, b \in BOOLEAN : SetAssocActive(a, b)) \/ UNCHANGED vars
      PROVE  UNCHANGED active /\ pc'[r] \in {pc[r], "findUser", "findToken"}
  <2>. USE DEF IInv, TypeOK
  <2>1. ASSUME NEW q \in Requests, LogoutWith(q)
        PROVE  UNCHANGED <<active, pc>>
    BY <2>1 DEF LogoutWith, Logout
  <2>2. ASSUME NEW q \in Requests, NEW u \in Users, StartLogin(q, u)
        PROVE  UNCHANGED active /\ pc'[r] \in {pc[r], "findUser"}
    BY <2>2 DEF StartLogin, Goto, rows
  <2>3. ASSUME NEW q \in Requests, NEW p \in Requests, StartRefresh(q, p)
        PROVE  UNCHANGED active /\ pc'[r] \in {pc[r], "findToken"}
    BY <2>3 DEF StartRefresh, Goto, rows
  <2>4. ASSUME Tick \/ (\E a \in Assocs, b \in BOOLEAN : SetAssocActive(a, b)) \/ UNCHANGED vars
        PROVE  UNCHANGED <<active, pc>>
    BY <2>4 DEF Tick, SetAssocActive, vars, rows
  <2>. QED
    BY <1>8, <2>1, <2>2, <2>3, <2>4
<1>9. CASE Server
  BY <1>1, <1>3, <1>4, <1>5, <1>6, <1>7, <1>8, <1>9 DEF Server, OtherDevice, LogoutWith, account
<1>10. CASE AppAlone
  BY <1>1, <1>4, <1>8, <1>10, AloneFrame DEF account
<1>11. CASE SignedOut
  BY <1>1, <1>4, <1>8, <1>11 DEF SignedOut, LogoutWith, Authenticates
<1>12. ASSUME NEW q \in Requests, Open(q) \/ SignIn(q)
       PROVE  /\ pc'[r] \in {"deleteToken", "createToken"} => active'[UserOf(r)']
              /\ pc'[r] = "ok" => active'[UserOf(r)'] \/ issued'[r] <= since'[UserOf(r)']
  <2>1. UNCHANGED <<issued, since, straddled>>
    BY <1>12 DEF Open, SignIn, account
  <2>2. UNCHANGED vars \/ (\E u \in Users : StartLogin(q, u)) \/ \E p \in Requests : StartRefresh(q, p)
    BY <1>12, Client DEF Open, SignIn, AppTypes, Token
  <2>. QED
    BY <1>1, <1>4, <1>8, <2>1, <2>2
<1>. QED
  BY <1>9, <1>10, <1>11, <1>12, StepsOf

-----------------------------------------------------------------------------
(* The inductive invariant *)

LEMMA AppInitInv == AppInit => AppInv
<1>. SUFFICES ASSUME AppInit PROVE AppInv
  OBVIOUS
<1>1. IInv
  BY InitInv DEF AppInit
<1>2. AppTypes
  BY Client, Accounts DEF AppInit, AppTypes, Token, Phases, Calling
<1>3. MineApart /\ StoredUntil /\ Forgotten
  BY DEF AppInit, Init, MineApart, StoredUntil, Forgotten, NoReq, RefreshReq
<1>4. Kept
  BY DEF AppInit, Kept
<1>5. IssuedBefore /\ SignedBefore
  BY DEF AppInit, Init, IssuedBefore, SignedBefore
<1>. QED
  BY <1>1, <1>2, <1>3, <1>4, <1>5 DEF AppInv

LEMMA AppInvStep == AppInv /\ [AppNext]_all => AppInv'
BY ServerStep, InvStep, AppTypesStep, MineApartStep, KeptStep, StoredUntilStep, ForgottenStep,
   IssuedBeforeStep, SignedBeforeStep DEF AppInv

-----------------------------------------------------------------------------
(* Theorems *)

\* The inductive invariant holds in every reachable state.
THEOREM AppInvariance == AppSpec => []AppInv
BY AppInitInv, AppInvStep, PTL DEF AppSpec

\* The client and the server together behave as Sessions: whatever the app does, kills
\* and timeouts included, is to the server one of the requests Sessions has.
THEOREM ImplementsSessions == AppSpec => Spec
<1>1. AppInit => Init
  BY DEF AppInit
<1>2. AppInv /\ [AppNext]_all => [Next]_vars
  BY ServerStep DEF AppInv
<1>. QED
  BY <1>1, <1>2, AppInvariance, PTL DEF AppSpec, Spec

\* Beside the app, logouts end sessions, used tokens are refused, inactive users get
\* nothing, and sessions have one token, as the theorems above have it.
THEOREM ServerPromises ==
  AppSpec => [](SessionEnds /\ LateReuseRefused /\ InactiveGetsNothing /\ OneTokenPerSession)
BY ImplementsSessions, LogoutEnds, ReuseRefused, InactiveRefused, Rotation, PTL

\* Every variable of the client and of the server keeps its type.
THEOREM AppTypeCorrect == AppSpec => []AppTypeOK
<1>1. AppInv => AppTypeOK
  BY DEF AppInv, IInv, AppTypes, AppTypeOK
<1>. QED
  BY <1>1, AppInvariance, PTL

\* The server accepts no refresh token of the app that the app neither keeps nor dropped.
THEOREM NoTokenLeft == AppSpec => []NothingLeftBehind
<1>1. AppInv => NothingLeftBehind
  BY DEF AppInv, Forgotten, Holds, NothingLeftBehind
<1>. QED
  BY <1>1, AppInvariance, PTL

\* An app that was not killed at the wrong moment, and whose user did not log out elsewhere,
\* keeps a token the server has.
THEOREM SessionKept == AppSpec => []StoredSessionAlive
<1>1. ASSUME AppInv, refresh # None, phase \in {"closed", "in"}, refresh \notin revoked \cup cut
      PROVE  refresh \in {t.by : t \in tokens}
  <2>1. refresh \in Requests /\ pc[refresh] = "ok" /\ ~Used(refresh)
    BY <1>1 DEF AppInv, Kept, AppTypes
  <2>. QED
    BY <1>1, <2>1 DEF AppInv, StoredUntil, Holds
<1>2. AppInv => StoredSessionAlive
  BY <1>1 DEF StoredSessionAlive
<1>. QED
  BY <1>2, AppInvariance, PTL

\* A deactivated user is shut out after the life of an access token, unless a login or
\* refresh straddled the deactivation.
THEOREM AccessBounded == AppSpec => []AccessEnds
<1>1. ASSUME AppInv, NEW r \in Requests \ straddled, Authenticates(r), ~active[UserOf(r)]
      PROVE  now < since[UserOf(r)] + AccessLife
  <2>1. issued[r] <= since[UserOf(r)] /\ now < issued[r] + AccessLife /\ pc[r] # "idle"
    BY <1>1 DEF AppInv, SignedBefore, Authenticates
  <2>2. UserOf(r) \in Users
    BY <1>1, <2>1, UserTyped DEF AppInv, IInv
  <2>3. issued[r] \in Nat /\ since[UserOf(r)] \in Nat /\ now \in Nat /\ AccessLife \in Nat
    BY <1>1, <2>2, Accounts, Client DEF AppInv, IInv, TypeOK, AppTypes
  <2>. QED
    BY <2>1, <2>3
<1>2. AppInv => AccessEnds
  BY <1>1 DEF AccessEnds
<1>. QED
  BY <1>2, AppInvariance, PTL
=============================================================================
