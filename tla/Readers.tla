------------------------------- MODULE Readers -------------------------------
(***************************************************************************)
(* Reading (internal/notice, internal/home, GetResults of internal/survey):*)
(* notices and the marks of their readers, the home page and the results   *)
(* of a survey, all of which draw their connections from one pool.         *)
(*                                                                         *)
(* A page is put together from several queries without a transaction, and  *)
(* notices, marks, answers and surveys change between two of them.  Every  *)
(* query takes a connection of the pool and gives it back; the results     *)
(* page keeps the one its questions are read from while it asks for others.*)
(*                                                                         *)
(* Submissions and deletions of surveys are single steps here, as          *)
(* AnswerSheet has them; SurveyAnswers models their statements.            *)
(***************************************************************************)
EXTENDS Naturals, FiniteSets

CONSTANTS
  Requests,
  Users, SystemAdmins, Assocs,
  HomeOf,      \* association claim of a user who is no system admin
  MaxNotices,  \* bound: notices, numbered by created_at
  Surveys,
  AssocOf,     \* association of a survey
  Questions,   \* number of questions of a survey, each of type "single"
  Limit,       \* defaultLimit: length of a list on the home page
  MaxConns,    \* connections of the pool
  MaxWrites    \* bound: changes of notices and surveys, submissions, opened notices

ASSUME Audience ==
  /\ IsFiniteSet(Users) /\ IsFiniteSet(Surveys)
  /\ SystemAdmins \subseteq Users
  /\ HomeOf \in [Users -> Assocs]
  /\ AssocOf \in [Surveys -> Assocs]
  /\ MaxNotices \in Nat /\ Questions \in Nat /\ Limit \in Nat
  /\ MaxConns \in Nat /\ MaxWrites \in Nat

Notices == 1..MaxNotices

VARIABLES
  notice,  \* notice[n]: the row of notices
  reads,   \* rows of notice_reads: <<notice, user>>
  survey,  \* survey[s]: "absent", "open", "expired" or "deleted"
  ballot,  \* ballot[s][u]: the questions u has answered in s
  writes,  \* counter of the bound
  req, pc, \* req[r], pc[r]: what request r asks for, its next query or outcome
  page,    \* page[r]: what the queries of r have returned, lists by their lengths
  held,    \* requests that keep a connection between two queries
  drift,   \* history: drift[r]: writes since the first query of r
  opened,  \* history: <<notice, user>> of the notices that were shown
  missed,  \* history: <<notice, user>> whose mark failed unseen
  voted,   \* history: voted[r][q]: users who had answered q when r counted users
  cutOff   \* history: cutOff[r]: questions whose choices r could not read to the end

db      == <<notice, reads, survey, ballot, writes>>
tally   == <<voted, cutOff>>
history == <<drift, opened, missed, tally>>
vars    == <<db, req, pc, page, held, history>>

Absent == [state |-> "absent"]
NoReq  == [op |-> "none"]
Zeros  == [q \in 1..Questions |-> 0]
Empty  == [listed |-> 0, unread |-> 0, surveys |-> 0, unreadCount |-> 0,
           unansweredCount |-> 0, total |-> 0, counts |-> Zeros, next |-> 1]

OpenSteps   == {"find", "findAgain", "mark"}
HomeSteps   == {"listNotices", "listSurveys", "countNotices", "countSurveys"}
ResultSteps == {"findSurvey", "title", "countUsers", "questions", "choices"}
Steps       == OpenSteps \cup HomeSteps \cup ResultSteps

Init ==
  /\ notice = [n \in Notices |-> Absent]
  /\ reads = {}
  /\ survey = [s \in Surveys |-> "absent"]
  /\ ballot = [s \in Surveys |-> [u \in Users |-> {}]]
  /\ writes = 0
  /\ req = [r \in Requests |-> NoReq]
  /\ pc = [r \in Requests |-> "idle"]
  /\ page = [r \in Requests |-> Empty]
  /\ held = {}
  /\ drift = [r \in Requests |-> 0]
  /\ opened = {} /\ missed = {}
  /\ voted = [r \in Requests |-> Zeros]
  /\ cutOff = [r \in Requests |-> {}]

Goto(r, step) == pc' = [pc EXCEPT ![r] = step]

Continue(r, step) == Goto(r, step) /\ UNCHANGED <<req, held>>

\* Faulty: rows are left open when the request ends.
FinishFaulty(r, step) ==
  /\ Goto(r, step)
  /\ req' = IF step = "done" THEN [req EXCEPT ![r] = NoReq] ELSE req
  /\ UNCHANGED held

\* The request ends, with or without a page, and the deferred Close gives its connection
\* back.
Finish(r, step) ==
  /\ Goto(r, step)
  /\ req' = IF step = "done" THEN [req EXCEPT ![r] = NoReq] ELSE req
  /\ held' = held \ {r}

\* Request r arrives.
Accept(r, request, step) ==
  /\ pc[r] = "idle"
  /\ req' = [req EXCEPT ![r] = request]
  /\ Goto(r, step)
  /\ UNCHANGED <<notice, reads, survey, ballot, page, held, history>>

\* A query of r runs: the pool has a connection for it.
Query(r, step) ==
  /\ pc[r] = step
  /\ Cardinality(held) < MaxConns

\* A write adds to the drift of the pages whose first count or list has been read.
Written ==
  drift' = [r \in Requests |->
              IF pc[r] \in {"listSurveys", "countNotices", "countSurveys", "questions", "choices"}
              THEN drift[r] + 1 ELSE drift[r]]

\* A write by somebody else.
Change ==
  /\ writes < MaxWrites
  /\ writes' = writes + 1
  /\ Written
  /\ UNCHANGED <<reads, req, pc, page, held, opened, missed, tally>>

-----------------------------------------------------------------------------
(* Notices *)

\* mustIDs: a caller whose token names no association is refused.
Member(u) == u \notin SystemAdmins

\* Handler.Create
CreateNotice(u, n, pinned) ==
  /\ Member(u)
  /\ notice[n] = Absent /\ \A m \in Notices : m < n => notice[m] # Absent
  /\ notice' = [notice EXCEPT ![n] =
                  [state |-> "live", assoc |-> HomeOf[u], pinned |-> pinned]]
  /\ Change
  /\ UNCHANGED <<survey, ballot>>

\* Faulty: every caller finds every notice.
VisibleFaulty(n, a) == notice[n].state = "live"

\* FindByID: id, association and deleted_at IS NULL.
Visible(n, a) == notice[n].state = "live" /\ notice[n].assoc = a

\* SoftDelete checks the association in the UPDATE.
DeleteNotice(u, n) ==
  /\ Member(u)
  /\ Visible(n, HomeOf[u])
  /\ notice' = [notice EXCEPT ![n].state = "deleted"]
  /\ Change
  /\ UNCHANGED <<survey, ballot>>

\* Handler.Get begins with a query of its own, Handler.MarkAsRead with that of the service.
StartOpen(r, u, n, op) ==
  /\ Member(u)
  /\ Accept(r, [op |-> op, user |-> u, assoc |-> HomeOf[u], notice |-> n],
            IF op = "open" THEN "find" ELSE "findAgain")
  /\ writes < MaxWrites /\ writes' = writes + 1

Pair(r) == <<req[r].notice, req[r].user>>

\* Faulty: the notice is shown and never marked.
FindNoticeFaulty(r) ==
  /\ Query(r, "find")
  /\ opened' = opened \cup {p \in {Pair(r)} : Visible(p[1], req[r].assoc)}
  /\ Finish(r, "done")
  /\ UNCHANGED <<db, page, drift, missed, tally>>

\* Service.Get; the answer shows the notice it found, whatever becomes of the mark.
FindNotice(r) ==
  /\ Query(r, "find")
  /\ IF Visible(req[r].notice, req[r].assoc)
     THEN Continue(r, "findAgain") /\ opened' = opened \cup {Pair(r)}
     ELSE Finish(r, "done") /\ UNCHANGED opened
  /\ UNCHANGED <<db, page, drift, missed, tally>>

\* No mark is made: Handler.MarkAsRead tells its caller, Handler.Get shows the notice.
MarkMissed(r) ==
  /\ Finish(r, "done")
  /\ missed' = missed \cup {Pair(r)}

\* Service.MarkAsRead looks the notice up again.
FindForMark(r) ==
  /\ Query(r, "findAgain")
  /\ IF Visible(req[r].notice, req[r].assoc)
     THEN Continue(r, "mark") /\ UNCHANGED missed
     ELSE MarkMissed(r)
  /\ UNCHANGED <<db, page, drift, opened, tally>>

\* INSERT ... ON CONFLICT DO NOTHING
Mark(r) ==
  /\ Query(r, "mark")
  /\ reads' = reads \cup {Pair(r)}
  /\ Written
  /\ Finish(r, "done")
  /\ UNCHANGED <<notice, survey, ballot, writes, page, opened, missed, tally>>

-----------------------------------------------------------------------------
(* Surveys, as far as the pages show them *)

\* Creation, expiry and deletion.
SetSurvey(s, from, to) ==
  /\ Change
  /\ survey[s] = from
  /\ survey' = [survey EXCEPT ![s] = to]
  /\ UNCHANGED <<notice, ballot>>

\* A submission replaces the former one of its user.
Answer(u, s, qs) ==
  /\ Change
  /\ survey[s] = "open" /\ qs # {}
  /\ u \in SystemAdmins \/ HomeOf[u] = AssocOf[s]
  /\ ballot' = [ballot EXCEPT ![s][u] = qs]
  /\ UNCHANGED <<notice, survey>>

-----------------------------------------------------------------------------
(* The home page *)

LiveNotices(a) == {n \in Notices : Visible(n, a)}

\* ORDER BY is_pinned DESC, created_at DESC
Precedes(m, n) ==
  \/ notice[m].pinned /\ ~notice[n].pinned
  \/ notice[m].pinned = notice[n].pinned /\ m > n

\* The first Limit notices of association a.
Recent(a) ==
  {n \in LiveNotices(a) : Cardinality({m \in LiveNotices(a) : Precedes(m, n)}) < Limit}

\* Faulty: deleted notices are counted.
UnreadFaulty(a, u) ==
  {n \in Notices : notice[n].state # "absent" /\ notice[n].assoc = a /\ <<n, u>> \notin reads}

\* Notices without a mark of u.
Unread(a, u) == {n \in LiveNotices(a) : <<n, u>> \notin reads}

\* Surveys that are open and that u has not answered.
Unanswered(a, u) == {s \in Surveys : AssocOf[s] = a /\ survey[s] = "open" /\ ballot[s][u] = {}}

\* A member gets the page of its association.  A system admin names one, and without
\* one gets an empty page at once, which needs no query.
StartHome(r, u, a) ==
  /\ u \in SystemAdmins \/ a = HomeOf[u]
  /\ Accept(r, [op |-> "home", user |-> u, assoc |-> a], "listNotices")
  /\ UNCHANGED writes

\* The unread ones are those of the list whose is_read is false.
ListNotices(r) ==
  /\ Query(r, "listNotices")
  /\ LET list == Recent(req[r].assoc)
     IN page' = [page EXCEPT
          ![r].listed = Cardinality(list),
          ![r].unread = Cardinality({n \in list : <<n, req[r].user>> \notin reads})]
  /\ Continue(r, "listSurveys")
  /\ UNCHANGED <<db, history>>

\* LIMIT: the length of a list of n rows.
Cut(n) == IF n <= Limit THEN n ELSE Limit

\* The list of files that is read before depends on nothing here.
ListSurveys(r) ==
  /\ Query(r, "listSurveys")
  /\ page' = [page EXCEPT ![r].surveys =
                Cut(Cardinality(Unanswered(req[r].assoc, req[r].user)))]
  /\ Continue(r, "countNotices")
  /\ UNCHANGED <<db, history>>

CountNotices(r) ==
  /\ Query(r, "countNotices")
  /\ page' = [page EXCEPT ![r].unreadCount = Cardinality(Unread(req[r].assoc, req[r].user))]
  /\ Continue(r, "countSurveys")
  /\ UNCHANGED <<db, history>>

CountSurveys(r) ==
  /\ Query(r, "countSurveys")
  /\ page' = [page EXCEPT ![r].unansweredCount =
                Cardinality(Unanswered(req[r].assoc, req[r].user))]
  /\ Finish(r, "shown")
  /\ UNCHANGED <<db, history>>

-----------------------------------------------------------------------------
(* The results of a survey *)

StartResults(r, u, s) ==
  /\ Accept(r, [op |-> "results", user |-> u, survey |-> s], "findSurvey")
  /\ UNCHANGED writes

Stored(s) == survey[s] \in {"open", "expired"}

\* Service.GetResults: FindByID and the check of the association.
FindSurvey(r) ==
  /\ Query(r, "findSurvey")
  /\ IF /\ Stored(req[r].survey)
        /\ req[r].user \in SystemAdmins \/ HomeOf[req[r].user] = AssocOf[req[r].survey]
     THEN Continue(r, "title")
     ELSE Finish(r, "done")
  /\ UNCHANGED <<db, page, history>>

FindTitle(r) ==
  /\ Query(r, "title")
  /\ IF Stored(req[r].survey) THEN Continue(r, "countUsers")
                              ELSE Finish(r, "done")
  /\ UNCHANGED <<db, page, history>>

Answerers(s, q) == {u \in Users : q \in ballot[s][u]}

\* The users of survey s are counted.
Counted(r, n) ==
  /\ Query(r, "countUsers")
  /\ page' = [page EXCEPT ![r].total = n]
  /\ voted' = [voted EXCEPT ![r] =
                 [q \in 1..Questions |-> Cardinality(Answerers(req[r].survey, q))]]
  /\ Continue(r, "questions")
  /\ UNCHANGED <<db, drift, opened, missed, cutOff>>

\* Faulty: only users who answered every question are counted.
CountUsersFaulty(r) ==
  Counted(r, Cardinality({u \in Users : ballot[req[r].survey][u] = 1..Questions}))

\* COUNT(DISTINCT user_id)
CountUsers(r) ==
  Counted(r, Cardinality({u \in Users : ballot[req[r].survey][u] # {}}))

\* The rows of the questions stay open: the connection is kept.
ReadQuestions(r) ==
  /\ Query(r, "questions")
  /\ IF Questions > 0 THEN Goto(r, "choices") /\ held' = held \cup {r} /\ UNCHANGED req
                      ELSE Finish(r, "shown")
  /\ UNCHANGED <<db, page, history>>

\* The next question is shown with n answers.
ShowAnswers(r, n) ==
  LET q == page[r].next IN
  /\ page' = [page EXCEPT ![r].next = q + 1, ![r].counts = [@ EXCEPT ![q] = n]]
  /\ IF q < Questions THEN UNCHANGED <<req, pc, held>> ELSE Finish(r, "shown")
  /\ UNCHANGED <<db, drift, opened, missed, voted>>

\* The choices of the next question, on another connection.  A question of type "single"
\* has one row per user, so its counts add up to its users.  A query that fails once it has
\* begun ends the loop as if it had no more rows, because cRows.Err is not looked at: the
\* page is shown with what had been read.
ReadChoices(r) ==
  /\ Query(r, "choices")
  /\ LET answers == Cardinality(Answerers(req[r].survey, page[r].next)) IN
       \/ ShowAnswers(r, answers) /\ UNCHANGED cutOff
       \/ /\ \E n \in 0..answers : ShowAnswers(r, n)
          /\ cutOff' = [cutOff EXCEPT ![r] = @ \cup {page[r].next}]

-----------------------------------------------------------------------------

\* A query fails and tells so, or the client goes away and its context is cancelled, which also ends
\* the wait for a connection.
Abort(r) ==
  /\ pc[r] \in Steps
  /\ IF pc[r] \in {"findAgain", "mark"}
     THEN MarkMissed(r)
     ELSE Finish(r, "done") /\ UNCHANGED missed
  /\ page' = [page EXCEPT ![r] = Empty]
  /\ drift' = [drift EXCEPT ![r] = 0]
  /\ voted' = [voted EXCEPT ![r] = Zeros]
  /\ cutOff' = [cutOff EXCEPT ![r] = {}]
  /\ UNCHANGED <<db, opened>>

Step(r) ==
  \/ FindNotice(r) \/ FindForMark(r) \/ Mark(r)
  \/ ListNotices(r) \/ ListSurveys(r) \/ CountNotices(r) \/ CountSurveys(r)
  \/ FindSurvey(r) \/ FindTitle(r) \/ CountUsers(r) \/ ReadQuestions(r) \/ ReadChoices(r)

Next ==
  \/ \E u \in Users, n \in Notices :
       \/ \E pinned \in BOOLEAN : CreateNotice(u, n, pinned)
       \/ DeleteNotice(u, n)
  \/ \E s \in Surveys :
       \/ SetSurvey(s, "absent", "open") \/ SetSurvey(s, "open", "expired")
       \/ SetSurvey(s, "open", "deleted") \/ SetSurvey(s, "expired", "deleted")
       \/ \E u \in Users, qs \in SUBSET (1..Questions) : Answer(u, s, qs)
  \/ \E r \in Requests :
       \/ \E u \in Users :
            \/ \E n \in Notices, op \in {"open", "mark"} : StartOpen(r, u, n, op)
            \/ \E a \in Assocs : StartHome(r, u, a)
            \/ \E s \in Surveys : StartResults(r, u, s)
       \/ Step(r) \/ Abort(r)

Spec == Init /\ [][Next]_vars

\* A handler goes on whenever the pool has a connection for its next query.
FairSpec == Spec /\ \A r \in Requests : WF_vars(Step(r))

-----------------------------------------------------------------------------
(* Correctness *)

NoticeRow == [state : {"live", "deleted"}, assoc : Assocs, pinned : BOOLEAN]
OpenReq   == [op : {"open", "mark"}, user : Users, assoc : Assocs, notice : Notices]
HomeReq   == [op : {"home"}, user : Users, assoc : Assocs]
ResultReq == [op : {"results"}, user : Users, survey : Surveys]
Page      == [listed : Nat, unread : Nat, surveys : Nat,
              unreadCount : Nat, unansweredCount : Nat, total : Nat,
              counts : [1..Questions -> Nat], next : Nat \ {0}]

\* The type of every variable; a connection is kept only between questions.
TypeOK ==
  /\ notice \in [Notices -> NoticeRow \cup {Absent}]
  /\ reads \subseteq Notices \X Users
  /\ survey \in [Surveys -> {"absent", "open", "expired", "deleted"}]
  /\ ballot \in [Surveys -> [Users -> SUBSET (1..Questions)]]
  /\ writes \in 0..MaxWrites
  /\ req \in [Requests -> OpenReq \cup HomeReq \cup ResultReq \cup {NoReq}]
  /\ pc \in [Requests -> {"idle", "shown", "done"} \cup Steps]
  /\ page \in [Requests -> Page]
  /\ held = {r \in Requests : pc[r] = "choices"}
  /\ drift \in [Requests -> Nat]
  /\ opened \subseteq Notices \X Users /\ missed \subseteq Notices \X Users
  /\ voted \in [Requests -> [1..Questions -> Nat]]
  /\ cutOff \in [Requests -> SUBSET (1..Questions)]

\* Only members of a notice's own association are ever shown it or recorded as its
\* readers, although the lookup and the INSERT of the mark are two statements.
MarksAdmitted ==
  \A p \in reads \cup opened :
    notice[p[1]] # Absent /\ notice[p[1]].assoc = HomeOf[p[2]] /\ Member(p[2])

\* A notice that was shown is marked as read, is about to be, or its mark failed or met
\* the deletion of the notice: Handler.Get ignores that.
OpenedIsRead ==
  \A p \in opened \ (reads \cup missed) :
    \E r \in Requests : pc[r] \in {"findAgain", "mark"} /\ Pair(r) = p

\* The list and the counts of a home page contradict each other by no more than what was
\* written between its queries: no more unread notices or unanswered surveys are listed
\* than are counted, and all of them are when the list is not full.
HomeSkewBounded ==
  \A r \in Requests : (pc[r] = "shown" /\ req[r].op = "home") =>
    LET p == page[r]
        Agrees(list, count, full) ==
          /\ list <= count + drift[r]
          /\ ~full => count <= list + drift[r]
    IN /\ Agrees(p.unread, p.unreadCount, p.listed >= Limit)
       /\ Agrees(p.surveys, p.unansweredCount, p.surveys >= Limit)

\* A question of the results has no more answers than users are said to have answered, and
\* no fewer than users had answered it when those were counted, but for the submissions
\* since.  Only a query of choices that failed unseen leaves a question with too few.
ResultsSkewBounded ==
  \A r \in Requests : (pc[r] = "shown" /\ req[r].op = "results") =>
    \A q \in 1..Questions :
      /\ page[r].counts[q] <= page[r].total + drift[r]
      /\ q \in cutOff[r] \/ voted[r][q] <= page[r].counts[q] + drift[r]

\* Every connection is kept by a results page that waits for another one.
PoolHeld == Cardinality({r \in Requests : pc[r] = "choices"}) >= MaxConns

\* Every request is answered, unless as many results pages as the pool has connections
\* wait for each other.
EveryRequestAnswered ==
  \A r \in Requests : pc[r] \in Steps ~> (pc[r] \notin Steps \/ PoolHeld)

=============================================================================
