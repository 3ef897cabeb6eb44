--------------------------- MODULE SurveyAnswers ---------------------------
(***************************************************************************)
(* Surveys and their answers (backend/internal/survey).                    *)
(*                                                                         *)
(* Every HTTP request is a process.  A request performs one repository     *)
(* call per step, because other requests run between two calls: Answer     *)
(* checks the expiry, reads the survey, validates the choices and only     *)
(* then opens the transaction of SaveAnswers.  The transaction runs under  *)
(* PostgreSQL's READ COMMITTED: a statement sees the rows committed when   *)
(* it starts, waits for the rows other transactions have deleted, an       *)
(* INSERT waits for, or fails on, the unique index of survey_answers, and  *)
(* a cycle of waiting transactions is broken by aborting a member.         *)
(*                                                                         *)
(* Questions and choices never change once their survey is created, so     *)
(* they are constants; a survey's id, questions and choices are fixed, and *)
(* Create makes them visible at once.                                      *)
(***************************************************************************)
EXTENDS Naturals, Sequences, FiniteSets

CONSTANTS
  Requests,     \* requests that answer or delete a survey
  Users,        \* callers, each authenticated by its access token
  SystemAdmins, \* the callers whose role is system_admin
  Assocs,       \* associations (the tenants)
  HomeOf,       \* association claim of a caller that is no system admin
  Surveys, Questions, Choices,
  SurveyOf,     \* survey a question belongs to
  QuestionOf,   \* question a choice belongs to
  Single,       \* questions whose type is "single"; the others are "multiple"
  Bodies,       \* bodies of answer requests: sequences of entries
  SerialUsers,  \* TRUE: a client waits for its answer before the next request
  MaxTime       \* bound: the clock stops here

Entry == [question : Questions, choices : Seq(Choices)]

ASSUME Catalogue ==
  /\ SystemAdmins \subseteq Users
  /\ HomeOf \in [Users -> Assocs]
  /\ SurveyOf \in [Questions -> Surveys]
  /\ QuestionOf \in [Choices -> Questions]
  /\ Single \subseteq Questions
  /\ Bodies \subseteq Seq(Entry)
  /\ SerialUsers \in BOOLEAN
  /\ MaxTime \in Nat

VARIABLES
  now,       \* wall clock
  survey,    \* survey[s]: the row of surveys
  answers,   \* committed rows of survey_answers
  req,       \* req[r]: what request r asks for
  pc,        \* pc[r]: the next repository call of r, or its outcome
  seen,      \* seen[r]: rows the DELETE of r still has to lock
  removed,   \* removed[r]: rows deleted by the open transaction of r
  added,     \* added[r]: rows inserted by the open transaction of r
  left,      \* left[r]: positions of the body r has still to insert
  checkedAt  \* history: when CheckSurveyExpiry let r pass

db   == <<survey, answers>>
tx   == <<seen, removed, added, left>>
vars == <<now, db, req, pc, tx, checkedAt>>

Absent == [state |-> "absent"]
NoReq  == [op |-> "none"]

Finished == {"ok", "notfound", "expired", "error"}
Steps    == {"expiry", "find", "validate", "save", "lock", "insert",
             "findForDelete", "softDelete"}
InTx(r)  == pc[r] \in {"lock", "insert"}

Positions(body) ==
  UNION {{<<i, j>> : j \in DOMAIN body[i].choices} : i \in DOMAIN body}

\* The row of survey_answers that request r writes for one position of its body.
\* A row is written once, so "by" stands for its primary key.
Row(r, p) == [survey   |-> req[r].survey,
              user     |-> req[r].user,
              question |-> req[r].body[p[1]].question,
              choice   |-> req[r].body[p[1]].choices[p[2]],
              by       |-> r]

\* All rows of request r.
RowsOf(r) == {Row(r, p) : p \in Positions(req[r].body)}

\* The associations resolveAssocID can return for caller u: a system admin names
\* one, the others use the one of their token.
CallerAssocs(u) == IF u \in SystemAdmins THEN Assocs ELSE {HomeOf[u]}

Init ==
  /\ now = 0
  /\ survey = [s \in Surveys |-> Absent]
  /\ answers = {}
  /\ req = [r \in Requests |-> NoReq]
  /\ pc = [r \in Requests |-> "idle"]
  /\ seen = [r \in Requests |-> {}]
  /\ removed = [r \in Requests |-> {}]
  /\ added = [r \in Requests |-> {}]
  /\ left = [r \in Requests |-> {}]
  /\ checkedAt = [r \in Requests |-> 0]

Tick ==
  /\ now < MaxTime
  /\ now' = now + 1
  /\ UNCHANGED <<db, req, pc, tx, checkedAt>>

-----------------------------------------------------------------------------
(* Creating a survey *)

ValidSurvey(s) ==
  /\ \E q \in Questions : SurveyOf[q] = s
  /\ \A q \in Questions : SurveyOf[q] = s =>
       \E c, d \in Choices : c # d /\ QuestionOf[c] = q /\ QuestionOf[d] = q

\* One transaction inserts the survey, its questions and its choices; a request
\* that fails validation, or whose transaction fails, leaves nothing.
Create(u, a, s, expires) ==
  /\ a \in CallerAssocs(u)
  /\ survey[s].state = "absent"
  /\ ValidSurvey(s)
  /\ expires > now
  /\ survey' = [survey EXCEPT ![s] = [state |-> "live", assoc |-> a,
                                      expires |-> expires, deletedAt |-> 0]]
  /\ UNCHANGED <<now, answers, req, pc, tx, checkedAt>>

-----------------------------------------------------------------------------
(* Answering: Handler.Answer and Service.Answer *)

Goto(r, step) == pc' = [pc EXCEPT ![r] = step]

\* Faulty: the request ends and its transaction stays open (no deferred Rollback).
FinishFaulty(r, outcome) ==
  /\ Goto(r, outcome)
  /\ UNCHANGED tx

\* Ends request r with the given outcome and gives up its transaction, if any.
Finish(r, outcome) ==
  /\ Goto(r, outcome)
  /\ seen' = [seen EXCEPT ![r] = {}]
  /\ removed' = [removed EXCEPT ![r] = {}]
  /\ added' = [added EXCEPT ![r] = {}]
  /\ left' = [left EXCEPT ![r] = {}]

StartAnswer(r, u, a, s, body) ==
  /\ pc[r] = "idle"
  /\ a \in CallerAssocs(u)
  /\ SerialUsers => \A q \in Requests :
       (pc[q] \in Steps /\ req[q].op = "answer") => req[q].user # u
  /\ req' = [req EXCEPT ![r] = [op |-> "answer", user |-> u, assoc |-> a,
                                survey |-> s, body |-> body]]
  /\ Goto(r, "expiry")
  /\ UNCHANGED <<now, db, tx, checkedAt>>

\* Faulty: only the existence of the survey is checked.
CheckSurveyExpiryFaulty(r) ==
  /\ pc[r] = "expiry"
  /\ Goto(r, IF survey[req[r].survey].state = "live" THEN "find" ELSE "notfound")
  /\ checkedAt' = [checkedAt EXCEPT ![r] = now]
  /\ UNCHANGED <<now, db, req, tx>>

CheckSurveyExpiry(r) ==
  LET s == req[r].survey IN
  /\ pc[r] = "expiry"
  /\ \/ survey[s].state # "live" /\ Goto(r, "notfound") /\ UNCHANGED checkedAt
     \/ survey[s].state = "live" /\ survey[s].expires <= now
        /\ Goto(r, "expired") /\ UNCHANGED checkedAt
     \/ survey[s].state = "live" /\ survey[s].expires > now
        /\ Goto(r, "find") /\ checkedAt' = [checkedAt EXCEPT ![r] = now]
  /\ UNCHANGED <<now, db, req, tx>>

FindSurvey(r) ==
  LET s == req[r].survey IN
  /\ pc[r] = "find"
  /\ IF survey[s].state = "live" /\ survey[s].assoc = req[r].assoc
     THEN Goto(r, "validate")
     ELSE Goto(r, "notfound")
  /\ UNCHANGED <<now, db, req, tx, checkedAt>>

\* Each entry is validated alone; two entries may name the same question.
ValidEntry(s, e) ==
  /\ SurveyOf[e.question] = s
  /\ e.question \in Single => Len(e.choices) = 1
  /\ Len(e.choices) # 0
  /\ \A j \in DOMAIN e.choices : QuestionOf[e.choices[j]] = e.question

ValidateChoices(r) ==
  /\ pc[r] = "validate"
  /\ IF \A i \in DOMAIN req[r].body : ValidEntry(req[r].survey, req[r].body[i])
     THEN Goto(r, "save")
     ELSE Goto(r, "error")
  /\ UNCHANGED <<now, db, req, tx, checkedAt>>

-----------------------------------------------------------------------------
(* SaveAnswers: one transaction, DELETE then INSERTs then COMMIT *)

\* Faulty: the WHERE clause lacks the user.
StoredFaulty(u, s) == {x \in answers : x.survey = s}

\* Committed rows of the user in the survey, as the DELETE's WHERE selects them.
Stored(u, s) == {x \in answers : x.user = u /\ x.survey = s}

\* Faulty: the DELETE covers the questions of the new submission only.
DeleteAnswersFaulty(r) ==
  /\ pc[r] = "save"
  /\ seen' = [seen EXCEPT ![r] = {x \in Stored(req[r].user, req[r].survey) :
                                   \E y \in RowsOf(r) : y.question = x.question}]
  /\ left' = [left EXCEPT ![r] = Positions(req[r].body)]
  /\ Goto(r, "lock")
  /\ UNCHANGED <<now, db, req, removed, added, checkedAt>>

\* The DELETE statement starts and takes its snapshot.
DeleteAnswers(r) ==
  /\ pc[r] = "save"
  /\ seen' = [seen EXCEPT ![r] = Stored(req[r].user, req[r].survey)]
  /\ left' = [left EXCEPT ![r] = Positions(req[r].body)]
  /\ Goto(r, "lock")
  /\ UNCHANGED <<now, db, req, removed, added, checkedAt>>

LockedByOther(r, x) == \E q \in Requests \ {r} : x \in removed[q]

\* Faulty: the DELETE runs outside the transaction.
DeleteRowFaulty(r, x) ==
  /\ pc[r] = "lock"
  /\ x \in seen[r]
  /\ seen' = [seen EXCEPT ![r] = @ \ {x}]
  /\ answers' = answers \ {x}
  /\ UNCHANGED <<now, survey, req, pc, removed, added, left, checkedAt>>

\* The DELETE locks and deletes a row of its snapshot.  It waits while another
\* transaction holds the row, and skips the row if that transaction deleted it.
DeleteRow(r, x) ==
  /\ pc[r] = "lock"
  /\ x \in seen[r]
  /\ ~LockedByOther(r, x)
  /\ seen' = [seen EXCEPT ![r] = @ \ {x}]
  /\ removed' = [removed EXCEPT ![r] = IF x \in answers THEN @ \cup {x} ELSE @]
  /\ UNCHANGED <<now, db, req, pc, added, left, checkedAt>>

DeleteDone(r) ==
  /\ pc[r] = "lock"
  /\ seen[r] = {}
  /\ Goto(r, "insert")
  /\ UNCHANGED <<now, db, req, tx, checkedAt>>

\* UNIQUE (user_id, question_id, choice_id)
SameKey(x, y) == x.user = y.user /\ x.question = y.question /\ x.choice = y.choice

\* Transactions whose end decides whether r may insert row x.
Blockers(r, x) ==
  {q \in Requests \ {r} : \E y \in added[q] \cup removed[q] : SameKey(x, y)}

\* x duplicates a row that is committed, or inserted by r itself, and not deleted by r.
Duplicate(r, x) ==
  \E y \in (answers \ removed[r]) \cup added[r] : SameKey(x, y)

Before(p, q) == p[1] < q[1] \/ (p[1] = q[1] /\ p[2] < q[2])
IsNext(r, p) == p \in left[r] /\ \A q \in left[r] : q = p \/ Before(p, q)

\* Faulty: a row that violates the unique index is skipped (ON CONFLICT DO NOTHING).
InsertRowFaulty(r, p) ==
  /\ pc[r] = "insert"
  /\ IsNext(r, p)
  /\ Blockers(r, Row(r, p)) = {}
  /\ added' = [added EXCEPT ![r] = IF Duplicate(r, Row(r, p)) THEN @ ELSE @ \cup {Row(r, p)}]
  /\ left' = [left EXCEPT ![r] = @ \ {p}]
  /\ UNCHANGED <<now, db, req, pc, seen, removed, checkedAt>>

InsertRow(r, p) ==
  /\ pc[r] = "insert"
  /\ IsNext(r, p)
  /\ Blockers(r, Row(r, p)) = {}
  /\ \/ /\ Duplicate(r, Row(r, p))
        /\ Finish(r, "error")
     \/ /\ ~Duplicate(r, Row(r, p))
        /\ added' = [added EXCEPT ![r] = @ \cup {Row(r, p)}]
        /\ left' = [left EXCEPT ![r] = @ \ {p}]
        /\ UNCHANGED <<pc, seen, removed>>
  /\ UNCHANGED <<now, db, req, checkedAt>>

\* COMMIT.  The caller sees an error if the connection is lost after the commit.
Commit(r, outcome) ==
  /\ pc[r] = "insert"
  /\ left[r] = {}
  /\ answers' = (answers \ removed[r]) \cup added[r]
  /\ Finish(r, outcome)
  /\ UNCHANGED <<now, survey, req, checkedAt>>

\* A failing query, a cancelled request or a crash of the server: the deferred
\* Rollback, or the database on the lost connection, undoes the transaction.
Abort(r) ==
  /\ pc[r] \in Steps
  /\ Finish(r, "error")
  /\ UNCHANGED <<now, db, req, checkedAt>>

WaitsFor(r) ==
  CASE pc[r] = "lock" -> {q \in Requests \ {r} : seen[r] \cap removed[q] # {}}
    [] pc[r] = "insert" -> UNION {Blockers(r, Row(r, p)) : p \in {p \in left[r] : IsNext(r, p)}}
    [] OTHER -> {}

\* PostgreSQL's deadlock detector cancels a transaction of a cycle of waiters.
DeadlockAbort(r) ==
  /\ InTx(r)
  /\ \E C \in SUBSET Requests :
       /\ r \in C
       /\ \A q \in C : WaitsFor(q) \cap C # {} /\ \E p \in C : q \in WaitsFor(p)
  /\ Finish(r, "error")
  /\ UNCHANGED <<now, db, req, checkedAt>>

-----------------------------------------------------------------------------
(* Deleting: Handler.Delete and Service.Delete *)

StartDelete(r, u, s) ==
  /\ pc[r] = "idle"
  /\ req' = [req EXCEPT ![r] = [op |-> "delete", user |-> u, survey |-> s]]
  /\ Goto(r, "findForDelete")
  /\ UNCHANGED <<now, db, tx, checkedAt>>

FindForDelete(r) ==
  LET s == req[r].survey
      u == req[r].user
  IN
  /\ pc[r] = "findForDelete"
  /\ IF survey[s].state = "live"
        /\ (u \in SystemAdmins \/ survey[s].assoc = HomeOf[u])
     THEN Goto(r, "softDelete")
     ELSE Goto(r, "notfound")
  /\ UNCHANGED <<now, db, req, tx, checkedAt>>

\* UPDATE ... WHERE deleted_at IS NULL; no row updated means not found.  The caller
\* sees an error if the connection is lost after the update.
SoftDelete(r) ==
  LET s == req[r].survey IN
  /\ pc[r] = "softDelete"
  /\ \/ /\ survey[s].state = "live"
        /\ survey' = [survey EXCEPT ![s].state = "deleted", ![s].deletedAt = now]
        /\ \E outcome \in {"ok", "error"} : Goto(r, outcome)
     \/ /\ survey[s].state # "live"
        /\ Goto(r, "notfound")
        /\ UNCHANGED survey
  /\ UNCHANGED <<now, answers, req, tx, checkedAt>>

-----------------------------------------------------------------------------
(* What the repository's queries return *)

\* is_answered of List and FindByID
IsAnswered(u, s) == Stored(u, s) # {}

\* the surveys CountUnanswered counts
Unanswered(a, u) ==
  {s \in Surveys : /\ survey[s].state = "live"
                   /\ survey[s].assoc = a
                   /\ survey[s].expires > now
                   /\ ~IsAnswered(u, s)}

-----------------------------------------------------------------------------

\* The steps the server or the database takes for a started request.
Proceed(r) ==
  \/ CheckSurveyExpiry(r) \/ FindSurvey(r) \/ ValidateChoices(r)
  \/ DeleteAnswers(r) \/ DeleteDone(r)
  \/ \E x \in seen[r] : DeleteRow(r, x)
  \/ \E p \in left[r] : InsertRow(r, p)
  \/ \E outcome \in {"ok", "error"} : Commit(r, outcome)
  \/ FindForDelete(r) \/ SoftDelete(r)
  \/ DeadlockAbort(r)

Next ==
  \/ Tick
  \/ \E u \in Users, a \in Assocs, s \in Surveys, e \in 1..MaxTime : Create(u, a, s, e)
  \/ \E r \in Requests :
       \/ \E u \in Users, a \in Assocs, s \in Surveys, body \in Bodies :
            StartAnswer(r, u, a, s, body)
       \/ \E u \in Users, s \in Surveys : StartDelete(r, u, s)
       \/ Proceed(r)
       \/ Abort(r)

\* The Go scheduler runs every handler and the database completes every
\* statement that does not wait; nobody is obliged to send a request.
Fairness == \A r \in Requests : WF_vars(Proceed(r))

Spec     == Init /\ [][Next]_vars
FairSpec == Spec /\ Fairness

-----------------------------------------------------------------------------
(* Correctness *)

AnswerReq == [op : {"answer"}, user : Users, assoc : Assocs, survey : Surveys,
              body : Bodies]
DeleteReq == [op : {"delete"}, user : Users, survey : Surveys]
SurveyRow == [state : {"live", "deleted"}, assoc : Assocs, expires : Nat,
              deletedAt : Nat]
AnswerRow == [survey : Surveys, user : Users, question : Questions,
              choice : Choices, by : Requests]

\* The type of every variable: the rows the tables of 005_surveys.sql hold and the
\* program counters of the handlers.
TypeOK ==
  /\ now \in 0..MaxTime
  /\ survey \in [Surveys -> SurveyRow \cup {Absent}]
  /\ answers \subseteq AnswerRow
  /\ req \in [Requests -> AnswerReq \cup DeleteReq \cup {NoReq}]
  /\ pc \in [Requests -> {"idle"} \cup Steps \cup Finished]
  /\ seen \in [Requests -> SUBSET AnswerRow]
  /\ removed \in [Requests -> SUBSET AnswerRow]
  /\ added \in [Requests -> SUBSET AnswerRow]
  /\ left \in [Requests -> SUBSET (Nat \X Nat)]
  /\ checkedAt \in [Requests -> 0..MaxTime]

IsAnswer(r) == req[r].op = "answer"
By(r) == {x \in answers : x.by = r}

\* A submission is stored completely or not at all, whatever other submissions of
\* the same user and whatever failures SaveAnswers meets.
SubmissionsIntact == \A r \in Requests : By(r) = {} \/ (IsAnswer(r) /\ By(r) = RowsOf(r))

\* A stored answer names a question of its survey and a choice of that question,
\* and its writer acted for the association the survey belongs to: what
\* ValidateChoices and the tenant check established still holds at the COMMIT.
AnswersFitSurvey ==
  \A x \in answers :
    /\ SurveyOf[x.question] = x.survey
    /\ QuestionOf[x.choice] = x.question
    /\ survey[x.survey].state # "absent"
    /\ req[x.by].assoc = survey[x.survey].assoc
    /\ x.user = req[x.by].user

\* SaveAnswers does not look at the survey again, so a row may be stored after the
\* survey expired or was deleted, but only by a request that CheckSurveyExpiry let
\* pass while the survey was live.
OnlyTimelyAnswers ==
  \A x \in answers :
    /\ checkedAt[x.by] < survey[x.survey].expires
    /\ survey[x.survey].state = "deleted" => checkedAt[x.by] <= survey[x.survey].deletedAt

\* Once a submission with an answer is acknowledged, the survey is never again
\* counted as unanswered for its user, unless the user submitted an empty body: a
\* later submission that fails does not lose the earlier one.
AckedStaysAnswered ==
  \A r \in Requests :
    (IsAnswer(r) /\ pc[r] = "ok" /\ RowsOf(r) # {}) =>
      \/ req[r].survey \notin Unanswered(req[r].assoc, req[r].user)
      \/ \E q \in Requests : /\ IsAnswer(q) /\ req[q].body = <<>>
                             /\ pc[q] \in {"ok", "error"}
                             /\ req[q].user = req[r].user /\ req[q].survey = req[r].survey

\* Of the requests that delete a survey, one at most is told it did.
OneDeletion ==
  \A q, r \in Requests :
    (q # r /\ req[q].op = "delete" /\ req[r].op = "delete" /\ pc[q] = "ok" /\ pc[r] = "ok")
      => req[q].survey # req[r].survey

\* A user's answers to a survey are those of one submission: SaveAnswers "replaces
\* the existing answers" (repository.go:213).
OneSubmission ==
  \A x, y \in answers : (x.user = y.user /\ x.survey = y.survey) => x.by = y.by

\* Every request that is sent is answered: no transaction waits forever.
EveryRequestAnswered ==
  \A r \in Requests : (pc[r] \in Steps) ~> (pc[r] \in Finished)

-----------------------------------------------------------------------------
(* Refinement *)

\* The stored rows without the submission that wrote them.
marks == {[survey |-> x.survey, user |-> x.user, question |-> x.question,
           choice |-> x.choice] : x \in answers}

Sheet == INSTANCE AnswerSheet WITH sheet <- marks

\* When a client waits for its answer and names no question twice, as the survey
\* screen does, the handlers and SaveAnswers implement the sheet of ballots.
ImplementsSheet == Sheet!Spec

=============================================================================
