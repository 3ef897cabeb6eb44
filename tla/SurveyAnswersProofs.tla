------------------------ MODULE SurveyAnswersProofs ------------------------
(***************************************************************************)
(* Proofs about SurveyAnswers, for every set of requests, users, surveys   *)
(* and bodies.                                                             *)
(***************************************************************************)
EXTENDS SurveyAnswers, TLAPS

Answering == {"expiry", "find", "validate", "save", "lock", "insert"}
Deleting  == {"findForDelete", "softDelete"}
Settled   == {"ok", "error"}

\* What a request is doing fits what it asked for.
OpOK ==
  \A r \in Requests :
    /\ pc[r] \in Answering => req[r] \in AnswerReq
    /\ pc[r] \in Deleting => req[r] \in DeleteReq

\* Only the statements of SaveAnswers keep transaction state; the rows inserted
\* so far are those of the positions already passed.
TxOK ==
  \A r \in Requests :
    /\ ~InTx(r) => removed[r] = {} /\ added[r] = {} /\ left[r] = {}
    /\ pc[r] # "lock" => seen[r] = {}
    /\ InTx(r) => /\ left[r] \subseteq Positions(req[r].body)
                  /\ added[r] = {Row(r, p) : p \in Positions(req[r].body) \ left[r]}

\* Rows that are stored, or were when a DELETE looked, have a writer that is done.
WriterDone ==
  /\ \A x \in answers : pc[x.by] \in Settled /\ req[x.by] \in AnswerReq
  /\ \A r \in Requests : \A x \in seen[r] \cup removed[r] : pc[x.by] \in Settled

\* An open transaction has deleted committed rows, and no row twice.
DeletesApart ==
  /\ \A r \in Requests : removed[r] \subseteq answers
  /\ \A q, r \in Requests : q # r => removed[q] \cap removed[r] = {}

\* A DELETE takes a submission whole: the snapshot of its statement holds all the
\* stored rows of a submission or none.
TakesWhole ==
  \A r, w \in Requests :
    \/ By(w) \subseteq seen[r] \cup removed[r]
    \/ By(w) \cap (seen[r] \cup removed[r]) = {}

\* The inductive invariant: a submission is stored whole because the DELETE of another one
\* takes it whole, from a snapshot in which its writer has committed.
IInv == /\ TypeOK /\ OpOK /\ TxOK /\ WriterDone /\ DeletesApart
        /\ TakesWhole /\ SubmissionsIntact

-----------------------------------------------------------------------------

\* A position of a body names an entry and a choice of it.
LEMMA PositionsTyped ==
  ASSUME NEW body \in Bodies, NEW p \in Positions(body)
  PROVE  /\ p \in Nat \X Nat
         /\ p[1] \in DOMAIN body
         /\ body[p[1]].question \in Questions
         /\ body[p[1]].choices[p[2]] \in Choices
<1>1. body \in Seq(Entry)
  BY Catalogue
<1>2. PICK i \in DOMAIN body : p \in {<<i, j>> : j \in DOMAIN body[i].choices}
  BY DEF Positions
<1>3. PICK j \in DOMAIN body[i].choices : p = <<i, j>>
  BY <1>2
<1>4. body[i] \in Entry
  BY <1>1
<1>5. body[i].question \in Questions /\ body[i].choices \in Seq(Choices)
  BY <1>4 DEF Entry
<1>6. i \in Nat /\ j \in Nat
  BY <1>1, <1>5
<1>. QED
  BY <1>3, <1>5, <1>6

\* The rows of an answer request are rows of survey_answers it wrote.
LEMMA RowTyped ==
  ASSUME NEW r \in Requests, req[r] \in AnswerReq, NEW p \in Positions(req[r].body)
  PROVE  Row(r, p) \in AnswerRow /\ Row(r, p).by = r
<1>1. req[r].body \in Bodies /\ req[r].survey \in Surveys /\ req[r].user \in Users
  BY DEF AnswerReq
<1>2. /\ req[r].body[p[1]].question \in Questions
      /\ req[r].body[p[1]].choices[p[2]] \in Choices
  BY <1>1, PositionsTyped
<1>. QED
  BY <1>1, <1>2 DEF Row, AnswerRow

LEMMA InitInv == Init => IInv
BY Catalogue DEF Init, IInv, TypeOK, OpOK, TxOK, WriterDone, DeletesApart, TakesWhole,
   SubmissionsIntact, By, InTx, NoReq, Absent, Answering, Deleting, Settled

-----------------------------------------------------------------------------

\* A step that keeps the tables' answers, the requests and the transactions, and
\* moves one request that is in no transaction to a step that is in none.
LEMMA QuietStep ==
  ASSUME IInv, NEW r \in Requests, NEW step \in Steps \cup Finished,
         pc' = [pc EXCEPT ![r] = step], pc[r] \in Steps, ~InTx(r),
         step \notin {"lock", "insert"},
         step \in Answering => req[r] \in AnswerReq,
         step \in Deleting => req[r] \in DeleteReq,
         UNCHANGED <<answers, req, seen, removed, added, left>>
  PROVE  OpOK' /\ TxOK' /\ WriterDone' /\ DeletesApart' /\ TakesWhole' /\ SubmissionsIntact'
<1>. USE DEF IInv
<1>1. pc \in [Requests -> {"idle"} \cup Steps \cup Finished]
  BY DEF TypeOK
<1>2. pc[r] \notin Settled
  BY DEF Steps, Settled
<1>3. OpOK'
  BY <1>1 DEF OpOK, Answering, Deleting, AnswerReq, DeleteReq
<1>4. TxOK'
  BY <1>1 DEF TxOK, InTx, Row
<1>5. WriterDone'
  BY <1>1, <1>2 DEF WriterDone, TypeOK, AnswerRow, AnswerReq
<1>6. DeletesApart'
  BY DEF DeletesApart
<1>7. TakesWhole' /\ SubmissionsIntact'
  BY DEF TakesWhole, SubmissionsIntact, By, IsAnswer, RowsOf, Row
<1>. QED
  BY <1>3, <1>4, <1>5, <1>6, <1>7

\* A request that has just arrived has written nothing and opens no transaction.
LEMMA StartStep ==
  ASSUME IInv, NEW r \in Requests, pc[r] = "idle",
         NEW what \in AnswerReq \cup DeleteReq, NEW step \in {"expiry", "findForDelete"},
         step = "expiry" <=> what \in AnswerReq,
         req' = [req EXCEPT ![r] = what], pc' = [pc EXCEPT ![r] = step],
         UNCHANGED <<answers, seen, removed, added, left>>
  PROVE  OpOK' /\ TxOK' /\ WriterDone' /\ DeletesApart' /\ TakesWhole' /\ SubmissionsIntact'
<1>. USE DEF IInv
<1>1. /\ pc \in [Requests -> {"idle"} \cup Steps \cup Finished]
      /\ req \in [Requests -> AnswerReq \cup DeleteReq \cup {NoReq}]
  BY DEF TypeOK
<1>2. \A q \in Requests : q # r => /\ req'[q] = req[q] /\ pc'[q] = pc[q]
                                   /\ RowsOf(q)' = RowsOf(q)
                                   /\ \A p : Row(q, p)' = Row(q, p)
  BY <1>1 DEF RowsOf, Row
<1>3. By(r) = {}
  BY DEF WriterDone, By, Settled
<1>4. OpOK'
  BY <1>1, <1>2 DEF OpOK, Answering, Deleting, AnswerReq, DeleteReq
<1>5. TxOK'
  BY <1>1, <1>2 DEF TxOK, InTx
<1>6. WriterDone'
  BY <1>1, <1>2 DEF WriterDone, TypeOK, AnswerRow, Settled
<1>7. DeletesApart'
  BY DEF DeletesApart
<1>8. TakesWhole'
  BY DEF TakesWhole, By
<1>9. SubmissionsIntact'
  BY <1>2, <1>3 DEF SubmissionsIntact, By, IsAnswer
<1>. QED
  BY <1>4, <1>5, <1>6, <1>7, <1>8, <1>9

\* A request that ends without a commit releases the rows it had locked.
LEMMA RollbackStep ==
  ASSUME IInv, NEW r \in Requests, NEW outcome \in Finished, pc[r] \in Steps,
         Finish(r, outcome), UNCHANGED <<answers, req>>
  PROVE  OpOK' /\ TxOK' /\ WriterDone' /\ DeletesApart' /\ TakesWhole' /\ SubmissionsIntact'
<1>. USE DEF IInv, Finish, Goto
<1>1. /\ pc \in [Requests -> {"idle"} \cup Steps \cup Finished]
      /\ seen \in [Requests -> SUBSET AnswerRow]
      /\ removed \in [Requests -> SUBSET AnswerRow]
      /\ added \in [Requests -> SUBSET AnswerRow]
      /\ left \in [Requests -> SUBSET (Nat \X Nat)]
  BY DEF TypeOK
<1>2. pc[r] \notin Settled /\ outcome \notin {"lock", "insert"}
  BY DEF Steps, Settled, Finished
<1>3. OpOK'
  BY <1>1 DEF OpOK, Answering, Deleting, AnswerReq, DeleteReq, Finished
<1>4. TxOK'
  BY <1>1, <1>2 DEF TxOK, InTx, Row
<1>5. WriterDone'
  BY <1>1, <1>2 DEF WriterDone, TypeOK, AnswerRow, AnswerReq
<1>6. DeletesApart'
  BY <1>1 DEF DeletesApart
<1>7. TakesWhole'
  BY <1>1 DEF TakesWhole, By
<1>8. SubmissionsIntact'
  BY DEF SubmissionsIntact, By, IsAnswer, RowsOf, Row
<1>. QED
  BY <1>3, <1>4, <1>5, <1>6, <1>7, <1>8

\* The snapshot of a DELETE: the stored rows of one user in one survey, which hold
\* every submission whole because a submission has one user and one survey.
LEMMA DeleteAnswersStep ==
  ASSUME IInv, NEW r \in Requests, DeleteAnswers(r)
  PROVE  OpOK' /\ TxOK' /\ WriterDone' /\ DeletesApart' /\ TakesWhole' /\ SubmissionsIntact'
<1>. USE DEF IInv, DeleteAnswers, Goto, db
<1>1. /\ pc \in [Requests -> {"idle"} \cup Steps \cup Finished]
      /\ seen \in [Requests -> SUBSET AnswerRow]
      /\ left \in [Requests -> SUBSET (Nat \X Nat)]
  BY DEF TypeOK
<1>2. pc[r] = "save" /\ removed[r] = {} /\ added[r] = {}
  BY DEF TxOK, InTx
<1>3. \A w \in Requests : \/ By(w) \subseteq Stored(req[r].user, req[r].survey)
                          \/ By(w) \cap Stored(req[r].user, req[r].survey) = {}
  BY DEF SubmissionsIntact, By, RowsOf, Row, Stored
<1>4. OpOK'
  BY <1>1, <1>2 DEF OpOK, Answering, Deleting, AnswerReq, DeleteReq
<1>5. TxOK'
  BY <1>1, <1>2 DEF TxOK, InTx, Row
<1>6. WriterDone'
  BY <1>1, <1>2 DEF WriterDone, TypeOK, AnswerRow, AnswerReq, Settled, Stored
<1>7. DeletesApart'
  BY DEF DeletesApart
<1>8. TakesWhole'
  BY <1>1, <1>2, <1>3 DEF TakesWhole, By
<1>9. SubmissionsIntact'
  BY DEF SubmissionsIntact, By, IsAnswer, RowsOf, Row
<1>. QED
  BY <1>4, <1>5, <1>6, <1>7, <1>8, <1>9

\* A row of the snapshot becomes a deleted row, or is gone already.
LEMMA DeleteRowStep ==
  ASSUME IInv, NEW r \in Requests, NEW x \in seen[r], DeleteRow(r, x)
  PROVE  OpOK' /\ TxOK' /\ WriterDone' /\ DeletesApart' /\ TakesWhole' /\ SubmissionsIntact'
<1>. USE DEF IInv, DeleteRow, db
<1>1. /\ seen \in [Requests -> SUBSET AnswerRow]
      /\ removed \in [Requests -> SUBSET AnswerRow]
      /\ seen' \in [Requests -> SUBSET AnswerRow]
      /\ removed' \in [Requests -> SUBSET AnswerRow]
  BY DEF TypeOK
<1>2. OpOK'
  BY DEF OpOK, AnswerReq, DeleteReq
<1>3. TxOK'
  BY <1>1 DEF TxOK, InTx, Row
<1>4. WriterDone'
  BY <1>1 DEF WriterDone, AnswerReq
<1>5. DeletesApart'
  BY <1>1 DEF DeletesApart, LockedByOther
<1>6. TakesWhole'
  <2>1. \A q \in Requests : /\ (seen[q] \cup removed[q]) \cap answers
                                 = (seen'[q] \cup removed'[q]) \cap answers
    BY <1>1
  <2>. QED
    BY <2>1 DEF TakesWhole, By
<1>7. SubmissionsIntact'
  BY DEF SubmissionsIntact, By, IsAnswer, RowsOf, Row
<1>. QED
  BY <1>2, <1>3, <1>4, <1>5, <1>6, <1>7

LEMMA DeleteDoneStep ==
  ASSUME IInv, NEW r \in Requests, DeleteDone(r)
  PROVE  OpOK' /\ TxOK' /\ WriterDone' /\ DeletesApart' /\ TakesWhole' /\ SubmissionsIntact'
<1>. USE DEF IInv, DeleteDone, Goto, db, tx
<1>1. pc \in [Requests -> {"idle"} \cup Steps \cup Finished]
  BY DEF TypeOK
<1>2. OpOK'
  BY <1>1 DEF OpOK, Answering, Deleting, AnswerReq, DeleteReq
<1>3. TxOK'
  BY <1>1 DEF TxOK, InTx, Row
<1>4. WriterDone'
  BY <1>1 DEF WriterDone, TypeOK, AnswerRow, AnswerReq, Settled
<1>5. DeletesApart'
  BY DEF DeletesApart
<1>6. TakesWhole' /\ SubmissionsIntact'
  BY DEF TakesWhole, SubmissionsIntact, By, IsAnswer, RowsOf, Row
<1>. QED
  BY <1>2, <1>3, <1>4, <1>5, <1>6

\* A successful INSERT moves one position from those left to those written.
LEMMA InsertStep ==
  ASSUME IInv, NEW r \in Requests, NEW p \in left[r], pc[r] = "insert",
         added' = [added EXCEPT ![r] = @ \cup {Row(r, p)}],
         left' = [left EXCEPT ![r] = @ \ {p}],
         UNCHANGED <<answers, req, pc, seen, removed>>
  PROVE  OpOK' /\ TxOK' /\ WriterDone' /\ DeletesApart' /\ TakesWhole' /\ SubmissionsIntact'
<1>. USE DEF IInv
<1>1. /\ added \in [Requests -> SUBSET AnswerRow]
      /\ left \in [Requests -> SUBSET (Nat \X Nat)]
  BY DEF TypeOK
<1>2. OpOK'
  BY DEF OpOK, AnswerReq, DeleteReq
<1>3. TxOK'
  <2>1. p \in Positions(req[r].body)
    BY DEF TxOK, InTx
  <2>2. \A q \in Requests : \A o : Row(q, o)' = Row(q, o)
    BY DEF Row
  <2>. QED
    BY <1>1, <2>1, <2>2 DEF TxOK, InTx
<1>4. WriterDone'
  BY DEF WriterDone, AnswerReq
<1>5. DeletesApart' /\ TakesWhole' /\ SubmissionsIntact'
  BY DEF DeletesApart, TakesWhole, SubmissionsIntact, By, IsAnswer, RowsOf, Row
<1>. QED
  BY <1>2, <1>3, <1>4, <1>5

\* The commit removes other submissions whole and adds the one of r whole.
LEMMA CommitStep ==
  ASSUME IInv, NEW r \in Requests, NEW outcome \in Settled, Commit(r, outcome)
  PROVE  OpOK' /\ TxOK' /\ WriterDone' /\ DeletesApart' /\ TakesWhole' /\ SubmissionsIntact'
<1>. USE DEF IInv, Commit, Finish, Goto
<1>1. /\ pc \in [Requests -> {"idle"} \cup Steps \cup Finished]
      /\ seen \in [Requests -> SUBSET AnswerRow]
      /\ removed \in [Requests -> SUBSET AnswerRow]
      /\ added \in [Requests -> SUBSET AnswerRow]
      /\ left \in [Requests -> SUBSET (Nat \X Nat)]
      /\ answers \subseteq AnswerRow
      /\ req' = req
  BY DEF TypeOK
<1>2. /\ outcome \notin {"lock", "insert"}
      /\ outcome \notin Answering \cup Deleting
      /\ pc[r] = "insert" /\ pc[r] \notin Settled
      /\ req[r] \in AnswerReq
  BY DEF Settled, Answering, Deleting, OpOK
<1>3. added[r] = RowsOf(r) /\ seen[r] = {}
  BY <1>2 DEF TxOK, InTx, RowsOf
<1>4. \A x \in added[r] : x.by = r
  BY <1>2, <1>3, RowTyped DEF RowsOf
<1>5. By(r) = {}
  BY <1>2 DEF By, WriterDone
<1>6. \A w \in Requests : /\ w = r => By(w)' = added[r]
                          /\ w # r => By(w)' = By(w) \ removed[r]
  BY <1>4, <1>5, <1>1 DEF By
<1>7. \A w \in Requests \ {r} : By(w)' = {} \/ By(w)' = By(w)
  BY <1>3, <1>6 DEF TakesWhole
<1>8. OpOK'
  BY <1>1, <1>2 DEF OpOK
<1>9. TxOK'
  BY <1>1, <1>2 DEF TxOK, InTx, Row
<1>10. WriterDone'
  <2>1. \A x \in answers' : pc'[x.by] \in Settled /\ req'[x.by] \in AnswerReq'
    <3>1. AnswerReq' = AnswerReq
      BY DEF AnswerReq
    <3>. QED
      BY <1>1, <1>2, <1>4, <3>1 DEF WriterDone, AnswerRow
  <2>2. \A q \in Requests : \A x \in seen'[q] \cup removed'[q] : pc'[x.by] \in Settled
    BY <1>1, <1>2 DEF WriterDone, AnswerRow
  <2>. QED
    BY <2>1, <2>2 DEF WriterDone
<1>11. DeletesApart'
  BY <1>1 DEF DeletesApart
<1>12. TakesWhole'
  <2> SUFFICES ASSUME NEW q \in Requests, NEW w \in Requests
               PROVE  \/ By(w)' \subseteq seen'[q] \cup removed'[q]
                      \/ By(w)' \cap (seen'[q] \cup removed'[q]) = {}
    BY DEF TakesWhole
  <2>1. CASE q = r
    BY <2>1, <1>1
  <2>2. CASE q # r /\ w # r
    BY <2>2, <1>1, <1>7 DEF TakesWhole
  <2>3. CASE q # r /\ w = r
    <3>1. \A x \in seen[q] \cup removed[q] : x.by # r
      BY <1>2 DEF WriterDone
    <3>. QED
      BY <2>3, <3>1, <1>1, <1>4, <1>6
  <2>. QED
    BY <2>1, <2>2, <2>3
<1>13. SubmissionsIntact'
  <2>1. \A w \in Requests : RowsOf(w)' = RowsOf(w) /\ IsAnswer(w)' = IsAnswer(w)
    BY <1>1 DEF RowsOf, Row, IsAnswer
  <2>2. IsAnswer(r)
    BY <1>2 DEF IsAnswer, AnswerReq
  <2>. QED
    BY <2>1, <2>2, <1>3, <1>6, <1>7 DEF SubmissionsIntact
<1>. QED
  BY <1>8, <1>9, <1>10, <1>11, <1>12, <1>13

-----------------------------------------------------------------------------

LEMMA FinishTyped ==
  ASSUME TypeOK, NEW r \in Requests, NEW outcome \in Finished, Finish(r, outcome)
  PROVE  /\ pc' \in [Requests -> {"idle"} \cup Steps \cup Finished]
         /\ seen' \in [Requests -> SUBSET AnswerRow]
         /\ removed' \in [Requests -> SUBSET AnswerRow]
         /\ added' \in [Requests -> SUBSET AnswerRow]
         /\ left' \in [Requests -> SUBSET (Nat \X Nat)]
BY DEF TypeOK, Finish, Goto

\* The statements of SaveAnswers keep every variable within its type.
LEMMA SaveTyped ==
  ASSUME IInv, NEW r \in Requests,
         \/ DeleteAnswers(r) \/ DeleteDone(r)
         \/ \E x \in seen[r] : DeleteRow(r, x)
         \/ \E p \in left[r] : InsertRow(r, p)
         \/ \E outcome \in Settled : Commit(r, outcome)
  PROVE  TypeOK'
<1>. USE DEF IInv, db, tx, Goto
<1>1. CASE DeleteAnswers(r)
  <2>1. req[r] \in AnswerReq
    BY <1>1 DEF DeleteAnswers, OpOK, Answering
  <2>2. Positions(req[r].body) \in SUBSET (Nat \X Nat)
    BY <2>1, PositionsTyped DEF AnswerReq
  <2>3. Stored(req[r].user, req[r].survey) \in SUBSET AnswerRow
    BY DEF TypeOK, Stored
  <2>. QED
    BY <1>1, <2>2, <2>3 DEF DeleteAnswers, TypeOK, Steps
<1>2. CASE DeleteDone(r)
  BY <1>2 DEF DeleteDone, TypeOK, Steps
<1>3. ASSUME NEW x \in seen[r], DeleteRow(r, x)
      PROVE  TypeOK'
  BY <1>3 DEF DeleteRow, TypeOK
<1>4. ASSUME NEW p \in left[r], InsertRow(r, p)
      PROVE  TypeOK'
  <2>1. req[r] \in AnswerReq /\ p \in Positions(req[r].body)
    BY <1>4 DEF InsertRow, OpOK, Answering, TxOK, InTx
  <2>2. Row(r, p) \in AnswerRow
    BY <2>1, RowTyped
  <2>3. CASE Finish(r, "error")
    BY <1>4, <2>3, FinishTyped DEF InsertRow, TypeOK, Finished
  <2>4. CASE ~Finish(r, "error")
    BY <1>4, <2>2, <2>4 DEF InsertRow, TypeOK
  <2>. QED
    BY <2>3, <2>4
<1>5. ASSUME NEW outcome \in Settled, Commit(r, outcome)
      PROVE  TypeOK'
  <2>1. outcome \in Finished
    BY DEF Settled, Finished
  <2>2. answers' \subseteq AnswerRow
    BY <1>5 DEF Commit, TypeOK
  <2>. QED
    BY <1>5, <2>1, <2>2, FinishTyped DEF Commit, TypeOK
<1>. QED
  BY <1>1, <1>2, <1>3, <1>4, <1>5

\* The steps of one request keep the inductive invariant.
LEMMA RequestInv ==
  ASSUME IInv, NEW r \in Requests, Proceed(r) \/ Abort(r)
  PROVE  IInv'
<1>. USE DEF db, tx, Goto
<1>0. TypeOK /\ pc \in [Requests -> {"idle"} \cup Steps \cup Finished]
  BY DEF IInv, TypeOK
<1>1. CASE CheckSurveyExpiry(r)
  <2>. USE <1>1 DEF CheckSurveyExpiry
  <2>1. TypeOK'
    BY <1>0 DEF TypeOK, Steps, Finished
  <2>2. req[r] \in AnswerReq
    BY DEF IInv, OpOK, Answering
  <2>3. PICK step \in {"notfound", "expired", "find"} : pc' = [pc EXCEPT ![r] = step]
    OBVIOUS
  <2>. QED
    BY <2>1, <2>2, <2>3, QuietStep DEF IInv, InTx, Steps, Finished, Deleting
<1>2. CASE FindSurvey(r)
  <2>. USE <1>2 DEF FindSurvey
  <2>1. TypeOK'
    BY <1>0 DEF TypeOK, Steps, Finished
  <2>2. req[r] \in AnswerReq
    BY DEF IInv, OpOK, Answering
  <2>3. PICK step \in {"notfound", "validate"} : pc' = [pc EXCEPT ![r] = step]
    OBVIOUS
  <2>. QED
    BY <2>1, <2>2, <2>3, QuietStep DEF IInv, InTx, Steps, Finished, Deleting
<1>3. CASE ValidateChoices(r)
  <2>. USE <1>3 DEF ValidateChoices
  <2>1. TypeOK'
    BY <1>0 DEF TypeOK, Steps, Finished
  <2>2. req[r] \in AnswerReq
    BY DEF IInv, OpOK, Answering
  <2>3. PICK step \in {"error", "save"} : pc' = [pc EXCEPT ![r] = step]
    OBVIOUS
  <2>. QED
    BY <2>1, <2>2, <2>3, QuietStep DEF IInv, InTx, Steps, Finished, Deleting
<1>4. CASE FindForDelete(r)
  <2>. USE <1>4 DEF FindForDelete
  <2>1. TypeOK'
    BY <1>0 DEF TypeOK, Steps, Finished
  <2>2. req[r] \in DeleteReq
    BY DEF IInv, OpOK, Deleting
  <2>3. PICK step \in {"notfound", "softDelete"} : pc' = [pc EXCEPT ![r] = step]
    OBVIOUS
  <2>. QED
    BY <2>1, <2>2, <2>3, QuietStep DEF IInv, InTx, Steps, Finished, Answering
<1>5. CASE SoftDelete(r)
  <2>. USE <1>5 DEF SoftDelete
  <2>1. TypeOK'
    <3>1. pc' \in [Requests -> {"idle"} \cup Steps \cup Finished]
      BY <1>0 DEF Finished
    <3>2. survey' \in [Surveys -> SurveyRow \cup {Absent}]
      BY <1>0 DEF TypeOK, SurveyRow, Absent
    <3>. QED
      BY <1>0, <3>1, <3>2 DEF TypeOK
  <2>2. PICK step \in {"notfound", "ok", "error"} : pc' = [pc EXCEPT ![r] = step]
    OBVIOUS
  <2>. QED
    BY <2>1, <2>2, QuietStep DEF IInv, InTx, Steps, Finished, Answering, Deleting
<1>6. CASE DeleteAnswers(r)
  BY <1>6, SaveTyped, DeleteAnswersStep DEF IInv
<1>7. CASE DeleteDone(r)
  BY <1>7, SaveTyped, DeleteDoneStep DEF IInv
<1>8. ASSUME NEW x \in seen[r], DeleteRow(r, x)
      PROVE  IInv'
  BY <1>8, SaveTyped, DeleteRowStep DEF IInv
<1>9. ASSUME NEW p \in left[r], InsertRow(r, p)
      PROVE  IInv'
  <2>1. TypeOK'
    BY <1>9, SaveTyped
  <2>2. CASE Finish(r, "error")
    BY <1>9, <2>1, <2>2, RollbackStep DEF IInv, InsertRow, Steps, Finished
  <2>3. CASE ~Finish(r, "error")
    BY <1>9, <2>1, <2>3, InsertStep DEF IInv, InsertRow
  <2>. QED
    BY <2>2, <2>3
<1>10. ASSUME NEW outcome \in Settled, Commit(r, outcome)
       PROVE  IInv'
  BY <1>10, SaveTyped, CommitStep DEF IInv
<1>11. CASE Abort(r) \/ DeadlockAbort(r)
  <2>1. pc[r] \in Steps /\ Finish(r, "error") /\ UNCHANGED <<now, db, req, checkedAt>>
    BY <1>11 DEF Abort, DeadlockAbort, InTx, Steps
  <2>2. TypeOK'
    BY <2>1, <1>0, FinishTyped DEF TypeOK, Finished
  <2>. QED
    BY <2>1, <2>2, RollbackStep DEF IInv, Finished
<1>. QED
  BY <1>1, <1>2, <1>3, <1>4, <1>5, <1>6, <1>7, <1>8, <1>9, <1>10, <1>11
     DEF Proceed, Settled

LEMMA StepInv == IInv /\ [Next]_vars => IInv'
<1> SUFFICES ASSUME IInv, [Next]_vars
             PROVE  IInv'
  OBVIOUS
<1>. USE DEF db, tx, Goto
<1>0. TypeOK
  BY DEF IInv
<1>1. ASSUME Tick \/ (\E u \in Users, a \in Assocs, s \in Surveys, e \in 1..MaxTime :
                         Create(u, a, s, e))
      PROVE  IInv'
  <2>1. UNCHANGED <<answers, req, pc, seen, removed, added, left, checkedAt>>
    BY <1>1 DEF Tick, Create
  <2>2. now' \in 0..MaxTime /\ survey' \in [Surveys -> SurveyRow \cup {Absent}]
    <3>1. CASE Tick
      BY <3>1, <1>0, Catalogue DEF Tick, TypeOK
    <3>2. ASSUME NEW u \in Users, NEW a \in Assocs, NEW s \in Surveys, NEW e \in 1..MaxTime,
                 Create(u, a, s, e)
          PROVE  now' \in 0..MaxTime /\ survey' \in [Surveys -> SurveyRow \cup {Absent}]
      <4>1. [state |-> "live", assoc |-> a, expires |-> e, deletedAt |-> 0] \in SurveyRow
        BY Catalogue DEF SurveyRow
      <4>. QED
        BY <3>2, <4>1, <1>0 DEF Create, TypeOK
    <3>. QED
      BY <1>1, <3>1, <3>2
  <2>. QED
    BY <2>1, <2>2 DEF IInv, TypeOK, OpOK, TxOK, WriterDone, DeletesApart, TakesWhole,
         SubmissionsIntact, By, InTx, IsAnswer, RowsOf, Row, AnswerReq, DeleteReq
<1>2. ASSUME NEW r \in Requests, NEW u \in Users, NEW a \in Assocs, NEW s \in Surveys,
             NEW body \in Bodies, StartAnswer(r, u, a, s, body)
      PROVE  IInv'
  <2> DEFINE what == [op |-> "answer", user |-> u, assoc |-> a, survey |-> s, body |-> body]
  <2>1. what \in AnswerReq
    BY DEF AnswerReq
  <2>2. TypeOK'
    BY <1>0, <1>2, <2>1 DEF StartAnswer, TypeOK, Steps
  <2>. QED
    BY <1>2, <2>1, <2>2, StartStep DEF StartAnswer, IInv
<1>3. ASSUME NEW r \in Requests, NEW u \in Users, NEW s \in Surveys, StartDelete(r, u, s)
      PROVE  IInv'
  <2> DEFINE what == [op |-> "delete", user |-> u, survey |-> s]
  <2>1. what \in DeleteReq /\ what \notin AnswerReq
    BY DEF AnswerReq, DeleteReq
  <2>2. TypeOK'
    BY <1>0, <1>3, <2>1 DEF StartDelete, TypeOK, Steps
  <2>. QED
    BY <1>3, <2>1, <2>2, StartStep DEF StartDelete, IInv
<1>4. ASSUME NEW r \in Requests, Proceed(r) \/ Abort(r)
      PROVE  IInv'
  BY <1>4, RequestInv
<1>5. CASE UNCHANGED vars
  BY <1>5 DEF vars, IInv, TypeOK, OpOK, TxOK, WriterDone, DeletesApart, TakesWhole,
       SubmissionsIntact, By, InTx, IsAnswer, RowsOf, Row, AnswerReq, DeleteReq
<1>. QED
  BY <1>1, <1>2, <1>3, <1>4, <1>5 DEF Next

\* The inductive invariant holds in every reachable state.
THEOREM Invariance == Spec => []IInv
BY InitInv, StepInv, PTL DEF Spec

\* Every variable of the survey handlers keeps its type.
THEOREM TypeCorrect == Spec => []TypeOK
BY Invariance, PTL DEF IInv

\* A submission is stored completely or not at all, for any number of concurrent
\* submissions of the same user.
THEOREM StoredWhole == Spec => []SubmissionsIntact
BY Invariance, PTL DEF IInv

-----------------------------------------------------------------------------
(* What the checks before the transaction established holds at the commit *)

Checked   == Answering \ {"expiry"}
Found     == Checked \ {"find"}
Validated == Found \ {"validate"}
Wrote(r)  == By(r) # {}

\* The survey was live and open when the expiry was checked, and stays what it was
\* but for a deletion after the check.
PassedExpiry(r) ==
  LET s == req[r].survey IN
  /\ survey[s].state # "absent"
  /\ checkedAt[r] < survey[s].expires
  /\ survey[s].state = "deleted" => checkedAt[r] <= survey[s].deletedAt

AdmissionInv ==
  \A r \in Requests :
    /\ checkedAt[r] <= now
    /\ (pc[r] \in Checked \/ Wrote(r)) => PassedExpiry(r)
    /\ (pc[r] \in Found \/ Wrote(r)) => survey[req[r].survey].assoc = req[r].assoc
    /\ (pc[r] \in Validated \/ Wrote(r)) =>
         \A i \in DOMAIN req[r].body : ValidEntry(req[r].survey, req[r].body[i])

\* A request whose row is stored wrote all its rows, and they fit the survey.
LEMMA AdmissionImplies ==
  ASSUME IInv, AdmissionInv
  PROVE  AnswersFitSurvey /\ OnlyTimelyAnswers
<1> SUFFICES ASSUME NEW x \in answers
             PROVE  /\ SurveyOf[x.question] = x.survey
                    /\ QuestionOf[x.choice] = x.question
                    /\ survey[x.survey].state # "absent"
                    /\ req[x.by].assoc = survey[x.survey].assoc
                    /\ x.user = req[x.by].user
                    /\ checkedAt[x.by] < survey[x.survey].expires
                    /\ survey[x.survey].state = "deleted" =>
                         checkedAt[x.by] <= survey[x.survey].deletedAt
  BY DEF AnswersFitSurvey, OnlyTimelyAnswers
<1>1. x.by \in Requests /\ req[x.by] \in AnswerReq /\ Wrote(x.by)
  BY DEF IInv, TypeOK, AnswerRow, WriterDone, Wrote, By
<1>2. x \in RowsOf(x.by)
  BY <1>1 DEF IInv, SubmissionsIntact, Wrote, By
<1>3. PICK p \in Positions(req[x.by].body) : x = Row(x.by, p)
  BY <1>2 DEF RowsOf
<1>4. /\ x.survey = req[x.by].survey /\ x.user = req[x.by].user
      /\ x.question = req[x.by].body[p[1]].question
      /\ x.choice = req[x.by].body[p[1]].choices[p[2]]
  BY <1>3 DEF Row
<1>5. p[1] \in DOMAIN req[x.by].body /\ p[2] \in DOMAIN req[x.by].body[p[1]].choices
  BY DEF Positions
<1>6. ValidEntry(req[x.by].survey, req[x.by].body[p[1]])
  BY <1>1, <1>5 DEF AdmissionInv
<1>. QED
  BY <1>1, <1>4, <1>5, <1>6 DEF AdmissionInv, PassedExpiry, ValidEntry

\* Who has stored rows changes with a commit only.
LEMMA WroteStep ==
  ASSUME IInv, [Next]_vars, NEW r \in Requests, Wrote(r)'
  PROVE  Wrote(r) \/ pc[r] = "insert"
<1>1. CASE answers' = answers
  BY <1>1 DEF Wrote, By
<1>2. CASE answers' # answers
  <2>1. PICK q \in Requests, outcome \in {"ok", "error"} : Commit(q, outcome)
    BY <1>2 DEF Next, vars, db, tx, Tick, Create, StartAnswer, StartDelete, Abort, Proceed,
         CheckSurveyExpiry, FindSurvey, ValidateChoices, DeleteAnswers, DeleteDone, DeleteRow,
         InsertRow, FindForDelete, SoftDelete, DeadlockAbort
  <2>2. CASE q = r
    BY <2>1, <2>2 DEF Commit
  <2>3. CASE q # r
    <3>1. added[q] = RowsOf(q) /\ req[q] \in AnswerReq
      BY <2>1 DEF Commit, IInv, TxOK, OpOK, InTx, Answering, RowsOf
    <3>2. \A x \in added[q] : x.by = q
      BY <3>1, RowTyped DEF RowsOf
    <3>. QED
      BY <2>1, <2>3, <3>2 DEF Commit, Wrote, By
  <2>. QED
    BY <2>2, <2>3
<1>. QED
  BY <1>1, <1>2

\* A request that has started keeps what it asked for.
LEMMA RequestKept ==
  ASSUME IInv, [Next]_vars, NEW r \in Requests, pc[r] # "idle"
  PROVE  req'[r] = req[r]
<1>. USE DEF db, tx
<1>1. ASSUME NEW q \in Requests, Proceed(q) \/ Abort(q)
      PROVE  req' = req
  BY <1>1 DEF Proceed, Abort, CheckSurveyExpiry, FindSurvey, ValidateChoices, DeleteAnswers,
       DeleteDone, DeleteRow, InsertRow, Commit, FindForDelete, SoftDelete, DeadlockAbort
<1>2. ASSUME NEW q \in Requests, NEW u \in Users, NEW a \in Assocs, NEW s \in Surveys,
             NEW body \in Bodies, StartAnswer(q, u, a, s, body)
      PROVE  req'[r] = req[r]
  BY <1>2 DEF StartAnswer, IInv, TypeOK
<1>3. ASSUME NEW q \in Requests, NEW u \in Users, NEW s \in Surveys, StartDelete(q, u, s)
      PROVE  req'[r] = req[r]
  BY <1>3 DEF StartDelete, IInv, TypeOK
<1>. QED
  BY <1>1, <1>2, <1>3 DEF Next, vars, Tick, Create

\* A survey that exists keeps its association and expiry; it changes by a deletion,
\* which is stamped with the time.
LEMMA SurveyKept ==
  ASSUME IInv, [Next]_vars, NEW s \in Surveys, survey[s].state # "absent"
  PROVE  /\ survey'[s].state # "absent"
         /\ survey'[s].assoc = survey[s].assoc
         /\ survey'[s].expires = survey[s].expires
         /\ survey'[s].state = "deleted" =>
              \/ survey[s].state = "deleted" /\ survey'[s].deletedAt = survey[s].deletedAt
              \/ survey'[s].deletedAt = now /\ now' = now
<1>1. CASE survey' = survey
  BY <1>1
<1>2. CASE survey' # survey
  <2>1. \/ \E u \in Users, a \in Assocs, t \in Surveys, e \in 1..MaxTime : Create(u, a, t, e)
        \/ \E r \in Requests : SoftDelete(r)
    BY <1>2 DEF Next, vars, db, tx, Tick, StartAnswer, StartDelete, Abort, Proceed,
         CheckSurveyExpiry, FindSurvey, ValidateChoices, DeleteAnswers, DeleteDone, DeleteRow,
         InsertRow, Commit, FindForDelete, DeadlockAbort
  <2>2. ASSUME NEW u \in Users, NEW a \in Assocs, NEW t \in Surveys, NEW e \in 1..MaxTime,
               Create(u, a, t, e)
        PROVE  survey'[s] = survey[s] /\ t # s
    BY <2>2 DEF Create, IInv, TypeOK
  <2>3. ASSUME NEW r \in Requests, SoftDelete(r)
        PROVE  /\ now' = now
               /\ \/ survey'[s] = survey[s]
                  \/ survey'[s] = [survey[s] EXCEPT !.state = "deleted", !.deletedAt = now]
    BY <2>3 DEF SoftDelete, IInv, TypeOK
  <2>4. survey[s] \in SurveyRow
    BY DEF IInv, TypeOK, Absent
  <2>. QED
    BY <2>1, <2>2, <2>3, <2>4 DEF SurveyRow
<1>. QED
  BY <1>1, <1>2

\* Nobody else moves a request.
LEMMA OwnStep ==
  ASSUME IInv, [Next]_vars, NEW r \in Requests, pc'[r] # pc[r]
  PROVE  \/ /\ pc[r] = "idle"
            /\ \/ /\ pc'[r] = "expiry"
                  /\ \E u \in Users, a \in Assocs, s \in Surveys, body \in Bodies :
                       StartAnswer(r, u, a, s, body)
               \/ pc'[r] = "findForDelete"
         \/ Proceed(r)
         \/ Abort(r)
<1>. USE DEF db, tx, Goto
<1>1. pc \in [Requests -> {"idle"} \cup Steps \cup Finished]
  BY DEF IInv, TypeOK
<1>2. PICK q \in Requests :
        \/ \E u \in Users, a \in Assocs, s \in Surveys, body \in Bodies :
             StartAnswer(q, u, a, s, body)
        \/ \E u \in Users, s \in Surveys : StartDelete(q, u, s)
        \/ Proceed(q)
        \/ Abort(q)
  BY DEF Next, vars, Tick, Create
<1>3. q # r => pc'[r] = pc[r]
  BY <1>1, <1>2 DEF StartAnswer, StartDelete, Abort, Proceed, CheckSurveyExpiry, FindSurvey,
       ValidateChoices, DeleteAnswers, DeleteDone, DeleteRow, InsertRow, Commit, FindForDelete,
       SoftDelete, DeadlockAbort, Finish
<1>. QED
  BY <1>1, <1>2, <1>3 DEF StartAnswer, StartDelete

LEMMA AdmissionInit == Init => AdmissionInv
BY DEF Init, AdmissionInv, Checked, Found, Validated, Answering, Wrote, By

\* The check each step of Answer makes, and what keeps it true.
LEMMA AdmissionStep == IInv /\ AdmissionInv /\ [Next]_vars => AdmissionInv'
<1> SUFFICES ASSUME IInv, AdmissionInv, [Next]_vars, NEW r \in Requests
             PROVE  AdmissionInv!(r)'
  BY DEF AdmissionInv
<1>. USE DEF db, tx, Goto
<1>0. /\ now \in Nat /\ now' \in Nat /\ now <= now' /\ checkedAt[r] \in Nat
      /\ pc \in [Requests -> {"idle"} \cup Steps \cup Finished]
      /\ checkedAt \in [Requests -> 0..MaxTime]
      /\ survey \in [Surveys -> SurveyRow \cup {Absent}]
      /\ checkedAt[r] <= now
  <2>1. IInv'
    BY StepInv
  <2>2. now' = now \/ now' = now + 1
    BY DEF Next, vars, Tick, Create, StartAnswer, StartDelete, Abort, Proceed,
         CheckSurveyExpiry, FindSurvey, ValidateChoices, DeleteAnswers, DeleteDone, DeleteRow,
         InsertRow, Commit, FindForDelete, SoftDelete, DeadlockAbort
  <2>. QED
    BY <2>1, <2>2, Catalogue DEF IInv, TypeOK, AdmissionInv
\* Every step but the three checks leaves r where it stands, or takes it further
\* from a point where the condition is known.
<1>1. CASE CheckSurveyExpiry(r) /\ pc'[r] = "find"
  <2>1. /\ survey' = survey /\ req' = req /\ now' = now /\ answers' = answers
        /\ survey[req[r].survey].state = "live" /\ survey[req[r].survey].expires > now
        /\ checkedAt'[r] = now /\ pc[r] = "expiry"
    BY <1>0, <1>1 DEF CheckSurveyExpiry
  <2>2. ~Wrote(r)'
    BY <2>1 DEF Wrote, By, IInv, WriterDone, Settled
  <2>. QED
    BY <1>0, <1>1, <2>1, <2>2 DEF PassedExpiry, Checked, Found, Validated, SurveyRow
<1>2. CASE FindSurvey(r) /\ pc'[r] = "validate"
  <2>1. /\ survey' = survey /\ req' = req /\ now' = now /\ answers' = answers
        /\ checkedAt' = checkedAt /\ pc[r] = "find"
        /\ survey[req[r].survey].assoc = req[r].assoc
    BY <1>0, <1>2 DEF FindSurvey
  <2>2. ~Wrote(r)'
    BY <2>1 DEF Wrote, By, IInv, WriterDone, Settled
  <2>. QED
    BY <1>0, <1>2, <2>1, <2>2 DEF AdmissionInv, PassedExpiry, Checked, Found, Validated, Answering
<1>3. CASE ValidateChoices(r) /\ pc'[r] = "save"
  <2>1. /\ survey' = survey /\ req' = req /\ now' = now /\ answers' = answers
        /\ checkedAt' = checkedAt /\ pc[r] = "validate"
        /\ \A i \in DOMAIN req[r].body : ValidEntry(req[r].survey, req[r].body[i])
    BY <1>0, <1>3 DEF ValidateChoices
  <2>. QED
    BY <1>0, <1>3, <2>1 DEF AdmissionInv, PassedExpiry, Checked, Found, Validated, Answering,
         Wrote, By, ValidEntry
<1>4. ASSUME ~(CheckSurveyExpiry(r) /\ pc'[r] = "find"),
             ~(FindSurvey(r) /\ pc'[r] = "validate"),
             ~(ValidateChoices(r) /\ pc'[r] = "save")
      PROVE  AdmissionInv!(r)'
  <2>1. /\ pc'[r] \in Checked => pc[r] \in Checked
        /\ pc'[r] \in Found => pc[r] \in Found
        /\ pc'[r] \in Validated => pc[r] \in Validated
    <3>1. CASE pc'[r] = pc[r]
      BY <3>1
    <3>2. CASE pc'[r] # pc[r]
      <4>1. pc'[r] \in Checked => Proceed(r)
        BY <1>0, <3>2, OwnStep DEF Abort, Finish, Checked, Answering
      <4>2. SUFFICES ASSUME Proceed(r), pc'[r] \in Checked
                     PROVE  /\ pc[r] \in Checked
                            /\ pc'[r] \in Found => pc[r] \in Found
                            /\ pc'[r] \in Validated => pc[r] \in Validated
        BY <4>1 DEF Found, Validated
      <4>. QED
        BY <1>0, <1>4, <4>2 DEF Proceed, CheckSurveyExpiry, FindSurvey, ValidateChoices,
             DeleteAnswers, DeleteDone, DeleteRow, InsertRow, Commit, FindForDelete, SoftDelete,
             DeadlockAbort, Finish, Checked, Found, Validated, Answering
    <3>. QED
      BY <3>1, <3>2
  <2>2. checkedAt'[r] = checkedAt[r]
    <3>1. CASE \E q \in Requests : CheckSurveyExpiry(q)
      BY <1>0, <1>4, <3>1 DEF CheckSurveyExpiry
    <3>2. CASE ~\E q \in Requests : CheckSurveyExpiry(q)
      BY <3>2 DEF Next, vars, Tick, Create, StartAnswer, StartDelete, Abort, Proceed,
           FindSurvey, ValidateChoices, DeleteAnswers, DeleteDone, DeleteRow,
           InsertRow, Commit, FindForDelete, SoftDelete, DeadlockAbort
    <3>. QED
      BY <3>1, <3>2
  <2>3. Wrote(r)' => Wrote(r) \/ pc[r] \in Validated
    BY WroteStep DEF Validated, Found, Checked, Answering
  <2>4. CASE ~(pc[r] \in Checked \/ Wrote(r))
    BY <1>0, <1>4, <2>1, <2>2, <2>3, <2>4 DEF Found, Validated
  <2>5. CASE pc[r] \in Checked \/ Wrote(r)
    <3>1. req[r] \in AnswerReq /\ pc[r] # "idle"
      BY <2>5 DEF IInv, OpOK, Checked, Wrote, By, WriterDone, Settled, Answering
    <3>2. req'[r] = req[r] /\ req[r].survey \in Surveys
      BY <3>1, RequestKept DEF AnswerReq
    <3>3. PassedExpiry(r)
      BY <2>5 DEF AdmissionInv
    <3>4. /\ survey'[req[r].survey].state # "absent"
          /\ survey'[req[r].survey].assoc = survey[req[r].survey].assoc
          /\ survey'[req[r].survey].expires = survey[req[r].survey].expires
      BY <3>2, <3>3, SurveyKept DEF PassedExpiry
    <3>5. PassedExpiry(r)'
      BY <1>0, <1>4, <2>2, <3>2, <3>3, <3>4, SurveyKept DEF PassedExpiry
    <3>. QED
      BY <1>0, <1>4, <2>1, <2>2, <2>3, <3>2, <3>4, <3>5 DEF AdmissionInv, ValidEntry, Found, Validated
  <2>. QED
    BY <2>4, <2>5
<1>. QED
  BY <1>1, <1>2, <1>3, <1>4

\* Every stored answer fits its survey and the tenant its writer acted for, and was
\* written by a request whose expiry check found the survey open.
THEOREM AnswersAdmitted == Spec => [](AnswersFitSurvey /\ OnlyTimelyAnswers)
<1>1. IInv /\ AdmissionInv /\ [Next]_vars => AdmissionInv'
  BY AdmissionStep
<1>2. IInv /\ AdmissionInv => AnswersFitSurvey /\ OnlyTimelyAnswers
  BY AdmissionImplies
<1>. QED
  BY <1>1, <1>2, AdmissionInit, Invariance, PTL DEF Spec

-----------------------------------------------------------------------------
(* Deletions *)

DeletionInv ==
  /\ \A r \in Requests :
       (req[r].op = "delete" /\ pc[r] = "ok") => survey[req[r].survey].state = "deleted"
  /\ OneDeletion

\* A request that has ended stays ended.
LEMMA EndedStays ==
  ASSUME IInv, [Next]_vars, NEW r \in Requests, pc[r] \in Finished
  PROVE  pc'[r] = pc[r] /\ req'[r] = req[r]
<1>1. ~Proceed(r) /\ ~Abort(r)
  BY DEF Proceed, Abort, CheckSurveyExpiry, FindSurvey, ValidateChoices, DeleteAnswers,
     DeleteDone, DeleteRow, InsertRow, Commit, FindForDelete, SoftDelete, DeadlockAbort,
     InTx, Finished, Steps
<1>. QED
  BY <1>1, OwnStep, RequestKept DEF Finished

\* A request becomes "ok" by a commit of its answers or by its UPDATE.
LEMMA OkStep ==
  ASSUME IInv, [Next]_vars, NEW r \in Requests, pc'[r] = "ok", pc[r] # "ok"
  PROVE  /\ req'[r] = req[r]
         /\ \/ Commit(r, "ok")
            \/ SoftDelete(r) /\ survey[req[r].survey].state = "live"
<1>. USE DEF db, tx, Goto
<1>1. pc \in [Requests -> {"idle"} \cup Steps \cup Finished]
  BY DEF IInv, TypeOK
<1>2. Proceed(r)
  BY <1>1, OwnStep DEF Abort, Finish
<1>3. pc[r] # "idle"
  BY <1>2 DEF Proceed, CheckSurveyExpiry, FindSurvey, ValidateChoices, DeleteAnswers,
     DeleteDone, DeleteRow, InsertRow, Commit, FindForDelete, SoftDelete, DeadlockAbort, InTx
<1>4. req'[r] = req[r]
  BY <1>3, RequestKept
<1>5. \/ \E outcome \in {"ok", "error"} : Commit(r, outcome)
      \/ SoftDelete(r)
  BY <1>1, <1>2 DEF Proceed, CheckSurveyExpiry, FindSurvey, ValidateChoices, DeleteAnswers,
     DeleteDone, DeleteRow, InsertRow, FindForDelete, DeadlockAbort, Finish
<1>6. ASSUME NEW outcome \in {"ok", "error"}, Commit(r, outcome)
      PROVE  outcome = "ok"
  BY <1>1, <1>6 DEF Commit, Finish
<1>7. SoftDelete(r) => survey[req[r].survey].state = "live"
  BY <1>1 DEF SoftDelete
<1>. QED
  BY <1>4, <1>5, <1>6, <1>7

LEMMA DeletionStep == IInv /\ DeletionInv /\ [Next]_vars => DeletionInv'
<1> SUFFICES ASSUME IInv, DeletionInv, [Next]_vars
             PROVE  DeletionInv'
  OBVIOUS
<1>. USE DEF db, tx, Goto
<1>1. /\ pc \in [Requests -> {"idle"} \cup Steps \cup Finished]
      /\ survey \in [Surveys -> SurveyRow \cup {Absent}]
  BY DEF IInv, TypeOK
<1>2. ASSUME NEW r \in Requests, req'[r].op = "delete", pc'[r] = "ok", pc[r] # "ok"
      PROVE  /\ SoftDelete(r) /\ req'[r] = req[r]
             /\ req[r].survey \in Surveys /\ survey[req[r].survey].state = "live"
             /\ survey'[req[r].survey].state = "deleted"
  <2>1. req'[r] = req[r] /\ ~Commit(r, "ok")
    BY <1>2, OkStep DEF Commit, IInv, OpOK, Answering, AnswerReq
  <2>2. SoftDelete(r) /\ survey[req[r].survey].state = "live"
    BY <1>2, <2>1, OkStep
  <2>3. req[r].survey \in Surveys
    BY <2>2 DEF SoftDelete, IInv, OpOK, Deleting, DeleteReq
  <2>. QED
    BY <1>1, <2>1, <2>2, <2>3 DEF SoftDelete, SurveyRow, Absent
<1>3. ASSUME NEW r \in Requests, req'[r].op = "delete", pc'[r] = "ok", pc[r] = "ok"
      PROVE  /\ req'[r] = req[r] /\ survey[req[r].survey].state = "deleted"
             /\ survey'[req[r].survey].state = "deleted"
  <2>1. req'[r] = req[r] /\ survey[req[r].survey].state = "deleted"
    BY <1>3, EndedStays DEF DeletionInv, Finished
  <2>2. req[r].survey \in Surveys
    BY <1>3, <2>1 DEF IInv, TypeOK, AnswerReq, DeleteReq, NoReq
  <2>3. ASSUME NEW s \in Surveys, survey[s].state = "deleted", survey' # survey
        PROVE  survey'[s].state = "deleted"
    <3>1. \/ \E u \in Users, a \in Assocs, t \in Surveys, e \in 1..MaxTime : Create(u, a, t, e)
          \/ \E q \in Requests : SoftDelete(q)
      BY <2>3 DEF Next, vars, Tick, StartAnswer, StartDelete, Abort, Proceed,
           CheckSurveyExpiry, FindSurvey, ValidateChoices, DeleteAnswers, DeleteDone, DeleteRow,
           InsertRow, Commit, FindForDelete, DeadlockAbort
    <3>2. ASSUME NEW u \in Users, NEW a \in Assocs, NEW t \in Surveys, NEW e \in 1..MaxTime,
                 Create(u, a, t, e)
          PROVE  survey'[s] = survey[s]
      BY <1>1, <2>3, <3>2 DEF Create
    <3>3. ASSUME NEW q \in Requests, SoftDelete(q)
          PROVE  survey'[s].state = "deleted"
      <4>1. s # req[q].survey => survey'[s] = survey[s]
        BY <1>1, <3>3 DEF SoftDelete
      <4>2. s = req[q].survey => survey' = survey
        BY <2>3, <3>3 DEF SoftDelete
      <4>. QED
        BY <2>3, <4>1, <4>2
    <3>. QED
      BY <2>3, <3>1, <3>2, <3>3
  <2>. QED
    BY <2>1, <2>2, <2>3
<1>4. ASSUME NEW q \in Requests, NEW r \in Requests, q # r,
             req'[q].op = "delete", req'[r].op = "delete", pc'[q] = "ok", pc'[r] = "ok"
      PROVE  req'[q].survey # req'[r].survey
  <2>1. CASE pc[q] = "ok" /\ pc[r] = "ok"
    BY <1>3, <1>4, <2>1 DEF DeletionInv, OneDeletion
  <2>2. CASE pc[q] # "ok" /\ pc[r] = "ok"
    BY <1>2, <1>3, <1>4, <2>2
  <2>3. CASE pc[q] = "ok" /\ pc[r] # "ok"
    BY <1>2, <1>3, <1>4, <2>3
  <2>4. CASE pc[q] # "ok" /\ pc[r] # "ok"
    <3>1. SoftDelete(q) /\ SoftDelete(r)
      BY <1>2, <1>4, <2>4
    <3>. QED
      BY <1>1, <1>4, <2>4, <3>1 DEF SoftDelete
  <2>. QED
    BY <2>1, <2>2, <2>3, <2>4
<1>. QED
  BY <1>2, <1>3, <1>4 DEF DeletionInv, OneDeletion

\* However deletions of a survey overlap, one of them at most reports success.
THEOREM DeletedOnce == Spec => []OneDeletion
<1>1. Init => DeletionInv
  BY DEF Init, DeletionInv, OneDeletion
<1>2. DeletionInv => OneDeletion
  BY DEF DeletionInv
<1>. QED
  BY <1>1, <1>2, DeletionStep, Invariance, PTL DEF Spec

-----------------------------------------------------------------------------
(* Acknowledged submissions *)

\* A DELETE takes rows of its own user and survey only.
OwnRows ==
  \A r \in Requests : \A x \in seen[r] \cup removed[r] :
    InTx(r) /\ x.user = req[r].user /\ x.survey = req[r].survey

\* A submission of user u that is stored, or may be, cleared the survey s.
Cleared(u, s) ==
  \E q \in Requests : /\ IsAnswer(q) /\ req[q].body = <<>> /\ pc[q] \in {"ok", "error"}
                      /\ req[q].user = u /\ req[q].survey = s

AckInv ==
  \A r \in Requests :
    (IsAnswer(r) /\ pc[r] = "ok" /\ RowsOf(r) # {}) =>
      IsAnswered(req[r].user, req[r].survey) \/ Cleared(req[r].user, req[r].survey)

\* The rows a commit adds are those of its request.
LEMMA CommitRows ==
  ASSUME IInv, NEW r \in Requests, NEW outcome \in {"ok", "error"}, Commit(r, outcome)
  PROVE  /\ req[r] \in AnswerReq
         /\ added[r] = RowsOf(r)
         /\ seen[r] = {}
         /\ \A x \in added[r] : /\ x.by = r /\ x.user = req[r].user
                                /\ x.survey = req[r].survey
<1>1. req[r] \in AnswerReq
  BY DEF Commit, IInv, OpOK, Answering
<1>2. added[r] = RowsOf(r) /\ seen[r] = {}
  BY DEF Commit, IInv, TxOK, InTx, RowsOf
<1>. QED
  BY <1>1, <1>2 DEF RowsOf, Row

\* Nobody else touches the transaction of a request.
LEMMA OwnTx ==
  ASSUME IInv, [Next]_vars, NEW r \in Requests
  PROVE  \/ seen'[r] = seen[r] /\ removed'[r] = removed[r]
         \/ Proceed(r)
         \/ Abort(r)
<1>. USE DEF db, tx, Goto
<1>1. /\ seen \in [Requests -> SUBSET AnswerRow]
      /\ removed \in [Requests -> SUBSET AnswerRow]
  BY DEF IInv, TypeOK
<1>2. CASE UNCHANGED <<seen, removed>>
  BY <1>2
<1>3. CASE ~UNCHANGED <<seen, removed>>
  <2>1. PICK q \in Requests : Proceed(q) \/ Abort(q)
    BY <1>3 DEF Next, vars, Tick, Create, StartAnswer, StartDelete
  <2>2. q # r => seen'[r] = seen[r] /\ removed'[r] = removed[r]
    BY <1>1, <2>1 DEF Abort, Proceed, CheckSurveyExpiry, FindSurvey, ValidateChoices,
         DeleteAnswers, DeleteDone, DeleteRow, InsertRow, Commit, FindForDelete, SoftDelete,
         DeadlockAbort, Finish
  <2>. QED
    BY <2>1, <2>2
<1>. QED
  BY <1>2, <1>3

LEMMA OwnRowsStep == IInv /\ OwnRows /\ [Next]_vars => OwnRows'
<1> SUFFICES ASSUME IInv, OwnRows, [Next]_vars, NEW r \in Requests,
                    NEW x \in seen'[r] \cup removed'[r]
             PROVE  InTx(r)' /\ x.user = req'[r].user /\ x.survey = req'[r].survey
  BY DEF OwnRows
<1>. USE DEF db, tx, Goto
<1>0. /\ pc \in [Requests -> {"idle"} \cup Steps \cup Finished]
      /\ seen \in [Requests -> SUBSET AnswerRow]
      /\ removed \in [Requests -> SUBSET AnswerRow]
  BY DEF IInv, TypeOK
<1>1. CASE Abort(r)
  BY <1>0, <1>1 DEF Abort, Finish
<1>2. CASE Proceed(r)
  BY <1>0, <1>2 DEF Proceed, CheckSurveyExpiry, FindSurvey, ValidateChoices, DeleteAnswers,
     DeleteDone, DeleteRow, InsertRow, Commit, FindForDelete, SoftDelete, DeadlockAbort,
     Finish, Stored, OwnRows, InTx, IInv, TxOK
<1>3. CASE ~Abort(r) /\ ~Proceed(r)
  <2>1. seen'[r] = seen[r] /\ removed'[r] = removed[r]
    BY <1>3, OwnTx
  <2>2. InTx(r) /\ x.user = req[r].user /\ x.survey = req[r].survey
    BY <2>1 DEF OwnRows
  <2>3. pc'[r] = pc[r]
    BY <1>3, <2>2, OwnStep DEF InTx
  <2>. QED
    BY <2>2, <2>3, RequestKept DEF InTx
<1>. QED
  BY <1>1, <1>2, <1>3

LEMMA AckStep == IInv /\ AdmissionInv /\ OwnRows /\ AckInv /\ [Next]_vars => AckInv'
<1> SUFFICES ASSUME IInv, AdmissionInv, OwnRows, AckInv, [Next]_vars, NEW r \in Requests,
                    IsAnswer(r)', pc'[r] = "ok", RowsOf(r)' # {}
             PROVE  \/ IsAnswered(req[r].user, req[r].survey)'
                    \/ Cleared(req[r].user, req[r].survey)'
  BY DEF AckInv
<1>. USE DEF db, tx, Goto
<1>1. req'[r] = req[r] /\ (pc[r] # "ok" => Commit(r, "ok"))
  BY OkStep, EndedStays DEF Finished, SoftDelete, IInv, OpOK, Deleting, DeleteReq, IsAnswer
<1>2. \A u, s : Cleared(u, s) => Cleared(u, s)'
  BY EndedStays DEF Cleared, Finished, IsAnswer
<1>4. CASE Commit(r, "ok")
  <2>1. RowsOf(r)' = RowsOf(r)
    BY <1>1 DEF RowsOf, Row
  <2>2. PICK x \in RowsOf(r) : x \in answers' /\ x.user = req[r].user /\ x.survey = req[r].survey
    BY <1>4, <2>1, CommitRows DEF Commit
  <2>. QED
    BY <1>1, <2>2 DEF IsAnswered, Stored
<1>5. CASE pc[r] = "ok"
  <2>1. \/ IsAnswered(req[r].user, req[r].survey)
        \/ Cleared(req[r].user, req[r].survey)
    BY <1>1, <1>5 DEF AckInv, IsAnswer, RowsOf, Row
  <2>2. CASE answers' = answers \/ Cleared(req[r].user, req[r].survey)
    BY <1>1, <1>2, <2>1, <2>2 DEF IsAnswered, Stored
  <2>3. ASSUME NEW q \in Requests, NEW outcome \in {"ok", "error"}, Commit(q, outcome),
               ~Cleared(req[r].user, req[r].survey)
        PROVE  \/ IsAnswered(req[r].user, req[r].survey)'
               \/ Cleared(req[r].user, req[r].survey)'
    <3>1. PICK x \in answers : x.user = req[r].user /\ x.survey = req[r].survey
      BY <2>1, <2>3 DEF IsAnswered, Stored
    <3>2. CASE x \in answers'
      BY <1>1, <3>1, <3>2 DEF IsAnswered, Stored
    <3>3. CASE x \notin answers'
      <4>1. x \in removed[q] /\ pc[q] = "insert"
        BY <2>3, <3>3 DEF Commit
      <4>2. req[q].user = req[r].user /\ req[q].survey = req[r].survey
        BY <3>1, <4>1 DEF OwnRows
      <4>3. req[q] \in AnswerReq /\ req' = req
        BY <2>3, CommitRows DEF Commit
      <4>4. CASE RowsOf(q) # {}
        <5>1. PICK y \in RowsOf(q) : y \in answers' /\ y.user = req[q].user
                                                   /\ y.survey = req[q].survey
          BY <2>3, <4>4, CommitRows DEF Commit
        <5>. QED
          BY <1>1, <4>2, <5>1 DEF IsAnswered, Stored
      <4>5. CASE RowsOf(q) = {}
        <5>1. req[q].body \in Seq(Entry)
          BY <4>3, Catalogue DEF AnswerReq
        <5>2. \A i \in DOMAIN req[q].body : Len(req[q].body[i].choices) # 0
          BY <4>1 DEF AdmissionInv, Validated, Found, Checked, Answering, ValidEntry
        <5>3. Positions(req[q].body) = {}
          BY <4>5 DEF RowsOf
        <5>4. DOMAIN req[q].body = {}
          <6> SUFFICES ASSUME NEW i \in DOMAIN req[q].body PROVE FALSE
            OBVIOUS
          <6>1. req[q].body[i] \in Entry
            BY <5>1
          <6>2. req[q].body[i].choices \in Seq(Choices) /\ Len(req[q].body[i].choices) # 0
            BY <5>2, <6>1 DEF Entry
          <6>3. 1 \in DOMAIN req[q].body[i].choices
            BY <6>2
          <6>4. <<i, 1>> \in Positions(req[q].body)
            BY <6>3 DEF Positions
          <6>. QED
            BY <5>3, <6>4
        <5>5. req[q].body = <<>>
          <6>1. Len(req[q].body) = 0
            <7>1. Len(req[q].body) \in Nat /\ DOMAIN req[q].body = 1..Len(req[q].body)
              BY <5>1
            <7>2. 1 \notin 1..Len(req[q].body)
              BY <5>4, <7>1
            <7>. QED
              BY <7>1, <7>2
          <6>. QED
            BY <5>1, <6>1
        <5>6. pc'[q] = outcome
          BY <2>3 DEF Commit, Finish, IInv, TypeOK
        <5>. QED
          BY <1>1, <4>2, <4>3, <5>5, <5>6 DEF Cleared, IsAnswer, AnswerReq
      <4>. QED
        BY <4>4, <4>5
    <3>. QED
      BY <3>2, <3>3
  <2>4. answers' = answers \/ \E q \in Requests, outcome \in {"ok", "error"} : Commit(q, outcome)
    BY DEF Next, vars, Tick, Create, StartAnswer, StartDelete, Abort, Proceed,
       CheckSurveyExpiry, FindSurvey, ValidateChoices, DeleteAnswers, DeleteDone, DeleteRow,
       InsertRow, FindForDelete, SoftDelete, DeadlockAbort
  <2>. QED
    BY <2>2, <2>3, <2>4
<1>. QED
  BY <1>1, <1>4, <1>5

\* An acknowledged answer is never lost to a later submission that fails or is undone.
THEOREM AckKept == Spec => []AckedStaysAnswered
<1>1. Init => OwnRows /\ AckInv
  BY DEF Init, OwnRows, AckInv
<1>2. AckInv => AckedStaysAnswered
  BY DEF AckInv, AckedStaysAnswered, Cleared, Unanswered
<1>3. IInv /\ AdmissionInv /\ [Next]_vars => AdmissionInv'
  BY AdmissionStep
<1>. QED
  BY <1>1, <1>2, <1>3, OwnRowsStep, AckStep, AdmissionInit, Invariance, PTL DEF Spec


-----------------------------------------------------------------------------
(* One answer request of a user in flight: answers of one submission only, and the *)
(* sheet of ballots.                                                               *)

\* A user's requests do not overlap, so the transaction that writes has locked
\* or deleted every row stored for its user and survey, and no other row.
SerialInv ==
  /\ \A q, r \in Requests :
       (q # r /\ pc[q] \in Answering /\ pc[r] \in Answering) => req[q].user # req[r].user
  /\ \A r \in Requests : InTx(r) =>
       /\ Stored(req[r].user, req[r].survey) \subseteq seen[r] \cup removed[r]
       /\ \A x \in seen[r] \cup removed[r] :
            x.user = req[r].user /\ x.survey = req[r].survey
  /\ OneSubmission

LEMMA SerialInit == Init => SerialInv
BY DEF Init, SerialInv, OneSubmission, Answering, InTx

LEMMA SerialStep ==
  ASSUME SerialUsers, IInv, SerialInv, [Next]_vars
  PROVE  SerialInv'
<1>. USE DEF db, tx, Goto
<1>0. /\ pc \in [Requests -> {"idle"} \cup Steps \cup Finished]
      /\ req \in [Requests -> AnswerReq \cup DeleteReq \cup {NoReq}]
      /\ seen \in [Requests -> SUBSET AnswerRow]
      /\ removed \in [Requests -> SUBSET AnswerRow]
      /\ answers \subseteq AnswerRow
  BY DEF IInv, TypeOK
<1>1. \A q, r \in Requests :
        (q # r /\ pc'[q] \in Answering /\ pc'[r] \in Answering) => req'[q].user # req'[r].user
  <2>1. CASE \E r \in Requests, u \in Users, a \in Assocs, s \in Surveys, body \in Bodies :
               StartAnswer(r, u, a, s, body)
    <3>1. PICK r \in Requests, u \in Users, a \in Assocs, s \in Surveys, body \in Bodies :
                 StartAnswer(r, u, a, s, body)
      BY <2>1
    <3>2. /\ req'[r].user = u
          /\ \A q \in Requests : q # r => req'[q] = req[q] /\ pc'[q] = pc[q]
      BY <1>0, <3>1 DEF StartAnswer
    <3>3. \A q \in Requests : pc[q] \in Answering => req[q].user # u
      BY <3>1 DEF StartAnswer, IInv, OpOK, Answering, Steps, AnswerReq
    <3>. QED
      BY <3>2, <3>3 DEF SerialInv
  <2>2. CASE ~\E r \in Requests, u \in Users, a \in Assocs, s \in Surveys, body \in Bodies :
               StartAnswer(r, u, a, s, body)
    <3>1. \A r \in Requests : pc'[r] \in Answering => pc[r] \in Answering
      <4> SUFFICES ASSUME NEW r \in Requests, pc'[r] \in Answering, pc'[r] # pc[r]
                   PROVE  pc[r] \in Answering
        OBVIOUS
      <4>1. CASE pc[r] = "idle"
        <5>1. ~Abort(r)
          BY <4>1 DEF Abort, Steps
        <5>2. ~Proceed(r)
          BY <4>1 DEF Proceed, CheckSurveyExpiry, FindSurvey, ValidateChoices, DeleteAnswers,
               DeleteDone, DeleteRow, InsertRow, Commit, FindForDelete, SoftDelete,
               DeadlockAbort, InTx
        <5>3. pc'[r] = "findForDelete"
          BY <2>2, <5>1, <5>2, OwnStep
        <5>. QED
          BY <5>3 DEF Answering
      <4>2. CASE Abort(r)
        BY <1>0, <4>2 DEF Abort, Finish, Answering
      <4>3. CASE Proceed(r)
        BY <1>0, <4>3 DEF Proceed, CheckSurveyExpiry, FindSurvey, ValidateChoices,
             DeleteAnswers, DeleteDone, DeleteRow, InsertRow, Commit, FindForDelete, SoftDelete,
             DeadlockAbort, Finish, Answering
      <4>. QED
        BY <4>1, <4>2, <4>3, OwnStep
    <3>2. \A r \in Requests : pc[r] \in Answering => req'[r] = req[r]
      BY RequestKept DEF Answering
    <3>. QED
      BY <3>1, <3>2 DEF SerialInv
  <2>. QED
    BY <2>1, <2>2
<1>2. CASE \E q \in Requests, outcome \in {"ok", "error"} : Commit(q, outcome)
  <2>1. PICK q \in Requests, outcome \in {"ok", "error"} : Commit(q, outcome)
    BY <1>2
  <2>2. /\ \A x \in added[q] : /\ x.by = q /\ x.user = req[q].user
                               /\ x.survey = req[q].survey
        /\ seen[q] = {} /\ pc[q] = "insert"
        /\ req' = req /\ answers' = (answers \ removed[q]) \cup added[q]
    BY <2>1, CommitRows DEF Commit
  <2>3. Stored(req[q].user, req[q].survey) \subseteq removed[q]
    BY <2>2 DEF SerialInv, InTx
  <2>4. OneSubmission'
    BY <2>2, <2>3 DEF SerialInv, OneSubmission, Stored
  <2>5. ASSUME NEW r \in Requests, InTx(r)'
        PROVE  /\ r # q /\ InTx(r) /\ seen'[r] = seen[r] /\ removed'[r] = removed[r]
    BY <1>0, <2>1, <2>5 DEF Commit, Finish, InTx
  <2>6. ASSUME NEW r \in Requests, r # q, InTx(r)
        PROVE  Stored(req[r].user, req[r].survey)' \subseteq Stored(req[r].user, req[r].survey)
    BY <2>2, <2>6 DEF Stored, SerialInv, InTx, Answering
  <2>. QED
    BY <1>1, <2>2, <2>4, <2>5, <2>6 DEF SerialInv
<1>3. CASE ~\E q \in Requests, outcome \in {"ok", "error"} : Commit(q, outcome)
  <2>1. answers' = answers
    BY <1>3 DEF Next, vars, Tick, Create, StartAnswer, StartDelete, Abort, Proceed,
         CheckSurveyExpiry, FindSurvey, ValidateChoices, DeleteAnswers, DeleteDone, DeleteRow,
         InsertRow, FindForDelete, SoftDelete, DeadlockAbort
  <2>2. ASSUME NEW r \in Requests, InTx(r)'
        PROVE  /\ Stored(req[r].user, req[r].survey)' \subseteq seen'[r] \cup removed'[r]
               /\ \A x \in seen'[r] \cup removed'[r] :
                    x.user = req'[r].user /\ x.survey = req'[r].survey
    <3>1. CASE DeleteAnswers(r)
      BY <1>0, <2>1, <3>1 DEF DeleteAnswers, Stored, IInv, TxOK, InTx
    <3>2. CASE ~DeleteAnswers(r) /\ ~(\E x \in seen[r] : DeleteRow(r, x))
      <4>1. InTx(r) /\ seen'[r] = seen[r] /\ removed'[r] = removed[r] /\ req'[r] = req[r]
        <5>1. InTx(r)
          <6>1. CASE pc'[r] = pc[r]
            BY <6>1, <2>2 DEF InTx
          <6>2. CASE Proceed(r)
            BY <1>0, <6>2, <2>2, <3>2 DEF Proceed, CheckSurveyExpiry, FindSurvey,
                 ValidateChoices, DeleteDone, InsertRow, Commit, FindForDelete, SoftDelete,
                 DeadlockAbort, Finish, InTx
          <6>3. CASE Abort(r)
            BY <1>0, <6>3, <2>2 DEF Abort, Finish, InTx
          <6>. QED
            BY <6>1, <6>2, <6>3, <2>2, OwnStep DEF InTx
        <5>2. seen'[r] = seen[r] /\ removed'[r] = removed[r]
          <6>1. CASE Proceed(r)
            BY <1>0, <1>3, <6>1, <2>2, <3>2 DEF Proceed, CheckSurveyExpiry, FindSurvey,
                 ValidateChoices, DeleteDone, InsertRow, FindForDelete, SoftDelete,
                 DeadlockAbort, Finish, InTx
          <6>2. CASE Abort(r)
            BY <1>0, <6>2, <2>2 DEF Abort, Finish, InTx
          <6>. QED
            BY <6>1, <6>2, OwnTx
        <5>. QED
          BY <5>1, <5>2, RequestKept DEF InTx
      <4>. QED
        BY <4>1, <2>1 DEF SerialInv, Stored
    <3>3. ASSUME NEW x \in seen[r], DeleteRow(r, x)
          PROVE  /\ Stored(req[r].user, req[r].survey)' \subseteq seen'[r] \cup removed'[r]
                 /\ \A y \in seen'[r] \cup removed'[r] :
                      y.user = req'[r].user /\ y.survey = req'[r].survey
      BY <1>0, <3>3 DEF DeleteRow, SerialInv, Stored, InTx
    <3>. QED
      BY <3>1, <3>2, <3>3
  <2>. QED
    BY <1>1, <2>1, <2>2 DEF SerialInv, OneSubmission
<1>. QED
  BY <1>2, <1>3

\* When no user has two answer requests in flight, the answers a user has stored
\* for a survey all come from one submission.
THEOREM SerialReplaces ==
  ASSUME SerialUsers
  PROVE  Spec => []OneSubmission
<1>1. SerialInv /\ IInv /\ [Next]_vars => SerialInv'
  BY SerialStep
<1>2. SerialInv => OneSubmission
  BY DEF SerialInv
<1>. QED
  BY <1>1, <1>2, SerialInit, Invariance, PTL DEF Spec
-----------------------------------------------------------------------------
(* Refinement of the sheet of ballots *)

\* The screen sends one entry per question.
OneEntryPerQuestion ==
  \A body \in Bodies : \A i, j \in DOMAIN body :
    body[i].question = body[j].question => i = j

\* The marks a commit of r leaves.
BallotOf(r) == {<<x.question, x.choice>> : x \in RowsOf(r)}

\* Validated entries, one per question, make a ballot: one choice of a single
\* question at most.
LEMMA BallotValid ==
  ASSUME OneEntryPerQuestion, IInv, AdmissionInv, NEW r \in Requests, pc[r] = "insert"
  PROVE  BallotOf(r) \in Sheet!Ballots(req[r].survey)
<1>1. req[r] \in AnswerReq /\ req[r].body \in Bodies /\ req[r].body \in Seq(Entry)
  BY Catalogue DEF IInv, OpOK, Answering, AnswerReq
<1>2. \A i \in DOMAIN req[r].body : ValidEntry(req[r].survey, req[r].body[i])
  BY DEF AdmissionInv, Validated, Found, Checked, Answering
<1>3. ASSUME NEW p \in Positions(req[r].body)
      PROVE  /\ p[1] \in DOMAIN req[r].body
             /\ p[2] \in DOMAIN req[r].body[p[1]].choices
             /\ Row(r, p).question = req[r].body[p[1]].question
             /\ Row(r, p).choice = req[r].body[p[1]].choices[p[2]]
             /\ Row(r, p).question \in Questions /\ Row(r, p).choice \in Choices
  BY <1>1, RowTyped DEF Positions, Row, AnswerRow
<1>4. BallotOf(r) \subseteq Sheet!Pairs(req[r].survey)
  <2> SUFFICES ASSUME NEW p \in Positions(req[r].body)
               PROVE  <<Row(r, p).question, Row(r, p).choice>> \in Sheet!Pairs(req[r].survey)
    BY DEF BallotOf, RowsOf
  <2>. QED
    BY <1>2, <1>3 DEF ValidEntry, Sheet!Pairs
<1>5. ASSUME NEW p \in Positions(req[r].body), NEW o \in Positions(req[r].body),
             Row(r, p).question = Row(r, o).question, Row(r, p).question \in Single
      PROVE  Row(r, p).choice = Row(r, o).choice
  <2>1. p[1] = o[1]
    BY <1>1, <1>3, <1>5 DEF OneEntryPerQuestion
  <2>2. Len(req[r].body[p[1]].choices) = 1
    BY <1>2, <1>3, <1>5 DEF ValidEntry
  <2>3. req[r].body[p[1]].choices \in Seq(Choices)
    <3>1. req[r].body[p[1]] \in Entry
      BY <1>1, <1>3
    <3>. QED
      BY <3>1 DEF Entry
  <2>4. p[2] = 1 /\ o[2] = 1
    BY <1>3, <2>1, <2>2, <2>3
  <2>. QED
    BY <1>3, <2>1, <2>4
<1>6. \A m, n \in BallotOf(r) : (m[1] = n[1] /\ m[1] \in Single) => m = n
  <2> SUFFICES ASSUME NEW x \in RowsOf(r), NEW y \in RowsOf(r),
                      x.question = y.question, x.question \in Single
               PROVE  <<x.question, x.choice>> = <<y.question, y.choice>>
    BY DEF BallotOf
  <2>. QED
    BY <1>5 DEF RowsOf
<1>. QED
  BY <1>4, <1>6 DEF Sheet!Ballots

LEMMA RefinementStep ==
  ASSUME SerialUsers, OneEntryPerQuestion, IInv, AdmissionInv, SerialInv, [Next]_vars
  PROVE  [Sheet!Next]_marks
<1>1. CASE \E r \in Requests, outcome \in {"ok", "error"} : Commit(r, outcome)
  <2>1. PICK r \in Requests, outcome \in {"ok", "error"} : Commit(r, outcome)
    BY <1>1
  <2> DEFINE u == req[r].user
             s == req[r].survey
  <2>2. /\ added[r] = RowsOf(r) /\ u \in Users /\ s \in Surveys
        /\ \A x \in RowsOf(r) : x.user = u /\ x.survey = s
        /\ seen[r] = {} /\ pc[r] = "insert"
    BY <2>1, CommitRows DEF Commit, AnswerReq
  <2>3. removed[r] = Stored(u, s)
    BY <2>2 DEF SerialInv, InTx, IInv, DeletesApart, Stored
  <2>4. answers' = (answers \ Stored(u, s)) \cup RowsOf(r)
    BY <2>1, <2>2, <2>3 DEF Commit
  <2>5. Sheet!Cast(u, s, BallotOf(r))
    <3>1. Sheet!Marks(u, s, BallotOf(r)) =
            {[survey |-> x.survey, user |-> x.user, question |-> x.question,
              choice |-> x.choice] : x \in RowsOf(r)}
      <4> DEFINE mark(x) == [survey |-> x.survey, user |-> x.user,
                             question |-> x.question, choice |-> x.choice]
                 pair(x) == <<x.question, x.choice>>
                 of(m) == [survey |-> s, user |-> u, question |-> m[1], choice |-> m[2]]
      <4>1. \A x \in RowsOf(r) : of(pair(x)) = mark(x)
        BY <2>2
      <4>2. BallotOf(r) = {pair(x) : x \in RowsOf(r)}
        BY DEF BallotOf
      <4>3. Sheet!Marks(u, s, BallotOf(r)) = {of(m) : m \in BallotOf(r)}
        BY DEF Sheet!Marks
      <4> HIDE DEF mark, pair, of
      <4>4. {of(m) : m \in BallotOf(r)} = {mark(x) : x \in RowsOf(r)}
        BY <4>1, <4>2
      <4>. QED
        BY <4>3, <4>4 DEF mark
    <3>2. {m \in marks : m.user # u \/ m.survey # s} =
            {[survey |-> x.survey, user |-> x.user, question |-> x.question,
              choice |-> x.choice] : x \in answers \ Stored(u, s)}
      BY DEF marks, Stored
    <3>. QED
      BY <2>4, <3>1, <3>2 DEF Sheet!Cast, marks
  <2>6. BallotOf(r) \in Sheet!Ballots(s)
    BY <2>2, BallotValid
  <2>. QED
    BY <2>2, <2>5, <2>6 DEF Sheet!Next
<1>2. CASE ~\E r \in Requests, outcome \in {"ok", "error"} : Commit(r, outcome)
  <2>1. answers' = answers
    BY <1>2 DEF Next, vars, db, tx, Tick, Create, StartAnswer, StartDelete, Abort, Proceed,
         CheckSurveyExpiry, FindSurvey, ValidateChoices, DeleteAnswers, DeleteDone, DeleteRow,
         InsertRow, FindForDelete, SoftDelete, DeadlockAbort
  <2>. QED
    BY <2>1 DEF marks
<1>. QED
  BY <1>1, <1>2

\* When clients wait for their answers and send one entry per question, answering
\* replaces a user's ballot in one step, and every ballot is valid.
THEOREM Implements ==
  ASSUME SerialUsers, OneEntryPerQuestion
  PROVE  Spec => ImplementsSheet
<1>1. Init => Sheet!Init
  BY DEF Init, Sheet!Init, marks
<1>2. SerialInv /\ IInv /\ [Next]_vars => SerialInv'
  BY SerialStep
<1>3. IInv /\ AdmissionInv /\ [Next]_vars => AdmissionInv'
  BY AdmissionStep
<1>4. IInv /\ AdmissionInv /\ SerialInv /\ [Next]_vars => [Sheet!Next]_marks
  BY RefinementStep
<1>. QED
  BY <1>1, <1>2, <1>3, <1>4, SerialInit, AdmissionInit, Invariance, PTL
     DEF Spec, ImplementsSheet, Sheet!Spec
=============================================================================
