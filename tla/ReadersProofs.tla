---------------------------- MODULE ReadersProofs ----------------------------
(***************************************************************************)
(* Proofs about Readers: who marks and opens notices, and how far the      *)
(* parts of a page can contradict each other, for any number of users,     *)
(* notices, surveys and requests, and any length of the lists.             *)
(***************************************************************************)
EXTENDS Readers, FiniteSetTheorems, TLAPS

-----------------------------------------------------------------------------
(* Lists and counts *)

\* The users who have answered survey s.
Voters(s) == {u \in Users : ballot[s][u] # {}}

\* S and T differ in no more than one element.
OneOff(S, T) == \E e : S \ {e} = T \ {e}

\* What is unread, unanswered or answered can be counted.
LEMMA Countable ==
  ASSUME NEW a, NEW u, NEW s, NEW q
  PROVE  /\ IsFiniteSet(LiveNotices(a)) /\ IsFiniteSet(Unread(a, u))
         /\ IsFiniteSet(Unanswered(a, u)) /\ IsFiniteSet(Voters(s))
         /\ IsFiniteSet(Answerers(s, q))
<1>1. IsFiniteSet(Notices)
  BY FS_Interval, Audience DEF Notices
<1>2. LiveNotices(a) \subseteq Notices /\ Unread(a, u) \subseteq Notices
  BY DEF LiveNotices, Unread
<1>3. Unanswered(a, u) \subseteq Surveys
  BY DEF Unanswered
<1>4. Voters(s) \subseteq Users /\ Answerers(s, q) \subseteq Users
  BY DEF Voters, Answerers
<1>. QED
  BY <1>1, <1>2, <1>3, <1>4, FS_Subset, Audience

LEMMA SameFinite ==
  ASSUME NEW a, NEW u, NEW s, NEW q
  PROVE  /\ IsFiniteSet(Unread(a, u)') /\ IsFiniteSet(Unanswered(a, u)')
         /\ IsFiniteSet(Voters(s)') /\ IsFiniteSet(Answerers(s, q)')
<1>1. IsFiniteSet(Notices)
  BY FS_Interval, Audience DEF Notices
<1>2. Unread(a, u)' \subseteq Notices
  BY DEF LiveNotices, Unread
<1>3. Unanswered(a, u)' \subseteq Surveys
  BY DEF Unanswered
<1>4. Voters(s)' \subseteq Users /\ Answerers(s, q)' \subseteq Users
  BY DEF Voters, Answerers
<1>. QED
  BY <1>1, <1>2, <1>3, <1>4, FS_Subset, Audience

\* Sets that differ in one element have cardinalities that differ by one at most.
LEMMA OneOffCount ==
  ASSUME NEW S, NEW T, IsFiniteSet(S), IsFiniteSet(T), OneOff(S, T)
  PROVE  Cardinality(S) <= Cardinality(T) + 1 /\ Cardinality(T) <= Cardinality(S) + 1
<1>1. PICK e : S \ {e} = T \ {e}
  BY DEF OneOff
<1>2. /\ Cardinality(S \ {e}) \in {Cardinality(S), Cardinality(S) - 1}
      /\ Cardinality(T \ {e}) \in {Cardinality(T), Cardinality(T) - 1}
  BY FS_RemoveElement
<1>3. Cardinality(S) \in Nat /\ Cardinality(T) \in Nat
  BY FS_CardinalityType
<1>4. Cardinality(S \ {e}) = Cardinality(T \ {e})
  BY <1>1
<1>. DEFINE s == Cardinality(S)
            t == Cardinality(T)
            c == Cardinality(S \ {e})
<1>5. s \in Nat /\ t \in Nat /\ c \in {s, s - 1} /\ c \in {t, t - 1}
  BY <1>2, <1>3, <1>4
<1>. HIDE DEF s, t, c
<1>6. s <= t + 1 /\ t <= s + 1
  BY <1>5
<1>. QED
  BY <1>6 DEF s, t

-----------------------------------------------------------------------------
(* The list of the home page *)

Before(a, n) == {m \in LiveNotices(a) : Precedes(m, n)}

\* The list is all of the live notices unless it is full: of the notices that are left out,
\* one has only notices of the list before it, and those fill the list.
LEMMA ShortListIsAll ==
  ASSUME TypeOK, NEW a, Cardinality(Recent(a)) < Limit
  PROVE  Recent(a) = LiveNotices(a)
<1>. DEFINE live == LiveNotices(a)
            out  == live \ Recent(a)
<1>. SUFFICES ASSUME out # {} PROVE FALSE
  BY DEF Recent
<1>1. IsFiniteSet(live)
  BY Countable
<1>2. \A n \in live : Before(a, n) \subseteq live /\ IsFiniteSet(Before(a, n))
  BY <1>1, FS_Subset DEF Before
<1>3. \A n \in live : n \in Notices /\ notice[n].pinned \in BOOLEAN
  BY DEF LiveNotices, Visible, TypeOK, NoticeRow, Absent
<1>4. \A m, n \in live : m \in Before(a, n) => Before(a, m) \subseteq Before(a, n) /\ m \notin Before(a, m)
  <2>1. \A n \in live : n \in Nat
    BY <1>3, Audience DEF Notices
  <2>. QED
    BY <1>3, <2>1 DEF Before, Precedes
<1>. DEFINE chains == {Before(a, n) : n \in out}
<1>5. \E P \in chains : \A Q \in chains : <<Q, P>> \notin StrictSubsetOrdering(live)
  <2>1. chains \subseteq FiniteSubsetsOf(live) /\ chains # {}
    BY <1>2 DEF FiniteSubsetsOf
  <2>2. IsWellFoundedOn(StrictSubsetOrdering(live), FiniteSubsetsOf(live))
    BY FS_StrictSubsetOrderingWellFounded
  <2>. HIDE DEF chains, live
  <2>. QED
    BY <2>1, <2>2, WFMin
<1>6. PICK n \in out : \A m \in out : <<Before(a, m), Before(a, n)>> \notin StrictSubsetOrdering(live)
  BY <1>5
<1>7. Before(a, n) \subseteq Recent(a)
  <2>1. SUFFICES ASSUME NEW m \in Before(a, n), m \in out PROVE FALSE
    BY <1>2
  <2>2. Before(a, m) \subseteq Before(a, n) /\ Before(a, m) # Before(a, n)
    BY <1>4, <2>1
  <2>. QED
    BY <1>2, <1>6, <2>1, <2>2 DEF StrictSubsetOrdering
<1>8. Cardinality(Before(a, n)) >= Limit
  <2>1. Cardinality(Before(a, n)) \in Nat
    BY <1>2, FS_CardinalityType
  <2>. QED
    BY <2>1, Audience DEF Recent, Before
<1>9. IsFiniteSet(Recent(a)) /\ Cardinality(Before(a, n)) <= Cardinality(Recent(a))
  <2>1. IsFiniteSet(Recent(a))
    BY <1>1, FS_Subset DEF Recent
  <2>. QED
    BY <2>1, <1>7, FS_Subset
<1>. QED
  BY <1>2, <1>8, <1>9, FS_CardinalityType, Audience

\* What the home page lists as unread is counted as unread, and all of it is listed if the
\* list is short.
LEMMA ListedUnread ==
  ASSUME TypeOK, NEW a, NEW u
  PROVE  LET listed == {n \in Recent(a) : <<n, u>> \notin reads} IN
         /\ Cardinality(Recent(a)) \in Nat /\ Cardinality(listed) \in Nat
         /\ Cardinality(listed) <= Cardinality(Unread(a, u))
         /\ Cardinality(Recent(a)) < Limit => Cardinality(listed) = Cardinality(Unread(a, u))
<1>. DEFINE listed == {n \in Recent(a) : <<n, u>> \notin reads}
<1>1. IsFiniteSet(LiveNotices(a)) /\ IsFiniteSet(Unread(a, u))
  BY Countable
<1>2. Recent(a) \subseteq LiveNotices(a) /\ listed \subseteq Unread(a, u)
  BY DEF Recent, Unread
<1>3. Cardinality(Recent(a)) < Limit => listed = Unread(a, u)
  BY ShortListIsAll DEF Unread
<1>4. IsFiniteSet(Recent(a)) /\ IsFiniteSet(listed)
  BY <1>1, <1>2, FS_Subset
<1>5. Cardinality(listed) <= Cardinality(Unread(a, u))
  BY <1>1, <1>2, FS_Subset
<1>. QED
  BY <1>3, <1>4, <1>5, FS_CardinalityType

-----------------------------------------------------------------------------
(* Types *)

Asked == OpenReq \cup HomeReq \cup ResultReq

\* What a request asks for fits its next query; the results page counts the answers of its
\* questions one by one, and nothing is on it before.
Shape ==
  \A r \in Requests :
    /\ pc[r] \in OpenSteps => req[r] \in OpenReq
    /\ pc[r] \in HomeSteps => req[r] \in HomeReq
    /\ pc[r] \in ResultSteps => req[r] \in ResultReq
    /\ pc[r] = "shown" => req[r] \in HomeReq \cup ResultReq
    /\ pc[r] \in {"idle", "findSurvey", "title", "countUsers"} => page[r] = Empty
    /\ pc[r] = "questions" => page[r].next = 1
    /\ pc[r] = "choices" => page[r].next <= Questions

LEMMA EmptyPage == Empty \in Page
BY Audience DEF Empty, Page, Zeros

LEMMA InitTypes == Init => TypeOK /\ Shape
<1>. SUFFICES ASSUME Init PROVE TypeOK /\ Shape
  OBVIOUS
<1>1. TypeOK
  BY EmptyPage, Audience DEF Init, TypeOK, Steps, Zeros
<1>2. Shape
  BY DEF Init, Shape, OpenSteps, HomeSteps, ResultSteps
<1>. QED
  BY <1>1, <1>2

\* A step is a write by somebody else, a request that arrives, or a step of one.
Arrives(r) ==
  \E u \in Users :
    \/ \E n \in Notices, op \in {"open", "mark"} : StartOpen(r, u, n, op)
    \/ \E a \in Assocs : StartHome(r, u, a)
    \/ \E s \in Surveys : StartResults(r, u, s)

Writing ==
  \/ \E u \in Users, n \in Notices :
       \/ \E pinned \in BOOLEAN : CreateNotice(u, n, pinned)
       \/ DeleteNotice(u, n)
  \/ \E s \in Surveys :
       \/ \E from, to \in {"absent", "open", "expired", "deleted"} : SetSurvey(s, from, to)
       \/ \E u \in Users, qs \in SUBSET (1..Questions) : Answer(u, s, qs)

LEMMA StepOf ==
  ASSUME [Next]_vars
  PROVE  \/ Writing
         \/ \E r \in Requests : Arrives(r) \/ Step(r) \/ Abort(r)
         \/ UNCHANGED vars
BY DEF Next, Writing, Arrives

\* Writes leave the requests as they are.
LEMMA WritingFrame ==
  ASSUME Writing
  PROVE  /\ UNCHANGED <<req, pc, page, held, opened, missed, tally>> /\ reads' = reads
         /\ Written /\ writes < MaxWrites /\ writes' = writes + 1
BY DEF Writing, CreateNotice, DeleteNotice, SetSurvey, Answer, Change

LEMMA WritingTypes ==
  ASSUME TypeOK, Writing
  PROVE  /\ notice' \in [Notices -> NoticeRow \cup {Absent}]
         /\ survey' \in [Surveys -> {"absent", "open", "expired", "deleted"}]
         /\ ballot' \in [Surveys -> [Users -> SUBSET (1..Questions)]]
<1>1. ASSUME NEW u \in Users, NEW n \in Notices, NEW pinned \in BOOLEAN, CreateNotice(u, n, pinned)
      PROVE  /\ notice' \in [Notices -> NoticeRow \cup {Absent}]
             /\ UNCHANGED <<survey, ballot>>
  <2>1. HomeOf[u] \in Assocs
    BY Audience
  <2>. QED
    BY <1>1, <2>1 DEF TypeOK, CreateNotice, NoticeRow
<1>2. ASSUME NEW u \in Users, NEW n \in Notices, DeleteNotice(u, n)
      PROVE  /\ notice' \in [Notices -> NoticeRow \cup {Absent}]
             /\ UNCHANGED <<survey, ballot>>
  <2>1. notice[n] \in NoticeRow
    BY <1>2 DEF TypeOK, DeleteNotice, Visible, Absent
  <2>. QED
    BY <1>2, <2>1 DEF TypeOK, DeleteNotice, NoticeRow
<1>3. ASSUME NEW s \in Surveys, NEW from, NEW to \in {"absent", "open", "expired", "deleted"},
             SetSurvey(s, from, to)
      PROVE  /\ survey' \in [Surveys -> {"absent", "open", "expired", "deleted"}]
             /\ UNCHANGED <<notice, ballot>>
  BY <1>3 DEF TypeOK, SetSurvey
<1>4. ASSUME NEW u \in Users, NEW s \in Surveys, NEW qs \in SUBSET (1..Questions), Answer(u, s, qs)
      PROVE  /\ ballot' \in [Surveys -> [Users -> SUBSET (1..Questions)]]
             /\ UNCHANGED <<notice, survey>>
  BY <1>4 DEF TypeOK, Answer
<1>. QED
  BY <1>1, <1>2, <1>3, <1>4 DEF Writing, TypeOK

\* Every other request is as it was after a step of r.
LEMMA OthersStill ==
  ASSUME TypeOK, NEW r \in Requests, Arrives(r) \/ Step(r) \/ Abort(r)
  PROVE  /\ \A q \in Requests \ {r} :
              /\ pc'[q] = pc[q] /\ req'[q] = req[q] /\ page'[q] = page[q]
              /\ voted'[q] = voted[q] /\ cutOff'[q] = cutOff[q]
         /\ pc' = [pc EXCEPT ![r] = pc'[r]]
         /\ req' = [req EXCEPT ![r] = req'[r]]
         /\ page' = [page EXCEPT ![r] = page'[r]]
         /\ UNCHANGED <<notice, survey, ballot>>
<1>. USE DEF TypeOK, db, history, tally, Accept, Goto, Finish, Continue, MarkMissed
<1>1. CASE Arrives(r)
  BY <1>1 DEF Arrives, StartOpen, StartHome, StartResults
<1>2. CASE FindNotice(r) \/ FindForMark(r) \/ Mark(r)
  BY <1>2 DEF FindNotice, FindForMark, Mark
<1>3. CASE ListNotices(r) \/ ListSurveys(r) \/ CountNotices(r) \/ CountSurveys(r)
  BY <1>3 DEF ListNotices, ListSurveys, CountNotices, CountSurveys
<1>4. CASE FindSurvey(r) \/ FindTitle(r) \/ CountUsers(r)
  BY <1>4 DEF FindSurvey, FindTitle, CountUsers, Counted
<1>5. CASE ReadQuestions(r) \/ ReadChoices(r)
  BY <1>5 DEF ReadQuestions, ReadChoices, ShowAnswers
<1>6. CASE Abort(r)
  BY <1>6 DEF Abort
<1>. QED
  BY <1>1, <1>2, <1>3, <1>4, <1>5, <1>6 DEF Step

\* ReadChoices shows the answers of a question, or fewer of them and records that.
LEMMA ChoicesRead ==
  ASSUME NEW r \in Requests, ReadChoices(r)
  PROVE  LET answers == Cardinality(Answerers(req[r].survey, page[r].next)) IN
         /\ Query(r, "choices") /\ answers \in Nat
         /\ \E n \in 0..answers :
              /\ ShowAnswers(r, n)
              /\ \/ n = answers /\ cutOff' = cutOff
                 \/ cutOff' = [cutOff EXCEPT ![r] = @ \cup {page[r].next}]
<1>. DEFINE answers == Cardinality(Answerers(req[r].survey, page[r].next))
<1>1. answers \in Nat
  BY Countable, FS_CardinalityType
<1>2. answers \in 0..answers
  BY <1>1
<1>. QED
  BY <1>1, <1>2 DEF ReadChoices

\* What a write adds to the drift is a number.
LEMMA DriftTyped ==
  ASSUME TypeOK
  PROVE  /\ Written => drift' \in [Requests -> Nat]
         /\ \A r \in Requests : [drift EXCEPT ![r] = 0] \in [Requests -> Nat]
BY DEF TypeOK, Written

\* The notice and the user of a request are a pair of a row of notice_reads.
LEMMA PairTyped ==
  ASSUME NEW r \in Requests, req[r] \in OpenReq
  PROVE  Pair(r) \in Notices \X Users
BY DEF Pair, OpenReq

LEMMA PageTyped ==
  ASSUME NEW p \in Page, NEW n \in Nat
  PROVE  /\ [p EXCEPT !.surveys = n] \in Page /\ [p EXCEPT !.unreadCount = n] \in Page
         /\ [p EXCEPT !.unansweredCount = n] \in Page
         /\ [p EXCEPT !.total = n] \in Page /\ [p EXCEPT !.total = n].next = p.next
BY DEF Page

LEMMA PageCounted ==
  ASSUME NEW p \in Page, NEW k \in Nat, NEW cs \in [1..Questions -> Nat]
  PROVE  [p EXCEPT !.next = k + 1, !.counts = cs] \in Page
<1>1. k + 1 \in Nat \ {0}
  OBVIOUS
<1>. QED
  BY <1>1 DEF Page

\* The step of r that a query is depends on its program counter.
Shapely(r) ==
  /\ pc[r] \in {"idle", "shown", "done"} \cup Steps /\ req[r] \in Asked \cup {NoReq}
  /\ page[r] \in Page
  /\ pc[r] \in OpenSteps => req[r] \in OpenReq
  /\ pc[r] \in HomeSteps => req[r] \in HomeReq
  /\ pc[r] \in ResultSteps => req[r] \in ResultReq
  /\ pc[r] = "shown" => req[r] \in HomeReq \cup ResultReq
  /\ pc[r] \in {"idle", "findSurvey", "title", "countUsers"} => page[r] = Empty
  /\ pc[r] = "questions" => page[r].next = 1
  /\ pc[r] = "choices" => page[r].next <= Questions

LEMMA ShapelyStep ==
  ASSUME TypeOK, Shape, NEW r \in Requests, Arrives(r) \/ Step(r) \/ Abort(r)
  PROVE  Shapely(r)' /\ held' = IF pc'[r] = "choices" THEN held \cup {r} ELSE held \ {r}
<1>0. Shapely(r) /\ (r \in held <=> pc[r] = "choices")
  BY DEF TypeOK, Shape, Shapely, Asked
<1>a. /\ req \in [Requests -> Asked \cup {NoReq}]
      /\ pc \in [Requests -> {"idle", "shown", "done"} \cup Steps]
      /\ page \in [Requests -> Page]
  BY DEF TypeOK, Asked
<1>. USE DEF db, history, Accept, Goto, Finish, Continue, MarkMissed, Shapely, Steps,
             OpenSteps, HomeSteps, ResultSteps
<1>1. CASE Arrives(r)
  <2>1. ASSUME NEW u \in Users, NEW n \in Notices, NEW op \in {"open", "mark"}, StartOpen(r, u, n, op)
        PROVE  /\ req'[r] \in OpenReq /\ pc'[r] \in {"find", "findAgain"}
               /\ UNCHANGED <<page, held>> /\ pc[r] = "idle"
    <3>1. [op |-> op, user |-> u, assoc |-> HomeOf[u], notice |-> n] \in OpenReq
      BY Audience DEF OpenReq
    <3>. QED
      BY <1>a, <2>1, <3>1 DEF StartOpen
  <2>2. ASSUME NEW u \in Users, NEW a \in Assocs, StartHome(r, u, a)
        PROVE  /\ req'[r] \in HomeReq /\ pc'[r] = "listNotices"
               /\ UNCHANGED <<page, held>> /\ pc[r] = "idle"
    <3>1. [op |-> "home", user |-> u, assoc |-> a] \in HomeReq
      BY DEF HomeReq
    <3>. QED
      BY <1>a, <2>2, <3>1 DEF StartHome
  <2>3. ASSUME NEW u \in Users, NEW s \in Surveys, StartResults(r, u, s)
        PROVE  /\ req'[r] \in ResultReq /\ pc'[r] = "findSurvey"
               /\ UNCHANGED <<page, held>> /\ pc[r] = "idle"
    <3>1. [op |-> "results", user |-> u, survey |-> s] \in ResultReq
      BY DEF ResultReq
    <3>. QED
      BY <1>a, <2>3, <3>1 DEF StartResults
  <2>. QED
    BY <1>0, <1>1, <2>1, <2>2, <2>3 DEF Arrives, Asked
<1>2. CASE FindNotice(r) \/ FindForMark(r) \/ Mark(r)
  BY <1>0, <1>a, <1>2 DEF FindNotice, FindForMark, Mark, Query
<1>3. CASE ListNotices(r)
  <2>. DEFINE listed == {n \in Recent(req[r].assoc) : <<n, req[r].user>> \notin reads}
  <2>1. Cardinality(Recent(req[r].assoc)) \in Nat /\ Cardinality(listed) \in Nat
    BY ListedUnread
  <2>2. page'[r] \in Page
    BY <1>a, <1>0, <1>3, <2>1 DEF ListNotices, Page
  <2>. QED
    BY <1>0, <1>a, <1>3, <2>2 DEF ListNotices, Query
<1>4. CASE ListSurveys(r) \/ CountNotices(r) \/ CountSurveys(r)
  <2>1. /\ Cardinality(Unread(req[r].assoc, req[r].user)) \in Nat
        /\ Cardinality(Unanswered(req[r].assoc, req[r].user)) \in Nat
        /\ Cut(Cardinality(Unanswered(req[r].assoc, req[r].user))) \in Nat
    BY Countable, FS_CardinalityType, Audience DEF Cut
  <2>2. page'[r] \in Page
    <3>1. \E n \in Nat : page'[r] \in {[page[r] EXCEPT !.surveys = n], [page[r] EXCEPT !.unreadCount = n],
                                      [page[r] EXCEPT !.unansweredCount = n]}
      BY <1>a, <1>4, <2>1 DEF ListSurveys, CountNotices, CountSurveys
    <3>. QED
      BY <1>0, <3>1, PageTyped
  <2>. QED
    BY <1>0, <1>a, <1>4, <2>2 DEF ListSurveys, CountNotices, CountSurveys, Query
<1>5. CASE FindSurvey(r) \/ FindTitle(r)
  BY <1>0, <1>a, <1>5 DEF FindSurvey, FindTitle, Query
<1>6. CASE CountUsers(r)
  <2>1. Cardinality(Voters(req[r].survey)) \in Nat
    BY Countable, FS_CardinalityType
  <2>2. page'[r] \in Page /\ page'[r].next = 1
    <3>1. page'[r] = [page[r] EXCEPT !.total = Cardinality(Voters(req[r].survey))]
      BY <1>a, <1>6 DEF CountUsers, Counted, Voters
    <3>2. page[r].next = 1
      BY <1>0, <1>6 DEF CountUsers, Counted, Query, Empty
    <3>. QED
      BY <1>0, <2>1, <3>1, <3>2, PageTyped
  <2>. QED
    BY <1>0, <1>a, <1>6, <2>2 DEF CountUsers, Counted, Query
<1>7. CASE ReadQuestions(r)
  BY <1>0, <1>a, <1>7, Audience DEF ReadQuestions, Query
<1>8. CASE ReadChoices(r)
  <2>. DEFINE q == page[r].next
  <2>1. PICK n \in Nat : ShowAnswers(r, n) /\ pc[r] = "choices"
    BY <1>8, ChoicesRead DEF Query
  <2>2. q \in Nat /\ 1 <= q /\ q <= Questions /\ Questions \in Nat
    BY <1>0, <2>1, Audience DEF Page
  <2>3. [page[r].counts EXCEPT ![q] = n] \in [1..Questions -> Nat]
    BY <1>0, <2>2 DEF Page
  <2>4. page'[r] = [page[r] EXCEPT !.next = q + 1, !.counts = [page[r].counts EXCEPT ![q] = n]]
    BY <1>a, <2>1 DEF ShowAnswers
  <2>5. page'[r] \in Page
    <3>. HIDE DEF q
    <3>1. [page[r] EXCEPT !.next = q + 1, !.counts = [page[r].counts EXCEPT ![q] = n]] \in Page
      BY <1>0, <2>2, <2>3, PageCounted
    <3>. QED
      BY <2>4, <3>1
  <2>6. page'[r].next = q + 1
    BY <1>0, <2>4 DEF Page
  <2>7. IF q < Questions THEN UNCHANGED <<req, pc, held>> ELSE Finish(r, "shown")
    BY <2>1 DEF ShowAnswers
  <2>. HIDE DEF q
  <2>. QED
    BY <1>0, <1>a, <2>1, <2>2, <2>5, <2>6, <2>7
<1>9. CASE Abort(r)
  BY <1>0, <1>a, <1>9, EmptyPage DEF Abort
<1>. QED
  BY <1>1, <1>2, <1>3, <1>4, <1>5, <1>6, <1>7, <1>8, <1>9 DEF Step

TallyTyped ==
  voted \in [Requests -> [1..Questions -> Nat]] /\ cutOff \in [Requests -> SUBSET (1..Questions)]

\* What is recorded of the answers to a survey are numbers and questions.
LEMMA TallyStep ==
  ASSUME TypeOK, Shape, NEW r \in Requests, CountUsers(r) \/ ReadChoices(r)
  PROVE  TallyTyped'
<1>1. CASE CountUsers(r)
  <2>1. [q \in 1..Questions |-> Cardinality(Answerers(req[r].survey, q))] \in [1..Questions -> Nat]
    BY Countable, FS_CardinalityType
  <2>. QED
    BY <1>1, <2>1 DEF CountUsers, Counted, TallyTyped, TypeOK
<1>2. CASE ReadChoices(r)
  <2>1. pc[r] = "choices" /\ voted' = voted
    BY <1>2 DEF ReadChoices, ShowAnswers, Query
  <2>2. page[r].next \in 1..Questions
    BY <2>1, Audience DEF TypeOK, Page, Shape
  <2>3. cutOff' \in {cutOff, [cutOff EXCEPT ![r] = cutOff[r] \cup {page[r].next}]}
    BY <1>2 DEF ReadChoices
  <2>4. cutOff \in [Requests -> SUBSET (1..Questions)] /\ voted' \in [Requests -> [1..Questions -> Nat]]
    BY <2>1 DEF TypeOK
  <2>5. cutOff[r] \cup {page[r].next} \in SUBSET (1..Questions)
    BY <2>2, <2>4
  <2>6. cutOff' \in [Requests -> SUBSET (1..Questions)]
    BY <2>3, <2>4, <2>5
  <2>. QED
    BY <2>4, <2>6 DEF TallyTyped
<1>. QED
  BY <1>1, <1>2

\* The tables and the histories a step of a request changes.
LEMMA RecordsTyped ==
  ASSUME TypeOK, Shape, NEW r \in Requests, Arrives(r) \/ Step(r) \/ Abort(r)
  PROVE  /\ reads' \subseteq Notices \X Users /\ writes' \in 0..MaxWrites
         /\ opened' \subseteq Notices \X Users /\ missed' \subseteq Notices \X Users
         /\ drift' \in [Requests -> Nat] /\ TallyTyped'
<1>0. /\ reads \subseteq Notices \X Users /\ writes \in 0..MaxWrites /\ drift \in [Requests -> Nat]
      /\ opened \subseteq Notices \X Users /\ missed \subseteq Notices \X Users
      /\ TallyTyped /\ (UNCHANGED tally => TallyTyped')
      /\ pc[r] \in OpenSteps => Pair(r) \in Notices \X Users
  BY PairTyped DEF TypeOK, Shape, TallyTyped, tally
<1>. USE DEF db, history, Accept, MarkMissed, OpenSteps
<1>1. CASE Arrives(r)
  <2>1. ASSUME NEW u \in Users, NEW n \in Notices, NEW op \in {"open", "mark"}, StartOpen(r, u, n, op)
        PROVE  writes' \in 0..MaxWrites /\ UNCHANGED <<reads, drift, opened, missed, tally>>
    BY <1>0, <2>1, Audience DEF StartOpen
  <2>2. ASSUME NEW u \in Users, NEW a \in Assocs, StartHome(r, u, a)
        PROVE  UNCHANGED <<reads, writes, drift, opened, missed, tally>>
    BY <2>2 DEF StartHome
  <2>3. ASSUME NEW u \in Users, NEW s \in Surveys, StartResults(r, u, s)
        PROVE  UNCHANGED <<reads, writes, drift, opened, missed, tally>>
    BY <2>3 DEF StartResults
  <2>. QED
    BY <1>0, <1>1, <2>1, <2>2, <2>3 DEF Arrives
<1>2. CASE FindNotice(r) \/ FindForMark(r)
  BY <1>0, <1>2 DEF FindNotice, FindForMark, Query
<1>3. CASE Mark(r)
  BY <1>0, <1>3, DriftTyped DEF Mark, Query
<1>4. CASE ListNotices(r) \/ ListSurveys(r) \/ CountNotices(r) \/ CountSurveys(r)
  BY <1>0, <1>4 DEF ListNotices, ListSurveys, CountNotices, CountSurveys
<1>5. CASE FindSurvey(r) \/ FindTitle(r) \/ ReadQuestions(r)
  BY <1>0, <1>5 DEF FindSurvey, FindTitle, ReadQuestions
<1>6. CASE CountUsers(r) \/ ReadChoices(r)
  BY <1>0, <1>6, TallyStep DEF CountUsers, Counted, ReadChoices, ShowAnswers
<1>7. CASE Abort(r)
  <2>1. TallyTyped'
    BY <1>0, <1>7 DEF Abort, TallyTyped, Zeros
  <2>. QED
    BY <1>0, <1>7, <2>1, DriftTyped DEF Abort
<1>. QED
  BY <1>1, <1>2, <1>3, <1>4, <1>5, <1>6, <1>7 DEF Step

LEMMA TypeShapeStep == TypeOK /\ Shape /\ [Next]_vars => TypeOK' /\ Shape'
<1>. SUFFICES ASSUME TypeOK, Shape, [Next]_vars PROVE TypeOK' /\ Shape'
  OBVIOUS
<1>1. CASE Writing
  <2>1. TypeOK'
    <3>1. writes' \in 0..MaxWrites
      BY <1>1, WritingFrame, Audience DEF TypeOK
    <3>2. drift' \in [Requests -> Nat]
      BY <1>1, WritingFrame, DriftTyped
    <3>. QED
      BY <1>1, <3>1, <3>2, WritingFrame, WritingTypes DEF TypeOK, tally
  <2>2. Shape'
    BY <1>1, WritingFrame DEF Shape
  <2>. QED
    BY <2>1, <2>2
<1>2. ASSUME NEW r \in Requests, Arrives(r) \/ Step(r) \/ Abort(r) PROVE TypeOK' /\ Shape'
  <2>1. \A q \in Requests \ {r} : pc'[q] = pc[q] /\ req'[q] = req[q] /\ page'[q] = page[q]
    BY <1>2, OthersStill
  <2>2. Shapely(r)' /\ held' = IF pc'[r] = "choices" THEN held \cup {r} ELSE held \ {r}
    BY <1>2, ShapelyStep
  <2>3. /\ pc' = [pc EXCEPT ![r] = pc'[r]] /\ req' = [req EXCEPT ![r] = req'[r]]
        /\ page' = [page EXCEPT ![r] = page'[r]] /\ UNCHANGED <<notice, survey, ballot>>
    BY <1>2, OthersStill
  <2>4. pc'[r] \in {"idle", "shown", "done"} \cup Steps /\ page'[r] \in Page
    BY <2>2 DEF Shapely
  <2>5. req'[r] \in OpenReq \cup HomeReq \cup ResultReq \cup {NoReq}
    BY <2>2 DEF Shapely, Asked
  <2>6. pc' \in [Requests -> {"idle", "shown", "done"} \cup Steps]
    BY <2>3, <2>4 DEF TypeOK
  <2>7. req' \in [Requests -> OpenReq \cup HomeReq \cup ResultReq \cup {NoReq}]
    BY <2>3, <2>5 DEF TypeOK
  <2>8. page' \in [Requests -> Page]
    BY <2>3, <2>4 DEF TypeOK
  <2>9. held' = {q \in Requests : pc'[q] = "choices"}
    BY <2>1, <2>2 DEF TypeOK
  <2>10. TypeOK'
    BY <1>2, <2>3, <2>6, <2>7, <2>8, <2>9, RecordsTyped DEF TypeOK, TallyTyped
  <2>11. Shape'
    BY <2>1, <2>2 DEF Shape, Shapely
  <2>. QED
    BY <2>10, <2>11
<1>3. CASE UNCHANGED vars
  <2>1. TypeOK'
    BY <1>3 DEF TypeOK, vars, db, history, tally
  <2>2. Shape'
    BY <1>3 DEF Shape, vars
  <2>. QED
    BY <2>1, <2>2
<1>. QED
  BY <1>1, <1>2, <1>3, StepOf

-----------------------------------------------------------------------------
(* Marks *)

\* The row of notice n, which may be deleted, is one that user u may see.
Admitted(n, u) == notice[n] # Absent /\ notice[n].assoc = HomeOf[u] /\ Member(u)

\* A request for a notice is one of a member for its own association; the one that marks
\* has found the notice.
Entitled ==
  \A r \in Requests :
    /\ pc[r] \in OpenSteps => req[r].assoc = HomeOf[req[r].user] /\ Member(req[r].user)
    /\ pc[r] = "mark" => Admitted(req[r].notice, req[r].user)

\* Rows of notices keep their association.
LEMMA StaysAdmitted ==
  ASSUME TypeOK, [Next]_vars, NEW n \in Notices, NEW u, Admitted(n, u)
  PROVE  Admitted(n, u)'
<1>1. CASE Writing
  <2>1. ASSUME NEW v \in Users, NEW m \in Notices, NEW pinned \in BOOLEAN, CreateNotice(v, m, pinned)
        PROVE  notice'[n] = notice[n]
    BY <2>1 DEF CreateNotice, Admitted, TypeOK
  <2>2. ASSUME NEW v \in Users, NEW m \in Notices, DeleteNotice(v, m)
        PROVE  notice'[n].assoc = notice[n].assoc /\ notice'[n].state # "absent"
    <3>1. notice[n] \in NoticeRow
      BY DEF Admitted, TypeOK
    <3>. QED
      BY <2>2, <3>1 DEF DeleteNotice, TypeOK, NoticeRow
  <2>3. \/ \E v \in Users, m \in Notices : \/ \E pinned \in BOOLEAN : CreateNotice(v, m, pinned)
                                           \/ DeleteNotice(v, m)
        \/ notice' = notice
    BY <1>1 DEF Writing, SetSurvey, Answer
  <2>. QED
    BY <2>1, <2>2, <2>3 DEF Admitted, Absent, Member
<1>2. CASE notice' = notice
  BY <1>2 DEF Admitted, Member
<1>. QED
  BY <1>1, <1>2, StepOf, OthersStill DEF vars, db

EntitledOf(q) ==
  /\ pc[q] \in OpenSteps => req[q].assoc = HomeOf[req[q].user] /\ Member(req[q].user)
  /\ pc[q] = "mark" => Admitted(req[q].notice, req[q].user)

LEMMA EntitledStep == TypeOK /\ Shape /\ Entitled /\ [Next]_vars => Entitled'
<1>. SUFFICES ASSUME TypeOK, Shape, Entitled, [Next]_vars, NEW q \in Requests
              PROVE  EntitledOf(q)'
  BY DEF Entitled, EntitledOf
<1>1. CASE pc'[q] = pc[q] /\ req'[q] = req[q]
  <2>1. pc[q] = "mark" => req[q] \in OpenReq
    BY DEF Shape, OpenSteps
  <2>2. \A n \in Notices : \A u : Admitted(n, u) => Admitted(n, u)'
    BY StaysAdmitted
  <2>3. \A o : o = req[q] /\ pc[q] = "mark" => Admitted(o.notice, o.user)'
    BY <2>1, <2>2 DEF Entitled, OpenReq
  <2>. QED
    BY <1>1, <2>3 DEF Entitled, EntitledOf, Admitted, Member
<1>2. CASE Arrives(q) \/ Step(q) \/ Abort(q)
  <2>. USE DEF Accept, Goto, Finish, Continue, MarkMissed, OpenSteps, HomeSteps, ResultSteps, TypeOK,
               EntitledOf, Member
  <2>1. CASE Arrives(q)
    BY <2>1 DEF Arrives, StartOpen, StartHome, StartResults, Member
  <2>2. CASE FindNotice(q)
    BY <2>2 DEF FindNotice, Entitled, Query
  <2>3. CASE FindForMark(q)
    BY <2>3 DEF FindForMark, Entitled, Query, Visible, Admitted, Absent, db
  <2>4. pc'[q] \in OpenSteps => Arrives(q) \/ FindNotice(q) \/ FindForMark(q)
    <3>1. CASE Mark(q) \/ Abort(q)
      BY <3>1 DEF Mark, Abort
    <3>2. CASE ListNotices(q) \/ ListSurveys(q) \/ CountNotices(q) \/ CountSurveys(q)
      BY <3>2 DEF ListNotices, ListSurveys, CountNotices, CountSurveys
    <3>3. CASE FindSurvey(q) \/ FindTitle(q) \/ CountUsers(q)
      BY <3>3 DEF FindSurvey, FindTitle, CountUsers, Counted
    <3>4. CASE ReadQuestions(q) \/ ReadChoices(q)
      BY <3>4 DEF ReadQuestions, ReadChoices, ShowAnswers, Query
    <3>. QED
      BY <1>2, <3>1, <3>2, <3>3, <3>4 DEF Step
  <2>. QED
    BY <2>1, <2>2, <2>3, <2>4
<1>. QED
  BY <1>1, <1>2, StepOf, WritingFrame, OthersStill DEF vars

\* A step records a reader or shows a notice only where it is admitted.
LEMMA MarksStep == TypeOK /\ Shape /\ Entitled /\ MarksAdmitted /\ [Next]_vars => MarksAdmitted'
<1>. SUFFICES ASSUME TypeOK, Shape, Entitled, MarksAdmitted, [Next]_vars,
                     NEW p \in reads' \cup opened'
              PROVE  Admitted(p[1], p[2])'
  BY DEF MarksAdmitted, Admitted, Member
<1>1. CASE p \in reads \cup opened
  <2>1. p[1] \in Notices
    BY <1>1 DEF TypeOK
  <2>. QED
    BY <1>1, <2>1, StaysAdmitted DEF MarksAdmitted, Admitted
<1>2. CASE p \notin reads \cup opened
  <2>1. \E r \in Requests : (FindNotice(r) \/ Mark(r)) /\ p = Pair(r)
    <3>1. ~Writing
      BY <1>2, WritingFrame
    <3>2. PICK r \in Requests : Arrives(r) \/ Step(r) \/ Abort(r)
      BY <1>2, <3>1, StepOf DEF vars, db, history
    <3>. USE DEF db, history, Accept, MarkMissed
    <3>3. CASE Arrives(r) \/ Abort(r)
      BY <1>2, <3>3 DEF Arrives, StartOpen, StartHome, StartResults, Abort
    <3>4. CASE FindNotice(r) \/ FindForMark(r) \/ Mark(r)
      BY <1>2, <3>4 DEF FindNotice, FindForMark, Mark
    <3>5. CASE ListNotices(r) \/ ListSurveys(r) \/ CountNotices(r) \/ CountSurveys(r)
      BY <1>2, <3>5 DEF ListNotices, ListSurveys, CountNotices, CountSurveys
    <3>6. CASE FindSurvey(r) \/ FindTitle(r) \/ CountUsers(r) \/ ReadQuestions(r) \/ ReadChoices(r)
      BY <1>2, <3>6 DEF FindSurvey, FindTitle, CountUsers, Counted, ReadQuestions,
                    ReadChoices, ShowAnswers
    <3>. QED
      BY <3>2, <3>3, <3>4, <3>5, <3>6 DEF Step
  <2>2. PICK r \in Requests : (FindNotice(r) \/ Mark(r)) /\ p = Pair(r)
    BY <2>1
  <2>3. Admitted(p[1], p[2])
    <3>1. CASE Mark(r)
      BY <2>2, <3>1 DEF Mark, Query, Entitled, Pair
    <3>2. CASE FindNotice(r)
      <4>1. Visible(req[r].notice, req[r].assoc)
        BY <1>2, <3>2 DEF FindNotice, db
      <4>. QED
        BY <2>2, <3>2, <4>1 DEF FindNotice, Query, Entitled, Pair, Visible, Admitted, Absent, OpenSteps
    <3>. QED
      BY <2>2, <3>1, <3>2
  <2>4. p[1] \in Notices
    BY <2>2, PairTyped DEF FindNotice, Mark, Query, Shape, OpenSteps
  <2>. QED
    BY <2>3, <2>4, StaysAdmitted
<1>. QED
  BY <1>1, <1>2

\* A mark that is about to be made is made, or recorded as missed.
LEMMA OpenedStep == TypeOK /\ Shape /\ OpenedIsRead /\ [Next]_vars => OpenedIsRead'
<1>. SUFFICES ASSUME TypeOK, Shape, OpenedIsRead, [Next]_vars,
                     NEW p \in opened' \ (reads' \cup missed')
              PROVE  \E r \in Requests : pc'[r] \in {"findAgain", "mark"} /\ Pair(r)' = p
  BY DEF OpenedIsRead
<1>. USE DEF db, history, Accept, MarkMissed, Goto, Finish, Continue
<1>0. \A r \in Requests : pc'[r] \in {"findAgain", "mark"} /\ req'[r] = req[r] /\ Pair(r) = p =>
        \E q \in Requests : pc'[q] \in {"findAgain", "mark"} /\ Pair(q)' = p
  BY DEF Pair
<1>1. CASE \E r \in Requests : FindNotice(r) /\ p = Pair(r) /\ p \notin opened
  <2>1. PICK r \in Requests : FindNotice(r) /\ p = Pair(r) /\ p \notin opened
    BY <1>1
  <2>2. pc'[r] = "findAgain" /\ req'[r] = req[r]
    BY <2>1 DEF FindNotice, TypeOK
  <2>. QED
    BY <1>0, <2>1, <2>2
<1>2. CASE p \in opened
  <2>1. reads \subseteq reads' /\ missed \subseteq missed'
    <3>1. CASE \E r \in Requests : Arrives(r) \/ Step(r) \/ Abort(r)
      <4>1. PICK r \in Requests : Arrives(r) \/ Step(r) \/ Abort(r)
        BY <3>1
      <4>2. CASE Arrives(r) \/ Abort(r)
        BY <4>2 DEF Arrives, StartOpen, StartHome, StartResults, Abort
      <4>3. CASE FindNotice(r) \/ FindForMark(r) \/ Mark(r)
        BY <4>3 DEF FindNotice, FindForMark, Mark
      <4>4. CASE ListNotices(r) \/ ListSurveys(r) \/ CountNotices(r) \/ CountSurveys(r)
        BY <4>4 DEF ListNotices, ListSurveys, CountNotices, CountSurveys
      <4>5. CASE FindSurvey(r) \/ FindTitle(r) \/ CountUsers(r) \/ ReadQuestions(r) \/ ReadChoices(r)
        BY <4>5 DEF FindSurvey, FindTitle, CountUsers, Counted, ReadQuestions,
                    ReadChoices, ShowAnswers
      <4>. QED
        BY <4>1, <4>2, <4>3, <4>4, <4>5 DEF Step
    <3>. QED
      BY <3>1, StepOf, WritingFrame DEF vars
  <2>2. PICK r \in Requests : pc[r] \in {"findAgain", "mark"} /\ Pair(r) = p
    BY <1>2, <2>1 DEF OpenedIsRead
  <2>3. CASE pc'[r] = pc[r] /\ req'[r] = req[r]
    BY <1>0, <2>2, <2>3
  <2>4. CASE Arrives(r) \/ Step(r) \/ Abort(r)
    <3>1. Mark(r) \/ FindForMark(r) \/ Abort(r)
      <4>1. ~Arrives(r)
        BY <2>2 DEF Arrives, StartOpen, StartHome, StartResults
      <4>. QED
        BY <2>2, <2>4, <4>1 DEF Step, FindNotice, ListNotices, ListSurveys, CountNotices, CountSurveys,
           FindSurvey, FindTitle, CountUsers, Counted, ReadQuestions, ReadChoices, Query
    <3>2. pc'[r] = "mark" /\ req'[r] = req[r]
      BY <2>2, <3>1 DEF Mark, FindForMark, Abort, TypeOK
    <3>. QED
      BY <1>0, <2>2, <3>2
  <2>. QED
    BY <2>3, <2>4, StepOf, WritingFrame, OthersStill DEF vars
<1>3. CASE p \notin opened
  <2>1. ~Writing
    BY <1>3, WritingFrame
  <2>2. PICK r \in Requests : Arrives(r) \/ Step(r) \/ Abort(r)
    BY <1>3, <2>1, StepOf DEF vars
  <2>3. CASE Arrives(r) \/ Abort(r)
    BY <1>3, <2>3 DEF Arrives, StartOpen, StartHome, StartResults, Abort
  <2>4. CASE FindNotice(r)
    BY <1>1, <1>3, <2>4 DEF FindNotice
  <2>5. CASE FindForMark(r) \/ Mark(r)
    BY <1>3, <2>5 DEF FindForMark, Mark
  <2>6. CASE ListNotices(r) \/ ListSurveys(r) \/ CountNotices(r) \/ CountSurveys(r)
    BY <1>3, <2>6 DEF ListNotices, ListSurveys, CountNotices, CountSurveys
  <2>7. CASE FindSurvey(r) \/ FindTitle(r) \/ CountUsers(r) \/ ReadQuestions(r) \/ ReadChoices(r)
    BY <1>3, <2>7 DEF FindSurvey, FindTitle, CountUsers, Counted, ReadQuestions,
                    ReadChoices, ShowAnswers
  <2>. QED
    BY <2>2, <2>3, <2>4, <2>5, <2>6, <2>7 DEF Step
<1>. QED
  BY <1>2, <1>3

-----------------------------------------------------------------------------
(* Drift *)

Counting == {"listSurveys", "countNotices", "countSurveys", "questions", "choices"}

\* A write changes what is unread, unanswered or answered by one element at most.
LEMMA WritesOne ==
  ASSUME TypeOK, Writing \/ \E r \in Requests : Mark(r), NEW a, NEW u, NEW s,
         NEW q
  PROVE  /\ OneOff(Unread(a, u), Unread(a, u)')
         /\ OneOff(Unanswered(a, u), Unanswered(a, u)')
         /\ OneOff(Voters(s), Voters(s)') /\ OneOff(Answerers(s, q), Answerers(s, q)')
<1>. USE DEF TypeOK
<1>0. \A S, T : S = T => OneOff(S, T)
  BY DEF OneOff
<1>1. ASSUME NEW n \in Notices, \A m \in Notices \ {n} : notice'[m] = notice[m],
             UNCHANGED <<reads, survey, ballot>>
      PROVE  /\ OneOff(Unread(a, u), Unread(a, u)')
             /\ OneOff(Unanswered(a, u), Unanswered(a, u)')
             /\ OneOff(Voters(s), Voters(s)') /\ OneOff(Answerers(s, q), Answerers(s, q)')
  <2>1. Unread(a, u) \ {n} = Unread(a, u)' \ {n}
    BY <1>1 DEF Unread, LiveNotices, Visible
  <2>2. Unanswered(a, u)' = Unanswered(a, u) /\ Voters(s)' = Voters(s)
        /\ Answerers(s, q)' = Answerers(s, q)
    BY <1>1 DEF Unanswered, Voters, Answerers
  <2>. QED
    BY <1>0, <2>1, <2>2 DEF OneOff
<1>2. ASSUME NEW n, \A m \in Notices \ {n} : <<m, u>> \in reads' <=> <<m, u>> \in reads,
             UNCHANGED <<notice, survey, ballot>>
      PROVE  /\ OneOff(Unread(a, u), Unread(a, u)')
             /\ OneOff(Unanswered(a, u), Unanswered(a, u)')
             /\ OneOff(Voters(s), Voters(s)') /\ OneOff(Answerers(s, q), Answerers(s, q)')
  <2>1. Unread(a, u) \ {n} = Unread(a, u)' \ {n}
    BY <1>2 DEF Unread, LiveNotices, Visible
  <2>2. Unanswered(a, u)' = Unanswered(a, u) /\ Voters(s)' = Voters(s)
        /\ Answerers(s, q)' = Answerers(s, q)
    BY <1>2 DEF Unanswered, Voters, Answerers
  <2>. QED
    BY <1>0, <2>1, <2>2 DEF OneOff
<1>3. ASSUME NEW e \in Surveys, \A t \in Surveys \ {e} : survey'[t] = survey[t],
             UNCHANGED <<notice, reads, ballot>>
      PROVE  /\ OneOff(Unread(a, u), Unread(a, u)')
             /\ OneOff(Unanswered(a, u), Unanswered(a, u)')
             /\ OneOff(Voters(s), Voters(s)') /\ OneOff(Answerers(s, q), Answerers(s, q)')
  <2>1. Unanswered(a, u) \ {e} = Unanswered(a, u)' \ {e}
    BY <1>3 DEF Unanswered
  <2>2. Unread(a, u)' = Unread(a, u) /\ Voters(s)' = Voters(s)
        /\ Answerers(s, q)' = Answerers(s, q)
    BY <1>3 DEF Unread, LiveNotices, Visible, Voters, Answerers
  <2>. QED
    BY <1>0, <2>1, <2>2 DEF OneOff
<1>4. ASSUME NEW e \in Surveys, NEW v \in Users, NEW qs, ballot' = [ballot EXCEPT ![e][v] = qs],
             UNCHANGED <<notice, reads, survey>>
      PROVE  /\ OneOff(Unread(a, u), Unread(a, u)')
             /\ OneOff(Unanswered(a, u), Unanswered(a, u)')
             /\ OneOff(Voters(s), Voters(s)') /\ OneOff(Answerers(s, q), Answerers(s, q)')
  <2>1. Unanswered(a, u) \ {e} = Unanswered(a, u)' \ {e}
    BY <1>4 DEF Unanswered
  <2>2. \A w \in Users \ {v} : ballot'[s][w] = ballot[s][w]
    BY <1>4
  <2>3. /\ Voters(s) \ {v} = Voters(s)' \ {v}
        /\ Answerers(s, q) \ {v} = Answerers(s, q)' \ {v}
    BY <2>2 DEF Voters, Answerers
  <2>4. Unread(a, u)' = Unread(a, u)
    BY <1>4 DEF Unread, LiveNotices, Visible
  <2>. QED
    BY <1>0, <2>1, <2>3, <2>4 DEF OneOff
<1>5. ASSUME NEW r \in Requests, Mark(r)
      PROVE  /\ OneOff(Unread(a, u), Unread(a, u)')
             /\ OneOff(Unanswered(a, u), Unanswered(a, u)')
             /\ OneOff(Voters(s), Voters(s)') /\ OneOff(Answerers(s, q), Answerers(s, q)')
  BY <1>2, <1>5 DEF Mark, Pair
<1>6. CASE Writing
  <2>1. ASSUME NEW v \in Users, NEW n \in Notices,
               (\E pinned \in BOOLEAN : CreateNotice(v, n, pinned)) \/ DeleteNotice(v, n)
        PROVE  /\ \A m \in Notices \ {n} : notice'[m] = notice[m]
               /\ UNCHANGED <<reads, survey, ballot>>
    BY <2>1 DEF CreateNotice, DeleteNotice, Change
  <2>2. ASSUME NEW e \in Surveys, NEW from, NEW to, SetSurvey(e, from, to)
        PROVE  /\ \A t \in Surveys \ {e} : survey'[t] = survey[t]
               /\ UNCHANGED <<notice, reads, ballot>>
    BY <2>2 DEF SetSurvey, Change
  <2>3. ASSUME NEW e \in Surveys, NEW v \in Users, NEW qs, Answer(v, e, qs)
        PROVE  ballot' = [ballot EXCEPT ![e][v] = qs] /\ UNCHANGED <<notice, reads, survey>>
    BY <2>3 DEF Answer, Change
  <2>. QED
    <3>1. CASE \E v \in Users, n \in Notices :
                 (\E pinned \in BOOLEAN : CreateNotice(v, n, pinned)) \/ DeleteNotice(v, n)
      <4>1. PICK n \in Notices : /\ \A m \in Notices \ {n} : notice'[m] = notice[m]
                                 /\ UNCHANGED <<reads, survey, ballot>>
        BY <3>1, <2>1
      <4>. QED
        BY <4>1, <1>1
    <3>2. CASE \E e \in Surveys : \E from, to \in {"absent", "open", "expired", "deleted"} :
                 SetSurvey(e, from, to)
      <4>1. PICK e \in Surveys : /\ \A t \in Surveys \ {e} : survey'[t] = survey[t]
                                 /\ UNCHANGED <<notice, reads, ballot>>
        BY <3>2, <2>2
      <4>. QED
        BY <4>1, <1>3
    <3>3. CASE \E e \in Surveys, v \in Users, qs \in SUBSET (1..Questions) : Answer(v, e, qs)
      <4>1. PICK e \in Surveys, v \in Users, qs \in SUBSET (1..Questions) : Answer(v, e, qs)
        BY <3>3
      <4>2. ballot' = [ballot EXCEPT ![e][v] = qs] /\ UNCHANGED <<notice, reads, survey>>
        BY <4>1, <2>3
      <4>. QED
        BY <4>2, <1>4
    <3>. QED
      BY <1>6, <3>1, <3>2, <3>3 DEF Writing
<1>. QED
  BY <1>5, <1>6

\* A step leaves the tables and the drift of a request that goes on as they are, or is a
\* write, which the drift of a page under way counts.
LEMMA Drifts ==
  ASSUME TypeOK, Shape, [Next]_vars, NEW q \in Requests, ~Abort(q)
  PROVE  \/ drift'[q] = drift[q] /\ UNCHANGED <<notice, reads, survey, ballot>>
         \/ (Writing \/ \E r \in Requests : Mark(r)) /\ Written
<1>. USE DEF db, history, Accept, MarkMissed
<1>1. CASE Writing
  BY <1>1, WritingFrame
<1>2. ASSUME NEW r \in Requests, Arrives(r) \/ Abort(r)
      PROVE  drift'[q] = drift[q] /\ UNCHANGED <<notice, reads, survey, ballot>>
  BY <1>2 DEF Arrives, StartOpen, StartHome, StartResults, Abort, TypeOK
<1>3. ASSUME NEW r \in Requests, Step(r), ~Mark(r)
      PROVE  drift'[q] = drift[q] /\ UNCHANGED <<notice, reads, survey, ballot>>
  <2>1. CASE FindNotice(r) \/ FindForMark(r)
    BY <2>1 DEF FindNotice, FindForMark
  <2>2. CASE ListNotices(r) \/ ListSurveys(r) \/ CountNotices(r) \/ CountSurveys(r)
    BY <2>2 DEF ListNotices, ListSurveys, CountNotices, CountSurveys
  <2>3. CASE FindSurvey(r) \/ FindTitle(r) \/ CountUsers(r) \/ ReadQuestions(r) \/ ReadChoices(r)
    BY <2>3 DEF FindSurvey, FindTitle, CountUsers, Counted, ReadQuestions,
                    ReadChoices, ShowAnswers
  <2>. QED
    BY <1>3, <2>1, <2>2, <2>3 DEF Step
<1>4. ASSUME NEW r \in Requests, Mark(r) PROVE Written
  BY <1>4 DEF Mark
<1>5. CASE UNCHANGED vars
  BY <1>5 DEF vars
<1>. QED
  BY <1>1, <1>2, <1>3, <1>4, <1>5, StepOf

\* What a page under way counts changes by no more than its drift.
LEMMA CountsDrift ==
  ASSUME TypeOK, Shape, [Next]_vars, NEW q \in Requests, ~Abort(q), pc[q] \in Counting,
         NEW a, NEW u, NEW s, NEW k
  PROVE  /\ drift[q] \in Nat /\ drift'[q] \in Nat
         /\ LET d == drift'[q] - drift[q] IN
              /\ d \in Nat
              /\ Cardinality(Unread(a, u))' <= Cardinality(Unread(a, u)) + d
              /\ Cardinality(Unread(a, u)) <= Cardinality(Unread(a, u))' + d
              /\ Cardinality(Unanswered(a, u))' <= Cardinality(Unanswered(a, u)) + d
              /\ Cardinality(Unanswered(a, u)) <= Cardinality(Unanswered(a, u))' + d
              /\ Cardinality(Voters(s))' <= Cardinality(Voters(s)) + d
              /\ Cardinality(Answerers(s, k)) <= Cardinality(Answerers(s, k))' + d
<1>0. drift[q] \in Nat
  BY DEF TypeOK
<1>1. CASE drift'[q] = drift[q] /\ UNCHANGED <<notice, reads, survey, ballot>>
  <2>1. /\ Unread(a, u)' = Unread(a, u) /\ Unanswered(a, u)' = Unanswered(a, u)
        /\ Voters(s)' = Voters(s) /\ Answerers(s, k)' = Answerers(s, k)
    BY <1>1 DEF Unread, LiveNotices, Visible, Unanswered, Voters, Answerers
  <2>2. /\ Cardinality(Unread(a, u)) \in Nat /\ Cardinality(Unanswered(a, u)) \in Nat
        /\ Cardinality(Voters(s)) \in Nat /\ Cardinality(Answerers(s, k)) \in Nat
    BY Countable, FS_CardinalityType
  <2>3. /\ Cardinality(Unread(a, u))' = Cardinality(Unread(a, u))
        /\ Cardinality(Unanswered(a, u))' = Cardinality(Unanswered(a, u))
        /\ Cardinality(Voters(s))' = Cardinality(Voters(s))
        /\ Cardinality(Answerers(s, k))' = Cardinality(Answerers(s, k))
    BY <2>1
  <2>. QED
    BY <1>0, <1>1, <2>2, <2>3
<1>2. CASE (Writing \/ \E r \in Requests : Mark(r)) /\ Written
  <2>1. drift'[q] = drift[q] + 1
    BY <1>2 DEF Written, Counting
  <2>2. /\ OneOff(Unread(a, u), Unread(a, u)')
        /\ OneOff(Unanswered(a, u), Unanswered(a, u)')
        /\ OneOff(Voters(s), Voters(s)') /\ OneOff(Answerers(s, k), Answerers(s, k)')
    BY <1>2, WritesOne
  <2>3. /\ Cardinality(Unread(a, u)') <= Cardinality(Unread(a, u)) + 1
        /\ Cardinality(Unread(a, u)) <= Cardinality(Unread(a, u)') + 1
    BY <2>2, Countable, SameFinite, OneOffCount
  <2>4. /\ Cardinality(Unanswered(a, u)') <= Cardinality(Unanswered(a, u)) + 1
        /\ Cardinality(Unanswered(a, u)) <= Cardinality(Unanswered(a, u)') + 1
    BY <2>2, Countable, SameFinite, OneOffCount
  <2>5. /\ Cardinality(Voters(s)') <= Cardinality(Voters(s)) + 1
        /\ Cardinality(Answerers(s, k)) <= Cardinality(Answerers(s, k)') + 1
    BY <2>2, Countable, SameFinite, OneOffCount
  <2>. QED
    BY <1>0, <2>1, <2>3, <2>4, <2>5
<1>. QED
  BY <1>1, <1>2, Drifts

-----------------------------------------------------------------------------
(* Pages *)

\* list is at most count, and if it is not full just that, up to d.
Near(list, count, full, d) == list <= count + d /\ (~full => count <= list + d)

Ended(r, op) == pc[r] = "shown" /\ req[r].op = op

UnreadOf(r)     == Cardinality(Unread(req[r].assoc, req[r].user))
UnansweredOf(r) == Cardinality(Unanswered(req[r].assoc, req[r].user))
VotersOf(r)     == Cardinality(Voters(req[r].survey))
AnswersOf(r, q) == Cardinality(Answerers(req[r].survey, q))

\* The answers of question q that are to be read, and those that have been.
Due(r, q)  == voted[r][q] <= AnswersOf(r, q) + drift[r]
Told(r, q) == q \in cutOff[r] \/ voted[r][q] <= page[r].counts[q] + drift[r]

\* The lists of a home page agree with what is to be counted and then with the counts.
HomeNear(r) ==
  /\ pc[r] \in {"listSurveys", "countNotices"} =>
       Near(page[r].unread, UnreadOf(r), page[r].listed >= Limit, drift[r])
  /\ pc[r] = "countSurveys" \/ Ended(r, "home") =>
       Near(page[r].unread, page[r].unreadCount, page[r].listed >= Limit, drift[r])
  /\ pc[r] \in {"countNotices", "countSurveys"} =>
       Near(page[r].surveys, UnansweredOf(r), page[r].surveys >= Limit, drift[r])
  /\ Ended(r, "home") =>
       Near(page[r].surveys, page[r].unansweredCount, page[r].surveys >= Limit, drift[r])

\* The answers of a question that are to be counted or have been counted come from the users
\* whose number is on the page, or from submissions since; those of a question that was read
\* to the end are no fewer than when the users were counted, but for such submissions.
ResultsNear(r) ==
  /\ pc[r] \in {"questions", "choices"} => VotersOf(r) <= page[r].total + drift[r]
  /\ pc[r] \in {"questions", "choices"} \/ Ended(r, "results") =>
       \A q \in 1..Questions : page[r].counts[q] <= page[r].total + drift[r]
  /\ pc[r] \in {"questions", "choices"} =>
       \A q \in 1..Questions : page[r].next <= q => Due(r, q)
  /\ pc[r] = "choices" => \A q \in 1..Questions : q < page[r].next => Told(r, q)
  /\ Ended(r, "results") => \A q \in 1..Questions : Told(r, q)

PagesNear == \A r \in Requests : HomeNear(r) /\ ResultsNear(r)

\* Counts on a page and in the tables are numbers.
LEMMA Numbers ==
  ASSUME TypeOK, NEW r \in Requests
  PROVE  /\ page[r] \in Page /\ drift[r] \in Nat
         /\ UnreadOf(r) \in Nat /\ UnansweredOf(r) \in Nat /\ VotersOf(r) \in Nat
         /\ \A q : AnswersOf(r, q) \in Nat
         /\ \A q \in 1..Questions : voted[r][q] \in Nat /\ page[r].counts[q] \in Nat
<1>1. /\ page[r] \in Page /\ drift[r] \in Nat
      /\ \A q \in 1..Questions : voted[r][q] \in Nat /\ page[r].counts[q] \in Nat
  BY DEF TypeOK, Page
<1>2. /\ UnreadOf(r) \in Nat /\ UnansweredOf(r) \in Nat /\ VotersOf(r) \in Nat
      /\ \A q : AnswersOf(r, q) \in Nat
  BY Countable, FS_CardinalityType DEF UnreadOf, UnansweredOf, VotersOf, AnswersOf
<1>. QED
  BY <1>1, <1>2

\* As CountsDrift, for what request q asks for.
LEMMA AskedDrift ==
  ASSUME TypeOK, Shape, [Next]_vars, NEW q \in Requests, ~Abort(q), pc[q] \in Counting,
         req'[q] = req[q]
  PROVE  LET d == drift'[q] - drift[q] IN
         /\ d \in Nat /\ drift[q] \in Nat /\ drift'[q] \in Nat
         /\ UnreadOf(q)' <= UnreadOf(q) + d /\ UnreadOf(q) <= UnreadOf(q)' + d
         /\ UnansweredOf(q)' <= UnansweredOf(q) + d /\ UnansweredOf(q) <= UnansweredOf(q)' + d
         /\ VotersOf(q)' <= VotersOf(q) + d
         /\ \A k : AnswersOf(q, k) <= AnswersOf(q, k)' + d
<1>. DEFINE d == drift'[q] - drift[q]
<1>1. \A a, u, s, k :
        /\ Cardinality(Unread(a, u))' <= Cardinality(Unread(a, u)) + d
        /\ Cardinality(Unread(a, u)) <= Cardinality(Unread(a, u))' + d
        /\ Cardinality(Unanswered(a, u))' <= Cardinality(Unanswered(a, u)) + d
        /\ Cardinality(Unanswered(a, u)) <= Cardinality(Unanswered(a, u))' + d
        /\ Cardinality(Voters(s))' <= Cardinality(Voters(s)) + d
        /\ Cardinality(Answerers(s, k)) <= Cardinality(Answerers(s, k))' + d
  BY CountsDrift
<1>2. d \in Nat /\ drift[q] \in Nat /\ drift'[q] \in Nat
  BY CountsDrift
<1>. HIDE DEF d
<1>3. \A a, u, s : a = req[q].assoc /\ u = req[q].user /\ s = req[q].survey =>
        /\ Cardinality(Unread(a, u))' = UnreadOf(q)'
        /\ Cardinality(Unanswered(a, u))' = UnansweredOf(q)'
        /\ Cardinality(Voters(s))' = VotersOf(q)'
        /\ \A k : Cardinality(Answerers(s, k))' = AnswersOf(q, k)'
  BY DEF UnreadOf, UnansweredOf, VotersOf, AnswersOf, Unread, LiveNotices, Visible, Unanswered,
         Voters, Answerers
<1>4. /\ UnreadOf(q)' <= UnreadOf(q) + d /\ UnreadOf(q) <= UnreadOf(q)' + d
      /\ UnansweredOf(q)' <= UnansweredOf(q) + d /\ UnansweredOf(q) <= UnansweredOf(q)' + d
      /\ VotersOf(q)' <= VotersOf(q) + d
  BY <1>1, <1>3 DEF UnreadOf, UnansweredOf, VotersOf
<1>5. ASSUME NEW k PROVE AnswersOf(q, k) <= AnswersOf(q, k)' + d
  BY <1>1, <1>3 DEF AnswersOf
<1>. QED
  BY <1>2, <1>4, <1>5 DEF d

\* A page no query of which is made stays near.
LEMMA RestNear ==
  ASSUME TypeOK, Shape, [Next]_vars, NEW q \in Requests, HomeNear(q), ResultsNear(q),
         ~Abort(q), pc'[q] = pc[q], req'[q] = req[q], page'[q] = page[q],
         voted'[q] = voted[q], cutOff'[q] = cutOff[q]
  PROVE  HomeNear(q)' /\ ResultsNear(q)'
<1>0. /\ page[q] \in Page /\ drift[q] \in Nat
      /\ UnreadOf(q) \in Nat /\ UnansweredOf(q) \in Nat /\ VotersOf(q) \in Nat
      /\ UnreadOf(q)' \in Nat /\ UnansweredOf(q)' \in Nat /\ VotersOf(q)' \in Nat
  BY Numbers, TypeShapeStep, Countable, SameFinite, FS_CardinalityType
     DEF UnreadOf, UnansweredOf, VotersOf
<1>1. CASE pc[q] \in Counting
  <2>. DEFINE d == drift'[q] - drift[q]
  <2>1. /\ d \in Nat /\ drift[q] \in Nat /\ drift'[q] = drift[q] + d
        /\ UnreadOf(q)' <= UnreadOf(q) + d /\ UnreadOf(q) <= UnreadOf(q)' + d
        /\ UnansweredOf(q)' <= UnansweredOf(q) + d /\ UnansweredOf(q) <= UnansweredOf(q)' + d
        /\ VotersOf(q)' <= VotersOf(q) + d
        /\ \A k : AnswersOf(q, k) <= AnswersOf(q, k)' + d
    BY <1>1, AskedDrift
  <2>. HIDE DEF d
  <2>2. HomeNear(q)'
    <3>. SUFFICES ASSUME pc[q] \in {"listSurveys", "countNotices", "countSurveys"}
                  PROVE  HomeNear(q)'
      BY <1>1 DEF HomeNear, Counting, Ended
    <3>1. ASSUME NEW list \in Nat, NEW count \in Nat, NEW now \in Nat, NEW full,
                 Near(list, count, full, drift[q]), now <= count + d, count <= now + d
          PROVE  Near(list, now, full, drift'[q])
      BY <2>1, <3>1 DEF Near
    <3>2. /\ page[q].unread \in Nat /\ page[q].surveys \in Nat /\ page[q].unreadCount \in Nat
          /\ page[q].unansweredCount \in Nat
      BY <1>0 DEF Page
    <3>3. CASE pc[q] = "listSurveys"
      <4>1. Near(page[q].unread, UnreadOf(q)', page[q].listed >= Limit, drift'[q])
        BY <3>1, <3>2, <3>3, <1>0, <2>1 DEF HomeNear
      <4>. QED
        BY <4>1, <3>3 DEF HomeNear, Ended
    <3>4. CASE pc[q] = "countNotices"
      <4>1. Near(page[q].unread, UnreadOf(q)', page[q].listed >= Limit, drift'[q])
        BY <3>1, <3>2, <3>4, <1>0, <2>1 DEF HomeNear
      <4>2. Near(page[q].surveys, UnansweredOf(q)', page[q].surveys >= Limit, drift'[q])
        BY <3>1, <3>2, <3>4, <1>0, <2>1 DEF HomeNear
      <4>. QED
        BY <4>1, <4>2, <3>4 DEF HomeNear, Ended
    <3>5. CASE pc[q] = "countSurveys"
      <4>1. Near(page[q].unread, page[q].unreadCount, page[q].listed >= Limit, drift'[q])
        BY <3>2, <3>5, <1>0, <2>1 DEF HomeNear, Near
      <4>2. Near(page[q].surveys, UnansweredOf(q)', page[q].surveys >= Limit, drift'[q])
        BY <3>1, <3>2, <3>5, <1>0, <2>1 DEF HomeNear
      <4>. QED
        BY <4>1, <4>2, <3>5 DEF HomeNear, Ended
    <3>. QED
      BY <3>3, <3>4, <3>5
  <2>3. ResultsNear(q)'
    <3>1. CASE pc[q] \in {"questions", "choices"}
      <4>1. VotersOf(q) <= page[q].total + drift[q] /\ page[q].total \in Nat
        BY <1>0, <3>1 DEF ResultsNear, Page
      <4>2. VotersOf(q)' <= page[q].total + drift'[q]
        BY <1>0, <2>1, <4>1
      <4>3. ASSUME NEW k \in 1..Questions PROVE page[q].counts[k] <= page[q].total + drift'[q]
        <5>1. page[q].counts[k] <= page[q].total + drift[q] /\ page[q].counts[k] \in Nat
          BY <1>0, <3>1 DEF ResultsNear, Page
        <5>. QED
          BY <1>0, <2>1, <4>1, <5>1
      <4>4. ASSUME NEW k \in 1..Questions, Due(q, k) PROVE Due(q, k)'
        <5>1. /\ voted[q][k] \in Nat /\ AnswersOf(q, k) \in Nat
              /\ voted[q][k] <= AnswersOf(q, k) + drift[q]
              /\ AnswersOf(q, k) <= AnswersOf(q, k)' + d
          BY <2>1, <4>4, Numbers DEF Due
        <5>2. AnswersOf(q, k)' \in Nat
          BY SameFinite, FS_CardinalityType DEF AnswersOf
        <5>3. voted[q][k] <= AnswersOf(q, k)' + drift'[q]
          BY <2>1, <5>1, <5>2
        <5>. QED
          BY <5>3 DEF Due
      <4>5. ASSUME NEW k \in 1..Questions, Told(q, k) PROVE Told(q, k)'
        <5>1. voted[q][k] \in Nat /\ page[q].counts[k] \in Nat
          BY Numbers
        <5>. QED
          BY <2>1, <4>5, <5>1 DEF Told
      <4>. QED
        BY <4>2, <4>3, <4>4, <4>5, <3>1 DEF ResultsNear, Ended
    <3>2. CASE pc[q] \notin {"questions", "choices"}
      BY <1>1, <3>2 DEF ResultsNear, Ended, Counting
    <3>. QED
      BY <3>1, <3>2
  <2>. QED
    BY <2>2, <2>3
<1>2. CASE pc[q] \notin Counting
  <2>1. drift'[q] = drift[q]
    BY <1>2, Drifts DEF Written, Counting
  <2>. QED
    BY <1>2, <2>1 DEF HomeNear, ResultsNear, Told, Ended, Counting
<1>. QED
  BY <1>1, <1>2

\* The queries of a home page: a list is near what is to be counted, and a count is that.
LEMMA HomeQueryNear ==
  ASSUME TypeOK, Shape, NEW r \in Requests, HomeNear(r),
         ListNotices(r) \/ ListSurveys(r) \/ CountNotices(r) \/ CountSurveys(r)
  PROVE  HomeNear(r)' /\ ResultsNear(r)'
<1>. USE DEF Continue, Goto, Finish, Query
<1>0. /\ page[r] \in Page /\ drift[r] \in Nat /\ drift' = drift /\ Limit \in Nat
      /\ UnreadOf(r) \in Nat /\ UnansweredOf(r) \in Nat
      /\ req[r] \in HomeReq /\ req[r].op = "home"
  <2>1. req[r] \in HomeReq
    BY DEF Shape, HomeSteps, ListNotices, ListSurveys, CountNotices, CountSurveys
  <2>. QED
    BY <2>1, Numbers, Audience
       DEF HomeReq, ListNotices, ListSurveys, CountNotices, CountSurveys, history
<1>1. req'[r] = req[r] => UnreadOf(r)' = UnreadOf(r) /\ UnansweredOf(r)' = UnansweredOf(r)
  BY DEF ListNotices, ListSurveys, CountNotices, CountSurveys, db, UnreadOf, UnansweredOf,
         Unread, LiveNotices, Visible, Unanswered
<1>2. CASE ListNotices(r)
  <2>. DEFINE a == req[r].assoc
              list == {n \in Recent(a) : <<n, req[r].user>> \notin reads}
  <2>1. /\ Cardinality(Recent(a)) \in Nat /\ Cardinality(list) \in Nat
        /\ Cardinality(list) <= UnreadOf(r)
        /\ Cardinality(Recent(a)) < Limit => Cardinality(list) = UnreadOf(r)
    BY ListedUnread DEF UnreadOf
  <2>2. /\ pc'[r] = "listSurveys" /\ req'[r] = req[r]
        /\ page'[r].listed = Cardinality(Recent(a)) /\ page'[r].unread = Cardinality(list)
    BY <1>0, <1>2 DEF ListNotices, TypeOK, Page
  <2>3. Near(page'[r].unread, UnreadOf(r), page'[r].listed >= Limit, drift[r])
    <3>. HIDE DEF list, a
    <3>. QED
      BY <1>0, <2>1, <2>2 DEF Near
  <2>. QED
    BY <1>0, <1>1, <2>2, <2>3 DEF HomeNear, ResultsNear, Ended
<1>3. CASE ListSurveys(r)
  <2>1. /\ pc'[r] = "countNotices" /\ req'[r] = req[r] /\ pc[r] = "listSurveys"
        /\ page'[r].surveys = Cut(UnansweredOf(r))
        /\ page'[r].unread = page[r].unread /\ page'[r].listed = page[r].listed
    BY <1>0, <1>3 DEF ListSurveys, TypeOK, Page, UnansweredOf
  <2>2. Near(page'[r].surveys, UnansweredOf(r), page'[r].surveys >= Limit, drift[r])
    BY <1>0, <2>1 DEF Near, Cut
  <2>. QED
    BY <1>0, <1>1, <2>1, <2>2 DEF HomeNear, ResultsNear, Ended
<1>4. CASE CountNotices(r)
  <2>1. /\ pc'[r] = "countSurveys" /\ req'[r] = req[r] /\ pc[r] = "countNotices"
        /\ page'[r].unreadCount = UnreadOf(r) /\ page'[r].surveys = page[r].surveys
        /\ page'[r].unread = page[r].unread /\ page'[r].listed = page[r].listed
    BY <1>0, <1>4 DEF CountNotices, TypeOK, Page, UnreadOf
  <2>. QED
    BY <1>0, <1>1, <2>1 DEF HomeNear, ResultsNear, Ended
<1>5. CASE CountSurveys(r)
  <2>1. /\ pc'[r] = "shown" /\ req'[r] = req[r] /\ pc[r] = "countSurveys"
        /\ page'[r].unansweredCount = UnansweredOf(r) /\ page'[r].surveys = page[r].surveys
        /\ page'[r].unread = page[r].unread /\ page'[r].listed = page[r].listed
        /\ page'[r].unreadCount = page[r].unreadCount
    BY <1>0, <1>5 DEF CountSurveys, TypeOK, Page, UnansweredOf
  <2>. QED
    BY <1>0, <1>1, <2>1 DEF HomeNear, ResultsNear, Ended
<1>. QED
  BY <1>2, <1>3, <1>4, <1>5

\* The queries of a results page.
LEMMA ResultsQueryNear ==
  ASSUME TypeOK, Shape, NEW r \in Requests, ResultsNear(r),
         CountUsers(r) \/ ReadQuestions(r) \/ ReadChoices(r)
  PROVE  HomeNear(r)' /\ ResultsNear(r)'
<1>. USE DEF Continue, Goto, Finish, Query
<1>0. /\ page[r] \in Page /\ drift[r] \in Nat /\ drift' = drift /\ Questions \in Nat
      /\ VotersOf(r) \in Nat /\ req[r] \in ResultReq /\ req[r].op = "results"
  <2>1. req[r] \in ResultReq
    BY DEF Shape, ResultSteps, CountUsers, Counted, ReadQuestions, ReadChoices
  <2>. QED
    BY <2>1, Numbers, Audience
       DEF ResultReq, CountUsers, Counted, ReadQuestions, ReadChoices, ShowAnswers, history
<1>1. req'[r] = req[r] => VotersOf(r)' = VotersOf(r) /\ \A k : AnswersOf(r, k)' = AnswersOf(r, k)
  BY DEF CountUsers, Counted, ReadQuestions, ReadChoices, ShowAnswers, db, VotersOf, Voters,
         AnswersOf, Answerers
<1>2. CASE CountUsers(r)
  <2>1. /\ pc'[r] = "questions" /\ req'[r] = req[r]
        /\ page'[r].total = VotersOf(r) /\ page'[r].counts = page[r].counts
        /\ \A k \in 1..Questions : voted'[r][k] = AnswersOf(r, k)
    BY <1>0, <1>2 DEF CountUsers, Counted, TypeOK, Page, VotersOf, Voters, AnswersOf
  <2>2. \A q \in 1..Questions : page[r].counts[q] = 0
    <3>1. page[r] = Empty
      BY <1>2 DEF CountUsers, Counted, Shape
    <3>2. page[r].counts = [q \in 1..Questions |-> 0]
      BY <3>1 DEF Empty, Zeros
    <3>. QED
      BY <3>2
  <2>3. ASSUME NEW k \in 1..Questions PROVE Due(r, k)'
    <3>1. AnswersOf(r, k) \in Nat /\ voted'[r][k] = AnswersOf(r, k)
      BY <2>1, Numbers
    <3>2. AnswersOf(r, k)' = AnswersOf(r, k) /\ drift'[r] = drift[r]
      BY <1>0, <1>1, <2>1
    <3>. QED
      BY <1>0, <3>1, <3>2 DEF Due
  <2>. QED
    BY <1>0, <1>1, <2>1, <2>2, <2>3 DEF HomeNear, ResultsNear, Ended
<1>3. CASE ReadQuestions(r)
  <2>1. /\ pc'[r] = (IF Questions > 0 THEN "choices" ELSE "shown") /\ pc[r] = "questions"
        /\ page' = page /\ req'[r] = req[r] /\ voted' = voted
    BY <1>0, <1>3 DEF ReadQuestions, TypeOK, history, tally
  <2>2. ASSUME NEW k \in 1..Questions, Due(r, k) PROVE Due(r, k)'
    BY <1>0, <1>1, <2>1, <2>2 DEF Due
  <2>3. page[r].next = 1 /\ \A k \in 1..Questions : ~(k < 1)
    BY <2>1 DEF Shape
  <2>. QED
    BY <1>0, <1>1, <2>1, <2>2, <2>3 DEF HomeNear, ResultsNear, Ended
<1>4. CASE ReadChoices(r)
  <2>. DEFINE k == page[r].next
              all == AnswersOf(r, k)
  <2>1. PICK n \in 0..all : /\ ShowAnswers(r, n)
                            /\ \/ n = all /\ cutOff' = cutOff
                               \/ cutOff' = [cutOff EXCEPT ![r] = @ \cup {k}]
    BY <1>4, ChoicesRead DEF AnswersOf
  <2>2. /\ pc'[r] = (IF k < Questions THEN "choices" ELSE "shown") /\ pc[r] = "choices"
        /\ req'[r] = req[r] /\ voted' = voted
        /\ page'[r] = [page[r] EXCEPT !.next = k + 1, !.counts = [page[r].counts EXCEPT ![k] = n]]
    BY <1>4, <2>1 DEF ReadChoices, ShowAnswers, TypeOK
  <2>3. all \in Nat /\ n \in Nat /\ n <= all /\ all <= VotersOf(r)
    <3>1. Answerers(req[r].survey, k) \subseteq Voters(req[r].survey)
      BY DEF Voters, Answerers
    <3>2. all <= VotersOf(r)
      BY <3>1, Countable, FS_Subset DEF VotersOf, AnswersOf
    <3>. QED
      BY <2>1, <3>2, Numbers
  <2>4. /\ k \in 1..Questions
        /\ cutOff'[r] \in {cutOff[r], cutOff[r] \cup {k}} /\ (n = all \/ k \in cutOff'[r])
    <3>1. k \in 1..Questions
      BY <1>0, <2>2 DEF Shape, Page
    <3>. QED
      BY <2>1, <3>1 DEF TypeOK
  <2>5. /\ page'[r].total = page[r].total /\ page'[r].counts = [page[r].counts EXCEPT ![k] = n]
        /\ page'[r].next = k + 1
    BY <1>0, <2>2 DEF Page
  <2>6. /\ page[r].counts \in [1..Questions -> Nat] /\ page[r].total \in Nat
        /\ Due(r, k) /\ drift'[r] = drift[r]
    BY <1>0, <2>2, <2>4 DEF Page, ResultsNear
  <2>7. ASSUME NEW q \in 1..Questions PROVE page'[r].counts[q] <= page[r].total + drift[r]
    <3>1. /\ page[r].counts[q] <= page[r].total + drift[r]
          /\ VotersOf(r) <= page[r].total + drift[r]
      BY <2>2 DEF ResultsNear
    <3>. HIDE DEF k, all
    <3>2. page'[r].counts[q] \in {page[r].counts[q], n}
      BY <2>5, <2>6
    <3>3. n <= page[r].total + drift[r]
      BY <1>0, <2>3, <2>6, <3>1
    <3>. QED
      BY <3>1, <3>2, <3>3
  <2>8. ASSUME NEW q \in 1..Questions, q < k PROVE Told(r, q)'
    <3>1. Told(r, q)
      BY <2>2, <2>8 DEF ResultsNear
    <3>2. page'[r].counts[q] = page[r].counts[q] /\ cutOff[r] \subseteq cutOff'[r]
      BY <2>4, <2>5, <2>6, <2>8
    <3>. QED
      BY <2>2, <2>6, <3>1, <3>2 DEF Told
  <2>9. ASSUME NEW q, q = k PROVE Told(r, q)'
    <3>1. page'[r].counts[q] = n
      BY <2>4, <2>5, <2>6, <2>9
    <3>2. n = all => voted'[r][q] <= n + drift'[r]
      BY <2>2, <2>6, <2>9 DEF Due
    <3>. QED
      BY <2>4, <2>9, <3>1, <3>2 DEF Told
  <2>10. ASSUME NEW q \in 1..Questions, k + 1 <= q PROVE Due(r, q)'
    <3>1. Due(r, q)
      <4>1. k <= q
        BY <2>4, <2>10
      <4>. QED
        BY <2>2, <4>1 DEF ResultsNear
    <3>2. AnswersOf(r, q)' = AnswersOf(r, q)
      BY <1>1, <2>2
    <3>. QED
      BY <2>2, <2>6, <3>1, <3>2 DEF Due
  <2>. HIDE DEF k, all
  <2>11. ASSUME NEW q \in 1..Questions, q < k + 1 PROVE Told(r, q)'
    <3>1. CASE q = k
      BY <2>9, <3>1
    <3>2. CASE q < k
      BY <2>8, <3>2
    <3>. QED
      BY <2>4, <2>11, <3>1, <3>2
  <2>12. ~(k < Questions) => \A q \in 1..Questions : q < k + 1
    BY <1>0, <2>4
  <2>. QED
    BY <1>0, <1>1, <2>2, <2>5, <2>6, <2>7, <2>10, <2>11, <2>12 DEF HomeNear, ResultsNear, Ended
<1>. QED
  BY <1>2, <1>3, <1>4

LEMMA NearStep == TypeOK /\ Shape /\ PagesNear /\ [Next]_vars => PagesNear'
<1>. SUFFICES ASSUME TypeOK, Shape, PagesNear, [Next]_vars, NEW q \in Requests
              PROVE  HomeNear(q)' /\ ResultsNear(q)'
  BY DEF PagesNear
<1>0. HomeNear(q) /\ ResultsNear(q)
  BY DEF PagesNear
<1>1. CASE pc'[q] \in {"idle", "done"} \cup OpenSteps \cup {"listNotices", "findSurvey", "title", "countUsers"}
  BY <1>1 DEF HomeNear, ResultsNear, Ended, OpenSteps
<1>2. CASE Abort(q)
  BY <1>2 DEF Abort, MarkMissed, Finish, Goto, TypeOK, HomeNear, ResultsNear, Ended
<1>3. CASE ListNotices(q) \/ ListSurveys(q) \/ CountNotices(q) \/ CountSurveys(q)
  BY <1>0, <1>3, HomeQueryNear
<1>4. CASE CountUsers(q) \/ ReadQuestions(q) \/ ReadChoices(q)
  BY <1>0, <1>4, ResultsQueryNear
<1>5. CASE Arrives(q)
  <2>1. pc'[q] \in OpenSteps \cup {"listNotices", "findSurvey"}
    BY <1>5 DEF Arrives, StartOpen, StartHome, StartResults, Accept, Goto, OpenSteps, TypeOK
  <2>. QED
    BY <1>1, <2>1
<1>6. CASE FindNotice(q) \/ FindForMark(q) \/ Mark(q) \/ FindSurvey(q) \/ FindTitle(q)
  <2>1. pc'[q] \in {"done"} \cup OpenSteps \cup {"title", "countUsers"}
    BY <1>6 DEF FindNotice, FindForMark, Mark, FindSurvey, FindTitle, MarkMissed, Finish, Continue,
                Goto, OpenSteps, TypeOK
  <2>. QED
    BY <1>1, <2>1
<1>7. CASE /\ ~Abort(q) /\ pc'[q] = pc[q] /\ req'[q] = req[q] /\ page'[q] = page[q]
           /\ voted'[q] = voted[q] /\ cutOff'[q] = cutOff[q]
  BY <1>0, <1>7, RestNear
<1>8. \/ Arrives(q) \/ Step(q) \/ Abort(q)
      \/ /\ pc'[q] = pc[q] /\ req'[q] = req[q] /\ page'[q] = page[q]
         /\ voted'[q] = voted[q] /\ cutOff'[q] = cutOff[q]
  BY StepOf, WritingFrame, OthersStill DEF vars, history, tally
<1>. QED
  BY <1>2, <1>3, <1>4, <1>5, <1>6, <1>7, <1>8 DEF Step

-----------------------------------------------------------------------------
(* The theorems *)

\* The inductive invariant.
IInv == TypeOK /\ Shape /\ Entitled /\ MarksAdmitted /\ OpenedIsRead /\ PagesNear

LEMMA InitInv == Init => IInv
<1>. SUFFICES ASSUME Init PROVE IInv
  OBVIOUS
<1>1. Entitled /\ MarksAdmitted /\ OpenedIsRead
  BY DEF Init, Entitled, MarksAdmitted, OpenedIsRead, OpenSteps
<1>2. PagesNear
  BY DEF Init, PagesNear, HomeNear, ResultsNear, Ended
<1>. QED
  BY <1>1, <1>2, InitTypes DEF IInv

LEMMA InvHolds == Spec => []IInv
<1>1. IInv /\ [Next]_vars => IInv'
  BY TypeShapeStep, EntitledStep, MarksStep, OpenedStep, NearStep DEF IInv
<1>. QED
  BY InitInv, <1>1, PTL DEF Spec

\* Every variable keeps its type, and requests keep a connection between two queries only
\* while the results page reads its questions.
THEOREM ReadersTyped == Spec => []TypeOK
<1>1. IInv => TypeOK
  BY DEF IInv
<1>. QED
  BY <1>1, InvHolds, PTL

\* Handler.Get and Handler.MarkAsRead show a notice to, and record as its readers, members
\* of its own association only, although lookup and INSERT are two statements.
THEOREM ReadersAdmitted == Spec => []MarksAdmitted
<1>1. IInv => MarksAdmitted
  BY DEF IInv
<1>. QED
  BY <1>1, InvHolds, PTL

\* A notice that Handler.Get has shown is marked as read, is about to be, or its mark failed
\* or met the deletion of the notice.
THEOREM ShownIsMarked == Spec => []OpenedIsRead
<1>1. IInv => OpenedIsRead
  BY DEF IInv
<1>. QED
  BY <1>1, InvHolds, PTL

\* The lists and the counts of a home page, read by queries of their own, differ by no more
\* than the writes between them, for lists of any length and any number of writes.
THEOREM HomeConsistent == Spec => []HomeSkewBounded
<1>1. IInv => HomeSkewBounded
  BY DEF IInv, PagesNear, HomeNear, Ended, Near, HomeSkewBounded
<1>. QED
  BY <1>1, InvHolds, PTL

\* A question of a results page has no more answers than users counted, and no fewer than
\* users had answered it then, but for as many as were submitted since; too few only where
\* GetResults stopped reading choices because their query failed.
THEOREM ResultsConsistent == Spec => []ResultsSkewBounded
<1>1. IInv => ResultsSkewBounded
  BY DEF IInv, PagesNear, ResultsNear, Told, Ended, ResultsSkewBounded
<1>. QED
  BY <1>1, InvHolds, PTL
=============================================================================
