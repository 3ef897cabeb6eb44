---------------------------- MODULE AnswerSheet ----------------------------
(***************************************************************************)
(* What answering a survey promises its users: a sheet with one ballot per *)
(* user and survey.  A user casts a whole ballot at once, it replaces the  *)
(* user's former ballot, touches nobody else's, and marks one choice of a  *)
(* "single" question at most.                                              *)
(***************************************************************************)
EXTENDS Naturals, FiniteSets

CONSTANTS Users, Surveys, Questions, Choices, SurveyOf, QuestionOf, Single

VARIABLE sheet  \* marks: [survey, user, question, choice]

Mark == [survey : Surveys, user : Users, question : Questions, choice : Choices]

Pairs(s) ==
  {m \in Questions \X Choices : SurveyOf[m[1]] = s /\ QuestionOf[m[2]] = m[1]}

Ballots(s) ==
  {b \in SUBSET Pairs(s) :
     \A m, n \in b : (m[1] = n[1] /\ m[1] \in Single) => m = n}

Marks(u, s, b) ==
  {[survey |-> s, user |-> u, question |-> m[1], choice |-> m[2]] : m \in b}

Init == sheet = {}

Cast(u, s, b) ==
  sheet' = {m \in sheet : m.user # u \/ m.survey # s} \cup Marks(u, s, b)

Next == \E u \in Users, s \in Surveys : \E b \in Ballots(s) : Cast(u, s, b)

Spec == Init /\ [][Next]_sheet
=============================================================================
