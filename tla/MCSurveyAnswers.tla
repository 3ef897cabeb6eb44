-------------------------- MODULE MCSurveyAnswers --------------------------
(* Small instances of SurveyAnswers for TLC. *)
EXTENDS SurveyAnswersProofs, TLC

CONSTANTS r1, r2, r3, member, other, admin, a1, a2, s1, q1, q2, c1, c2, c3, c4

\* One survey with a single and a multiple question, two choices each.
MCSurveyOf   == [q \in {q1, q2} |-> s1]
MCQuestionOf == [c \in {c1, c2, c3, c4} |-> IF c \in {c1, c2} THEN q1 ELSE q2]
MCHomeOf     == [u \in Users |-> IF u = other THEN a2 ELSE a1]

E(q, cs) == [question |-> q, choices |-> cs]

\* Bodies as the survey screen builds them: one entry per question.
ScreenBodies ==
  {<<E(q1, <<c1>>)>>, <<E(q1, <<c2>>), E(q2, <<c3, c4>>)>>, <<E(q2, <<c4>>)>>}

\* The same, and bodies that validation refuses: two choices of a single question,
\* a choice of another question, a question without choices.
MixedBodies ==
  {<<E(q1, <<c1>>)>>, <<E(q1, <<c2>>), E(q2, <<c3, c4>>)>>, <<>>,
   <<E(q1, <<c1, c2>>)>>, <<E(q1, <<c3>>)>>, <<E(q2, <<>>)>>}

\* Bodies of concurrent submissions: two whose inserts can wait for each other, and
\* one that clears the ballot.
RaceBodies == {<<>>, <<E(q2, <<c3, c4>>)>>, <<E(q2, <<c4, c3>>)>>}

Symmetry == Permutations(Requests)
=============================================================================
