SPECIFICATION Spec
CONSTANTS
  r1 = r1
  r2 = r2
  r3 = r3
  member = member
  other = other
  admin = admin
  a1 = a1
  a2 = a2
  s1 = s1
  q1 = q1
  q2 = q2
  c1 = c1
  c2 = c2
  c3 = c3
  c4 = c4
  Requests = {r1, r2, r3}
  Users = {member}
  SystemAdmins = {}
  Assocs = {a1}
  HomeOf <- MCHomeOf
  Surveys = {s1}
  Questions = {q1, q2}
  Choices = {c1, c2, c3, c4}
  SurveyOf <- MCSurveyOf
  QuestionOf <- MCQuestionOf
  Single = {q1}
  Bodies <- ScreenBodies
  SerialUsers = FALSE
  MaxTime = 1
INVARIANT OneSubmission
CHECK_DEADLOCK FALSE
