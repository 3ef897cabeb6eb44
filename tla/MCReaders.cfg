SPECIFICATION FairSpec
CONSTANTS
  member = member
  neighbour = neighbour
  here = here
  there = there
  s1 = s1
  Requests = {1, 2}
  Users = {member, neighbour}
  SystemAdmins = {}
  Assocs = {here, there}
  HomeOf <- MCHomeOf
  MaxNotices = 2
  Surveys = {s1}
  AssocOf <- MCAssocOf
  Questions = 2
  Limit = 1
  MaxConns = 2
  MaxWrites = 3
INVARIANTS MarksAdmitted OpenedIsRead HomeSkewBounded 
PROPERTY EveryRequestAnswered
CHECK_DEADLOCK FALSE
