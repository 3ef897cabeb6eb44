SPECIFICATION FairSpec
CONSTANTS
  sample01 = sample01
  test001 = test001
  other = other
  admin = admin
  member = member
  renamed = renamed
  Servers = {"old", "new"}
  Files = 4
  Once = {2, 4}
  Breaks <- MCBreaks
  Codes = {sample01, test001, other}
  SeedCodes <- MCSeedCodes
  Sample = sample01
  Emails = {admin, member, renamed}
  SeedEmails <- MCSeedEmails
  SystemSeeds = {admin}
  MaxRetries = 2
  MaxFaults = 2
  MaxEdits = 2
INVARIANTS MigrationsInOrder UnrecordedExplained ReadyToServe
PROPERTY ServesAgain
CHECK_DEADLOCK FALSE
