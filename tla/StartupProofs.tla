---------------------------- MODULE StartupProofs ----------------------------
(***************************************************************************)
(* Proofs about Startup: migrations take effect in order and are recorded  *)
(* but for the last one, whose recording may have been cut off; and a      *)
(* server serves only what is migrated and seeded.                         *)
(***************************************************************************)
EXTENDS Startup, TLAPS

CodeDone(i)  == HasCode(SeedCodes[i]) \/ SeedCodes[i] \in moved
EmailDone(i) == HasEmail(SeedEmails[i]) \/ SeedEmails[i] \in moved

\* A server at file m has found or recorded all files before m.
Migrated(s) ==
  /\ pc[s] \in Migrating => /\ at[s] \in 1..Files
                            /\ \A m \in 1..Files : m < at[s] => m \in recorded
  /\ pc[s] = "record" => at[s] \in schema
  /\ pc[s] \in Seeding \cup {"serving"} => recorded = 1..Files

\* A server at seed i has found or inserted all seeds before i.
Seeded(s) ==
  /\ pc[s] \in {"findAssoc", "addAssoc"} =>
       /\ at[s] \in DOMAIN SeedCodes
       /\ \A i \in DOMAIN SeedCodes : i < at[s] => CodeDone(i)
  /\ pc[s] \in {"sample", "findUser", "addUser", "serving"} =>
       \A i \in DOMAIN SeedCodes : CodeDone(i)
  /\ pc[s] \in {"findUser", "addUser"} =>
       /\ at[s] \in DOMAIN SeedEmails
       /\ \A i \in DOMAIN SeedEmails : i < at[s] => EmailDone(i)
  /\ pc[s] = "serving" => \A i \in DOMAIN SeedEmails : EmailDone(i)

FilesInOrder == \A n \in schema : \A m \in 1..Files : m < n => m \in recorded

\* The inductive invariant.
IInv ==
  /\ TypeOK
  /\ FilesInOrder
  /\ UnrecordedExplained
  /\ \A s \in Servers : Migrated(s) /\ Seeded(s)

-----------------------------------------------------------------------------

LEMMA InitInv == Init => IInv
BY Installation
   DEF Init, IInv, TypeOK, FilesInOrder, UnrecordedExplained, Migrated, Seeded, Migrating,
       Seeding, Steps, None

LEMMA Bounds ==
  /\ Files \in Nat \ {0} /\ MaxRetries \in Nat /\ MaxFaults \in Nat /\ MaxEdits \in Nat
  /\ Len(SeedCodes) \in Nat \ {0} /\ DOMAIN SeedCodes = 1..Len(SeedCodes)
  /\ Len(SeedEmails) \in Nat \ {0} /\ DOMAIN SeedEmails = 1..Len(SeedEmails)
  /\ \A i \in DOMAIN SeedCodes : SeedCodes[i] \in Codes
  /\ \A i \in DOMAIN SeedEmails : SeedEmails[i] \in Emails
BY Installation

ServerType ==
  /\ pc \in [Servers -> {"down"} \cup Steps]
  /\ at \in [Servers -> Nat \ {0}]
  /\ sampleId \in [Servers -> Nat]
  /\ tries \in [Servers -> 0..MaxRetries]

LEMMA GotoType ==
  ASSUME ServerType, NEW s \in Servers, NEW step \in {"down"} \cup Steps, NEW i \in Nat \ {0},
         Goto(s, step, i)
  PROVE  /\ pc' \in [Servers -> {"down"} \cup Steps]
         /\ at' \in [Servers -> Nat \ {0}]
         /\ pc'[s] = step /\ at'[s] = i
         /\ \A x \in Servers \ {s} : pc'[x] = pc[x] /\ at'[x] = at[x]
BY DEF ServerType, Goto

LEMMA ExitType ==
  ASSUME ServerType, NEW s \in Servers, Exit(s)
  PROVE  ServerType' /\ Goto(s, "down", 1)
BY GotoType, Bounds DEF ServerType, Exit, None

\* Where a server goes.
LEMMA Moves ==
  ASSUME ServerType, NEW s \in Servers
  PROVE  /\ NextFile(s) => \E step \in Steps, i \in Nat \ {0} : Goto(s, step, i)
         /\ NextAssoc(s) => \E step \in Steps, i \in Nat \ {0} : Goto(s, step, i)
         /\ NextUser(s) => \E step \in Steps, i \in Nat \ {0} : Goto(s, step, i)
<1>1. at[s] + 1 \in Nat \ {0} /\ 1 \in Nat \ {0}
  BY DEF ServerType
<1>2. {"check", "findAssoc", "sample", "findUser", "serving"} \subseteq Steps
  BY DEF Steps, Migrating, Seeding
<1>. QED
  BY <1>1, <1>2 DEF NextFile, NextAssoc, NextUser

\* Every step of a server ends the process or goes to a next statement.
LEMMA ServerMoves ==
  ASSUME ServerType, assoc \in Seq(Codes), NEW s \in Servers,
         Start(s) \/ Run(s) \/ Die(s) \/ Stop(s)
  PROVE  \/ Exit(s)
         \/ \E step \in Steps, i \in Nat \ {0} :
              /\ Goto(s, step, i)
              /\ sampleId' \in [Servers -> Nat] /\ tries' = tries
         \/ /\ UNCHANGED <<pc, at, sampleId>>
            /\ tries' \in [Servers -> 0..MaxRetries]
<1>. DEFINE Goes == \E step \in Steps, i \in Nat \ {0} :
                      /\ Goto(s, step, i)
                      /\ sampleId' \in [Servers -> Nat] /\ tries' = tries
<1>1. ASSUME NEW step \in Steps, NEW i \in Nat \ {0}, Goto(s, step, i), sampleId' = sampleId, tries' = tries
      PROVE  Goes
  BY <1>1 DEF ServerType
<1>2. {"connect", "check", "apply", "record", "findAssoc", "addAssoc", "sample",
       "findUser", "addUser", "serving"} \subseteq Steps
  BY DEF Steps, Migrating, Seeding
<1>3. at[s] \in Nat \ {0} /\ 1 \in Nat \ {0}
  BY DEF ServerType
<1>4. sampleId' = sampleId /\ tries' = tries => (NextFile(s) \/ NextAssoc(s) \/ NextUser(s) => Goes)
  BY <1>1, Moves
<1>5. Start(s) \/ Connect(s) => Goes
  BY <1>1, <1>2, <1>3 DEF Start, Connect
<1>6. Check(s) => Goes
  BY <1>1, <1>2, <1>3, <1>4 DEF Check
<1>7. Apply(s) => Exit(s) \/ Goes
  BY <1>1, <1>2, <1>3 DEF Apply
<1>8. Record(s) => Exit(s) \/ Goes
  BY <1>4 DEF Record
<1>9. FindAssoc(s) => Goes
  BY <1>1, <1>2, <1>3, <1>4 DEF FindAssoc
<1>10. AddAssoc(s) => Exit(s) \/ Goes
  BY <1>4 DEF AddAssoc
<1>11. FindUser(s) => Goes
  BY <1>1, <1>2, <1>3, <1>4 DEF FindUser
<1>12. AddUser(s) => Exit(s) \/ Goes
  BY <1>4 DEF AddUser
<1>13. FindSample(s) => Exit(s) \/ Goes
  <2>1. ASSUME NEW i \in DOMAIN assoc, sampleId' = [sampleId EXCEPT ![s] = i],
               Goto(s, "findUser", 1), tries' = tries
        PROVE  Goes
    <3>1. i \in Nat
      OBVIOUS
    <3>2. sampleId' \in [Servers -> Nat]
      BY <2>1, <3>1 DEF ServerType
    <3>. QED
      BY <1>2, <1>3, <2>1, <3>2
  <2>. QED
    BY <2>1 DEF FindSample
<1>14. ConnectFails(s) => \/ Exit(s)
                         \/ /\ UNCHANGED <<pc, at, sampleId>>
                            /\ tries' \in [Servers -> 0..MaxRetries]
  BY Bounds DEF ConnectFails, ServerType
<1>15. LoseDb(s) \/ Die(s) \/ Stop(s) => Exit(s)
  BY DEF LoseDb, Die, Stop
<1>. QED
  BY <1>5, <1>6, <1>7, <1>8, <1>9, <1>10, <1>11, <1>12, <1>13, <1>14, <1>15 DEF Run

LEMMA RunServerType ==
  ASSUME ServerType, assoc \in Seq(Codes), NEW s \in Servers,
         Start(s) \/ Run(s) \/ Die(s) \/ Stop(s)
  PROVE  /\ ServerType'
         /\ \A x \in Servers \ {s} : pc'[x] = pc[x] /\ at'[x] = at[x]
<1>1. CASE Exit(s)
  <2>1. ServerType' /\ Goto(s, "down", 1)
    BY <1>1, ExitType
  <2>2. 1 \in Nat \ {0} /\ "down" \in {"down"} \cup Steps
    OBVIOUS
  <2>. QED
    BY <2>1, <2>2, GotoType
<1>2. ASSUME NEW step \in Steps, NEW i \in Nat \ {0}, Goto(s, step, i),
             sampleId' \in [Servers -> Nat], tries' = tries
      PROVE  /\ ServerType'
             /\ \A x \in Servers \ {s} : pc'[x] = pc[x] /\ at'[x] = at[x]
  BY <1>2, GotoType DEF ServerType
<1>3. CASE UNCHANGED <<pc, at, sampleId>> /\ tries' \in [Servers -> 0..MaxRetries]
  BY <1>3 DEF ServerType
<1>. QED
  BY <1>1, <1>2, <1>3, ServerMoves

-----------------------------------------------------------------------------
(* Types *)

DataType ==
  /\ db \in {"up", "down"}
  /\ schema \subseteq 1..Files /\ recorded \subseteq 1..Files
  /\ assoc \in Seq(Codes)
  /\ users \subseteq UserRow
  /\ faults \in 0..MaxFaults /\ edits \in 0..MaxEdits
  /\ cut \subseteq 1..Files
  /\ moved \subseteq Codes \cup Emails

LEMMA Types == TypeOK <=> ServerType /\ DataType
BY DEF TypeOK, ServerType, DataType

\* What a server writes.
LEMMA RunDataType ==
  ASSUME DataType, ServerType, NEW s \in Servers, Migrated(s), Seeded(s), Start(s) \/ Run(s)
  PROVE  DataType'
<1>1. CASE Start(s) \/ Connect(s) \/ ConnectFails(s) \/ Check(s) \/ FindAssoc(s) \/ FindSample(s)
           \/ FindUser(s)
  <2>1. UNCHANGED <<db, rows, faults, edits, cut, moved>>
    BY <1>1 DEF Start, Connect, ConnectFails, Check, FindAssoc, FindSample, FindUser
  <2>. QED
    BY <2>1 DEF DataType, rows
<1>2. CASE Apply(s)
  <2>1. at[s] \in 1..Files
    BY <1>2 DEF Apply, Migrated, Migrating
  <2>2. /\ schema' \in {schema, schema \cup {at[s]}}
        /\ UNCHANGED <<db, recorded, assoc, users, faults, edits, cut, moved>>
    BY <1>2 DEF Apply
  <2>. QED
    BY <2>1, <2>2 DEF DataType
<1>3. CASE Record(s)
  <2>1. at[s] \in 1..Files
    BY <1>3 DEF Record, Migrated, Migrating
  <2>2. /\ recorded' \in {recorded, recorded \cup {at[s]}}
        /\ UNCHANGED <<db, schema, assoc, users, faults, edits, cut, moved>>
    BY <1>3 DEF Record
  <2>. QED
    BY <2>1, <2>2 DEF DataType
<1>4. CASE AddAssoc(s)
  <2>1. SeedCodes[at[s]] \in Codes
    BY <1>4, Bounds DEF AddAssoc, Seeded
  <2>2. /\ assoc' = assoc \/ assoc' = Append(assoc, SeedCodes[at[s]])
        /\ UNCHANGED <<db, schema, recorded, users, faults, edits, cut, moved>>
    BY <1>4 DEF AddAssoc
  <2>3. assoc' \in Seq(Codes)
    BY <2>1, <2>2 DEF DataType
  <2>. QED
    BY <2>2, <2>3 DEF DataType
<1>5. CASE AddUser(s)
  <2>1. SeedEmails[at[s]] \in Emails
    BY <1>5, Bounds DEF AddUser, Seeded
  <2>2. SeedUser(s) \in UserRow
    BY <2>1 DEF SeedUser, UserRow, ServerType, None
  <2>3. /\ users' \in {users, users \cup {SeedUser(s)}}
        /\ UNCHANGED <<db, schema, recorded, assoc, faults, edits, cut, moved>>
    BY <1>5 DEF AddUser
  <2>. QED
    BY <2>2, <2>3 DEF DataType
<1>6. CASE LoseDb(s)
  <2>1. CutBy(s) \subseteq 1..Files
    BY DEF CutBy, Migrated, Migrating
  <2>. QED
    BY <1>6, <2>1 DEF LoseDb, DataType, rows
<1>. QED
  BY <1>1, <1>2, <1>3, <1>4, <1>5, <1>6 DEF Run

\* What faults and administrators write.
LEMMA OtherDataType ==
  ASSUME DataType, ServerType
  PROVE  /\ \A s \in Servers : Migrated(s) /\ (Die(s) \/ Stop(s)) => DataType'
         /\ DbStop \/ DbStart => DataType'
         /\ \A c \in Codes : CreateAssoc(c) => DataType'
         /\ \A c \in Codes, i \in DOMAIN assoc : UpdateAssoc(i, c) => DataType'
         /\ \A x \in users, e \in Emails : EditEmail(x, e) => DataType'
<1>1. faults < MaxFaults => faults + 1 \in 0..MaxFaults
  BY Bounds DEF DataType
<1>2. edits < MaxEdits => edits + 1 \in 0..MaxEdits
  BY Bounds DEF DataType
<1>3. ASSUME NEW s \in Servers, Migrated(s), Die(s) \/ Stop(s)
      PROVE  DataType'
  <2>1. CutBy(s) \subseteq 1..Files
    BY <1>3 DEF CutBy, Migrated, Migrating
  <2>. QED
    BY <1>1, <1>3, <2>1 DEF Die, Stop, DataType, rows
<1>4. DbStop \/ DbStart => DataType'
  BY <1>1 DEF DbStop, DbStart, DataType, rows
<1>5. ASSUME NEW c \in Codes, CreateAssoc(c)
      PROVE  DataType'
  BY <1>2, <1>5 DEF CreateAssoc, Administered, DataType
<1>6. ASSUME NEW c \in Codes, NEW i \in DOMAIN assoc, UpdateAssoc(i, c)
      PROVE  DataType'
  <2>1. assoc' \in Seq(Codes) /\ assoc[i] \in Codes
    BY <1>6 DEF UpdateAssoc, DataType
  <2>. QED
    BY <1>2, <1>6, <2>1 DEF UpdateAssoc, Administered, DataType
<1>7. ASSUME NEW x \in users, NEW e \in Emails, EditEmail(x, e)
      PROVE  DataType'
  <2>1. x \in UserRow /\ [x EXCEPT !.email = e] \in UserRow /\ x.email \in Emails
    BY DEF UserRow, DataType
  <2>. QED
    BY <1>2, <1>7, <2>1 DEF EditEmail, Administered, DataType
<1>. QED
  BY <1>3, <1>4, <1>5, <1>6, <1>7

\* Steps that leave every server where it is.
Aside ==
  \/ DbStop \/ DbStart
  \/ \E c \in Codes : CreateAssoc(c) \/ \E i \in DOMAIN assoc : UpdateAssoc(i, c)
  \/ \E x \in users, e \in Emails : EditEmail(x, e)

LEMMA AsideKeeps == Aside => UNCHANGED <<schema, recorded, server, cut>>
BY DEF Aside, DbStop, DbStart, CreateAssoc, UpdateAssoc, EditEmail, Administered, rows

LEMMA TypeStep == IInv /\ [Next]_vars => TypeOK'
<1>. SUFFICES ASSUME IInv, [Next]_vars PROVE ServerType' /\ DataType'
  BY Types DEF TypeOK, ServerType, DataType
<1>1. ServerType /\ DataType
  BY Types DEF IInv
<1>2. assoc \in Seq(Codes)
  BY <1>1 DEF DataType
<1>3. ASSUME NEW s \in Servers, Start(s) \/ Run(s) \/ Die(s) \/ Stop(s)
      PROVE  ServerType' /\ DataType'
  <2>1. Migrated(s) /\ Seeded(s)
    BY DEF IInv
  <2>. QED
    BY <1>1, <1>2, <1>3, <2>1, RunServerType, RunDataType, OtherDataType
<1>4. CASE Aside
  <2>1. UNCHANGED server
    BY <1>4, AsideKeeps
  <2>2. ServerType'
    BY <1>1, <2>1 DEF ServerType, server
  <2>. QED
    BY <1>1, <1>4, <2>2, OtherDataType DEF Aside
<1>5. CASE UNCHANGED vars
  BY <1>1, <1>5 DEF ServerType, DataType, vars, rows, server
<1>. QED
  BY <1>3, <1>4, <1>5 DEF Next, Aside

-----------------------------------------------------------------------------
(* Migrations *)

Mig ==
  /\ FilesInOrder
  /\ UnrecordedExplained
  /\ \A s \in Servers : Migrated(s)

\* A step that writes no file: it may leave a recording undone only if that is in cut.
LEMMA MigKept ==
  ASSUME Mig, NEW s \in Servers, UNCHANGED <<schema, recorded>>, cut \subseteq cut',
         pc[s] = "record" => at[s] \in cut' \cup recorded,
         \A x \in Servers \ {s} : pc'[x] = pc[x] /\ at'[x] = at[x],
         Migrated(s)'
  PROVE  Mig'
<1>1. FilesInOrder'
  BY DEF Mig, FilesInOrder
<1>2. UnrecordedExplained'
  BY DEF Mig, UnrecordedExplained
<1>3. \A x \in Servers : Migrated(x)'
  BY DEF Mig, Migrated
<1>. QED
  BY <1>1, <1>2, <1>3 DEF Mig

LEMMA ExitKeepsMig ==
  ASSUME TypeOK, Mig, NEW s \in Servers, Exit(s), UNCHANGED <<schema, recorded>>,
         cut \subseteq cut', pc[s] = "record" => at[s] \in cut' \cup recorded
  PROVE  Mig'
<1>1. /\ pc'[s] = "down"
      /\ \A x \in Servers \ {s} : pc'[x] = pc[x] /\ at'[x] = at[x]
  BY Types, ExitType, GotoType DEF Exit, Goto, TypeOK
<1>2. Migrated(s)'
  BY <1>1 DEF Migrated, Migrating, Seeding
<1>. QED
  BY <1>1, <1>2, MigKept

\* A seed is looked for or inserted.
LEMMA SeedingKeepsMig ==
  ASSUME TypeOK, Mig, NEW s \in Servers, pc[s] \in Seeding, UNCHANGED <<schema, recorded, cut>>,
         NEW step \in Seeding \cup {"serving"}, NEW i \in Nat \ {0}, Goto(s, step, i)
  PROVE  Mig'
<1>1. /\ pc'[s] = step
      /\ \A x \in Servers \ {s} : pc'[x] = pc[x] /\ at'[x] = at[x]
  BY Types, GotoType DEF Steps
<1>2. Migrated(s)'
  BY <1>1 DEF Mig, Migrated, Migrating, Seeding
<1>3. pc[s] # "record"
  BY DEF Seeding
<1>. QED
  BY <1>1, <1>2, <1>3, MigKept

\* The file s is at is recorded: s goes on to the next file or to the seeds.
LEMMA NextFileMigrated ==
  ASSUME TypeOK, NEW s \in Servers, at[s] \in 1..Files, recorded' \subseteq 1..Files,
         \A m \in 1..Files : m < at[s] => m \in recorded', at[s] \in recorded', NextFile(s)
  PROVE  /\ Migrated(s)'
         /\ \A x \in Servers \ {s} : pc'[x] = pc[x] /\ at'[x] = at[x]
<1>1. \A m \in 1..Files : m < at[s] + 1 => m \in recorded'
  OBVIOUS
<1>2. CASE at[s] < Files
  <2>1. Goto(s, "check", at[s] + 1)
    BY <1>2 DEF NextFile
  <2>2. at[s] + 1 \in 1..Files /\ at[s] + 1 \in Nat \ {0}
    BY <1>2, Bounds
  <2>3. /\ pc'[s] = "check" /\ at'[s] = at[s] + 1
        /\ \A x \in Servers \ {s} : pc'[x] = pc[x] /\ at'[x] = at[x]
    BY <2>1, <2>2, Types, GotoType DEF Steps, Migrating
  <2>. QED
    BY <1>1, <2>2, <2>3 DEF Migrated, Migrating, Seeding
<1>3. CASE ~(at[s] < Files)
  <2>1. Goto(s, "findAssoc", 1)
    BY <1>3 DEF NextFile
  <2>2. /\ pc'[s] = "findAssoc"
        /\ \A x \in Servers \ {s} : pc'[x] = pc[x] /\ at'[x] = at[x]
    BY <2>1, Types, GotoType DEF Steps, Seeding
  <2>3. recorded' = 1..Files
    <3>1. ASSUME NEW m \in 1..Files
          PROVE  m \in recorded'
      BY <1>1, <1>3, Bounds
    <3>. QED
      BY <3>1
  <2>. QED
    BY <2>2, <2>3 DEF Migrated, Migrating, Seeding
<1>. QED
  BY <1>2, <1>3

LEMMA ApplyKeepsMig ==
  ASSUME TypeOK, Mig, NEW s \in Servers, Apply(s)
  PROVE  Mig'
<1>1. at[s] \in 1..Files /\ (\A m \in 1..Files : m < at[s] => m \in recorded) /\ pc[s] = "apply"
  BY DEF Mig, Migrated, Apply, Migrating
<1>2. CASE Applicable(at[s])
  <2>1. /\ schema' = schema \cup {at[s]} /\ UNCHANGED <<recorded, cut>>
        /\ Goto(s, "record", at[s])
    BY <1>2 DEF Apply
  <2>2. /\ pc'[s] = "record" /\ at'[s] = at[s]
        /\ \A x \in Servers \ {s} : pc'[x] = pc[x] /\ at'[x] = at[x]
    <3>1. ServerType /\ "record" \in {"down"} \cup Steps /\ at[s] \in Nat \ {0}
      BY Types DEF Steps, Migrating, ServerType
    <3>. QED
      BY <2>1, <3>1, GotoType
  <2>3. FilesInOrder'
    BY <1>1, <2>1 DEF Mig, FilesInOrder
  <2>4. UnrecordedExplained'
    <3>1. recorded' \subseteq schema'
      BY <2>1 DEF Mig, UnrecordedExplained
    <3>2. ASSUME NEW m \in schema' \ recorded'
          PROVE  m \in cut' \/ \E x \in Servers : pc'[x] = "record" /\ at'[x] = m
      <4>1. CASE m = at[s]
        BY <2>2, <4>1
      <4>2. CASE m # at[s]
        <5>1. m \in cut \/ \E x \in Servers : pc[x] = "record" /\ at[x] = m
          BY <2>1, <4>2 DEF Mig, UnrecordedExplained
        <5>. QED
          BY <1>1, <2>1, <2>2, <5>1
      <4>. QED
        BY <4>1, <4>2
    <3>. QED
      BY <3>1, <3>2 DEF UnrecordedExplained
  <2>5. ASSUME NEW x \in Servers
        PROVE  Migrated(x)'
    <3>1. CASE x = s
      BY <1>1, <2>1, <2>2, <3>1 DEF Migrated, Migrating, Seeding
    <3>2. CASE x # s
      BY <2>1, <2>2, <3>2 DEF Mig, Migrated
    <3>. QED
      BY <3>1, <3>2
  <2>. QED
    BY <2>3, <2>4, <2>5 DEF Mig
<1>3. CASE ~Applicable(at[s])
  BY <1>1, <1>3, ExitKeepsMig DEF Apply
<1>. QED
  BY <1>2, <1>3

LEMMA RecordKeepsMig ==
  ASSUME TypeOK, Mig, NEW s \in Servers, Record(s)
  PROVE  Mig'
<1>1. /\ at[s] \in 1..Files /\ (\A m \in 1..Files : m < at[s] => m \in recorded)
      /\ pc[s] = "record" /\ at[s] \in schema
  BY DEF Mig, Migrated, Record, Migrating
<1>2. CASE at[s] \notin recorded
  <2>1. recorded' = recorded \cup {at[s]} /\ NextFile(s) /\ UNCHANGED <<schema, cut>>
    BY <1>2 DEF Record
  <2>2. /\ Migrated(s)'
        /\ \A x \in Servers \ {s} : pc'[x] = pc[x] /\ at'[x] = at[x]
    BY <1>1, <2>1, NextFileMigrated DEF TypeOK
  <2>3. FilesInOrder'
    BY <2>1 DEF Mig, FilesInOrder
  <2>4. UnrecordedExplained'
    BY <1>1, <2>1, <2>2 DEF Mig, UnrecordedExplained
  <2>5. ASSUME NEW x \in Servers \ {s}
        PROVE  Migrated(x)'
    <3>1. recorded \subseteq recorded' /\ recorded' \subseteq 1..Files
      BY <1>1, <2>1 DEF TypeOK
    <3>. QED
      BY <2>1, <2>2, <3>1 DEF Mig, Migrated
  <2>. QED
    BY <2>2, <2>3, <2>4, <2>5 DEF Mig
<1>3. CASE at[s] \in recorded
  BY <1>3, ExitKeepsMig DEF Record
<1>. QED
  BY <1>2, <1>3

LEMMA CheckKeepsMig ==
  ASSUME TypeOK, Mig, NEW s \in Servers, Check(s)
  PROVE  Mig'
<1>1. /\ at[s] \in 1..Files /\ (\A m \in 1..Files : m < at[s] => m \in recorded)
      /\ pc[s] = "check" /\ UNCHANGED <<schema, recorded, cut>>
  BY DEF Mig, Migrated, Check, Migrating, rows
<1>2. CASE at[s] \in recorded
  BY <1>1, <1>2, NextFileMigrated, MigKept DEF Check, TypeOK
<1>3. CASE at[s] \notin recorded
  <2>1. /\ pc'[s] = "apply" /\ at'[s] = at[s]
        /\ \A x \in Servers \ {s} : pc'[x] = pc[x] /\ at'[x] = at[x]
    BY <1>1, <1>3, Types, GotoType DEF Check, Steps, Migrating
  <2>2. Migrated(s)'
    BY <1>1, <2>1 DEF Migrated, Migrating, Seeding
  <2>. QED
    BY <1>1, <2>1, <2>2, MigKept
<1>. QED
  BY <1>2, <1>3

\* A step among the seeds writes no file.
LEMMA SeedsKeepMig ==
  ASSUME TypeOK, Mig, NEW s \in Servers,
         FindAssoc(s) \/ AddAssoc(s) \/ FindSample(s) \/ FindUser(s) \/ AddUser(s)
  PROVE  Mig'
<1>1. /\ pc[s] \in Seeding /\ pc[s] # "record"
      /\ UNCHANGED <<schema, recorded, cut>>
  BY DEF FindAssoc, AddAssoc, FindSample, FindUser, AddUser, Seeding, rows
<1>2. \/ Exit(s)
      \/ \E step \in Seeding \cup {"serving"}, i \in Nat \ {0} : Goto(s, step, i)
  <2>1. at[s] \in Nat \ {0} /\ at[s] + 1 \in Nat \ {0} /\ 1 \in Nat \ {0}
    BY DEF TypeOK
  <2>2. {"findAssoc", "addAssoc", "sample", "findUser", "addUser", "serving"}
          \subseteq Seeding \cup {"serving"}
    BY DEF Seeding
  <2>3. NextAssoc(s) \/ NextUser(s) =>
          \E step \in Seeding \cup {"serving"}, i \in Nat \ {0} : Goto(s, step, i)
    BY <2>1, <2>2 DEF NextAssoc, NextUser
  <2>. QED
    BY <2>1, <2>2, <2>3 DEF FindAssoc, AddAssoc, FindSample, FindUser, AddUser
<1>. QED
  BY <1>1, <1>2, ExitKeepsMig, SeedingKeepsMig

LEMMA MigStep == IInv /\ [Next]_vars => Mig'
<1>. SUFFICES ASSUME IInv, [Next]_vars PROVE Mig'
  OBVIOUS
<1>1. TypeOK /\ Mig
  BY DEF IInv, Mig
<1>2. ASSUME NEW s \in Servers, Start(s) \/ Connect(s)
      PROVE  Mig'
  <2>1. /\ pc[s] # "record" /\ UNCHANGED <<schema, recorded, cut>>
    BY <1>2 DEF Start, Connect, rows
  <2>2. /\ pc'[s] = "connect" \/ (pc'[s] = "check" /\ at'[s] = 1)
        /\ \A x \in Servers \ {s} : pc'[x] = pc[x] /\ at'[x] = at[x]
    BY <1>1, <1>2, Types, GotoType DEF Start, Connect, Steps, Migrating
  <2>3. Migrated(s)'
    BY <2>2, Bounds DEF Migrated, Migrating, Seeding
  <2>. QED
    BY <1>1, <2>1, <2>2, <2>3, MigKept
<1>3. ASSUME NEW s \in Servers, ConnectFails(s)
      PROVE  Mig'
  <2>1. pc[s] # "record" /\ UNCHANGED <<schema, recorded, cut>>
    BY <1>3 DEF ConnectFails, rows
  <2>2. Exit(s) \/ UNCHANGED <<pc, at>>
    BY <1>3 DEF ConnectFails
  <2>3. UNCHANGED <<pc, at>> => Mig'
    BY <1>1, <2>1 DEF Mig, FilesInOrder, UnrecordedExplained, Migrated
  <2>. QED
    BY <1>1, <2>1, <2>2, <2>3, ExitKeepsMig
<1>4. ASSUME NEW s \in Servers, LoseDb(s) \/ Die(s) \/ Stop(s)
      PROVE  Mig'
  <2>1. /\ Exit(s) /\ UNCHANGED <<schema, recorded>> /\ cut \subseteq cut'
    BY <1>4 DEF LoseDb, Die, Stop, rows
  <2>2. pc[s] = "record" => at[s] \in cut' \cup recorded
    BY <1>4 DEF LoseDb, Die, Stop, CutBy
  <2>. QED
    BY <1>1, <2>1, <2>2, ExitKeepsMig
<1>5. CASE Aside \/ UNCHANGED vars
  <2>1. UNCHANGED <<schema, recorded, pc, at, cut>>
    BY <1>5, AsideKeeps DEF vars, rows, server
  <2>. QED
    BY <1>1, <2>1 DEF Mig, FilesInOrder, UnrecordedExplained, Migrated
<1>. QED
  BY <1>1, <1>2, <1>3, <1>4, <1>5, CheckKeepsMig, ApplyKeepsMig, RecordKeepsMig, SeedsKeepMig
     DEF Next, Run, Aside

-----------------------------------------------------------------------------
(* Seeds *)

Stays ==
  /\ \A i \in DOMAIN SeedCodes : CodeDone(i) => CodeDone(i)'
  /\ \A i \in DOMAIN SeedEmails : EmailDone(i) => EmailDone(i)'

\* A seed that was found or inserted is there until an administrator renames it.
LEMMA SeedsStay ==
  ASSUME TypeOK, [Next]_vars
  PROVE  Stays
<1>1. CASE UNCHANGED <<assoc, users, moved>>
  BY <1>1 DEF Stays, CodeDone, EmailDone, HasCode, HasEmail
<1>2. ASSUME NEW c, assoc' = Append(assoc, c), UNCHANGED <<users, moved>>
      PROVE  Stays
  <2>1. \A j \in DOMAIN assoc : j \in DOMAIN assoc' /\ assoc'[j] = assoc[j]
    BY <1>2 DEF TypeOK
  <2>. QED
    BY <1>2, <2>1 DEF Stays, CodeDone, EmailDone, HasCode, HasEmail
<1>3. ASSUME NEW s \in Servers, Start(s) \/ Run(s) \/ Die(s) \/ Stop(s)
      PROVE  Stays
  <2>1. CASE AddAssoc(s)
    BY <1>1, <1>2, <2>1 DEF AddAssoc
  <2>2. CASE AddUser(s)
    <3>1. users \subseteq users' /\ UNCHANGED <<assoc, moved>>
      BY <2>2 DEF AddUser
    <3>. QED
      BY <3>1 DEF Stays, CodeDone, EmailDone, HasCode, HasEmail
  <2>3. CASE ~AddAssoc(s) /\ ~AddUser(s)
    <3>1. UNCHANGED <<assoc, users, moved>>
      BY <1>3, <2>3 DEF Run, Start, Connect, ConnectFails, Check, Apply, Record, FindAssoc, FindSample,
                        FindUser, LoseDb, Die, Stop, rows
    <3>. QED
      BY <1>1, <3>1
  <2>. QED
    BY <2>1, <2>2, <2>3
<1>4. ASSUME DbStop \/ DbStart
      PROVE  Stays
  BY <1>1, <1>4 DEF DbStop, DbStart, rows
<1>5. ASSUME NEW c \in Codes, CreateAssoc(c)
      PROVE  Stays
  BY <1>2, <1>5 DEF CreateAssoc
<1>6. ASSUME NEW c \in Codes, NEW i \in DOMAIN assoc, UpdateAssoc(i, c)
      PROVE  Stays
  <2>1. /\ assoc' = [assoc EXCEPT ![i] = c] /\ moved' = moved \cup {assoc[i]}
        /\ UNCHANGED users
    BY <1>6 DEF UpdateAssoc
  <2>2. \A j \in DOMAIN assoc : j \in DOMAIN assoc' /\ (j # i => assoc'[j] = assoc[j])
    BY <2>1 DEF TypeOK
  <2>. QED
    BY <2>1, <2>2 DEF Stays, CodeDone, EmailDone, HasCode, HasEmail
<1>7. ASSUME NEW x \in users, NEW e \in Emails, EditEmail(x, e)
      PROVE  Stays
  <2>1. /\ users \ {x} \subseteq users' /\ moved' = moved \cup {x.email}
        /\ UNCHANGED assoc
    BY <1>7 DEF EditEmail
  <2>. QED
    BY <2>1 DEF Stays, CodeDone, EmailDone, HasCode, HasEmail
<1>. QED
  BY <1>1, <1>3, <1>4, <1>5, <1>6, <1>7 DEF Next, vars, rows

\* Seed i of the associations is there: s goes on to the next one or to the accounts.
LEMMA NextAssocSeeded ==
  ASSUME TypeOK, NEW s \in Servers, NEW k \in DOMAIN SeedCodes, at[s] = k, NextAssoc(s),
         \A i \in DOMAIN SeedCodes : i < k => CodeDone(i)', CodeDone(k)'
  PROVE  Seeded(s)'
<1>1. \A i \in DOMAIN SeedCodes : i < k + 1 => CodeDone(i)'
  BY Bounds
<1>2. CASE at[s] < Len(SeedCodes)
  <2>1. Goto(s, "findAssoc", at[s] + 1)
    BY <1>2 DEF NextAssoc
  <2>2. at[s] + 1 \in DOMAIN SeedCodes /\ at[s] + 1 \in Nat \ {0}
    BY <1>2, Bounds
  <2>3. pc'[s] = "findAssoc" /\ at'[s] = at[s] + 1
    BY <2>1, <2>2, Types, GotoType DEF Steps, Seeding
  <2>. QED
    BY <1>1, <2>2, <2>3 DEF Seeded
<1>3. CASE ~(at[s] < Len(SeedCodes))
  <2>1. Goto(s, "sample", 1)
    BY <1>3 DEF NextAssoc
  <2>2. pc'[s] = "sample"
    BY <2>1, Types, GotoType DEF Steps, Seeding
  <2>3. \A i \in DOMAIN SeedCodes : CodeDone(i)'
    BY <1>1, <1>3, Bounds
  <2>. QED
    BY <2>2, <2>3 DEF Seeded
<1>. QED
  BY <1>2, <1>3

LEMMA NextUserSeeded ==
  ASSUME TypeOK, NEW s \in Servers, NEW k \in DOMAIN SeedEmails, at[s] = k, NextUser(s),
         \A i \in DOMAIN SeedCodes : CodeDone(i)',
         \A i \in DOMAIN SeedEmails : i < k => EmailDone(i)', EmailDone(k)'
  PROVE  Seeded(s)'
<1>1. \A i \in DOMAIN SeedEmails : i < k + 1 => EmailDone(i)'
  BY Bounds
<1>2. CASE at[s] < Len(SeedEmails)
  <2>1. Goto(s, "findUser", at[s] + 1)
    BY <1>2 DEF NextUser
  <2>2. at[s] + 1 \in DOMAIN SeedEmails /\ at[s] + 1 \in Nat \ {0}
    BY <1>2, Bounds
  <2>3. pc'[s] = "findUser" /\ at'[s] = at[s] + 1
    BY <2>1, <2>2, Types, GotoType DEF Steps, Seeding
  <2>. QED
    BY <1>1, <2>2, <2>3 DEF Seeded
<1>3. CASE ~(at[s] < Len(SeedEmails))
  <2>1. Goto(s, "serving", 1)
    BY <1>3 DEF NextUser
  <2>2. pc'[s] = "serving"
    BY <2>1, Types, GotoType DEF Steps
  <2>3. \A i \in DOMAIN SeedEmails : EmailDone(i)'
    BY <1>1, <1>3, Bounds
  <2>. QED
    BY <2>2, <2>3 DEF Seeded
<1>. QED
  BY <1>2, <1>3

\* The server that moves has found or inserted what it has passed.
LEMMA SeededMover ==
  ASSUME TypeOK, NEW s \in Servers, Migrated(s), Seeded(s), Stays,
         Start(s) \/ Run(s) \/ Die(s) \/ Stop(s)
  PROVE  Seeded(s)'
<1>. DEFINE Outside == pc'[s] \in {"down", "connect"} \cup Migrating
<1>1. Outside => Seeded(s)'
  BY DEF Seeded, Migrating
<1>2. Exit(s) => Outside
  BY Types, ExitType, GotoType DEF Exit, Goto, TypeOK
<1>3. CASE Start(s) \/ Connect(s)
  <2>1. Outside
    BY <1>3, Types, GotoType DEF Start, Connect, Steps, Migrating
  <2>. QED
    BY <1>1, <2>1
<1>4. CASE ConnectFails(s)
  <2>1. Exit(s) \/ (pc'[s] = pc[s] /\ pc[s] = "connect")
    BY <1>4 DEF ConnectFails
  <2>. QED
    BY <1>1, <1>2, <2>1
<1>5. NextFile(s) => Seeded(s)'
  <2>1. NextFile(s) => (Outside \/ (pc'[s] = "findAssoc" /\ at'[s] = 1))
    BY Types, GotoType, Bounds DEF NextFile, Steps, Migrating, Seeding, TypeOK
  <2>2. pc'[s] = "findAssoc" /\ at'[s] = 1 => Seeded(s)'
    BY Bounds DEF Seeded
  <2>. QED
    BY <1>1, <2>1, <2>2
<1>6. CASE Check(s)
  <2>1. CASE at[s] \in recorded
    BY <1>5, <1>6, <2>1 DEF Check
  <2>2. CASE at[s] \notin recorded
    <3>1. Outside
      BY <1>6, <2>2, Types, GotoType DEF Check, Steps, Migrating, TypeOK
    <3>. QED
      BY <1>1, <3>1
  <2>. QED
    BY <2>1, <2>2
<1>7. CASE Apply(s)
  <2>1. Exit(s) \/ Goto(s, "record", at[s])
    BY <1>7 DEF Apply
  <2>2. Goto(s, "record", at[s]) => Outside
    BY Types, GotoType DEF Steps, Migrating, TypeOK
  <2>. QED
    BY <1>1, <1>2, <2>1, <2>2
<1>8. CASE Record(s)
  BY <1>1, <1>2, <1>5, <1>8 DEF Record
<1>9. CASE FindAssoc(s)
  <2>. PICK k \in DOMAIN SeedCodes : at[s] = k
    BY <1>9 DEF FindAssoc, Seeded
  <2>1. \A i \in DOMAIN SeedCodes : i < k => CodeDone(i)'
    BY <1>9 DEF FindAssoc, Seeded, Stays
  <2>2. CASE HasCode(SeedCodes[at[s]])
    <3>1. CodeDone(k)'
      BY <2>1, <2>2 DEF Stays, CodeDone
    <3>. QED
      BY <1>9, <2>1, <2>2, <3>1, NextAssocSeeded DEF FindAssoc
  <2>3. CASE ~HasCode(SeedCodes[at[s]])
    <3>1. pc'[s] = "addAssoc" /\ at'[s] = at[s]
      BY <1>9, <2>3, Types, GotoType DEF FindAssoc, Steps, Seeding, TypeOK
    <3>. QED
      BY <2>1, <3>1 DEF Seeded
  <2>. QED
    BY <2>2, <2>3
<1>10. CASE AddAssoc(s)
  <2>. PICK k \in DOMAIN SeedCodes : at[s] = k
    BY <1>10 DEF AddAssoc, Seeded
  <2>1. \A i \in DOMAIN SeedCodes : i < k => CodeDone(i)'
    BY <1>10 DEF AddAssoc, Seeded, Stays
  <2>2. CASE assoc' = Append(assoc, SeedCodes[at[s]]) /\ NextAssoc(s)
    <3>1. Len(assoc) + 1 \in DOMAIN assoc' /\ assoc'[Len(assoc) + 1] = SeedCodes[at[s]]
      BY <2>2 DEF TypeOK
    <3>2. CodeDone(k)'
      BY <3>1 DEF CodeDone, HasCode
    <3>. QED
      BY <2>1, <2>2, <3>2, NextAssocSeeded
  <2>. QED
    BY <1>1, <1>2, <1>10, <2>2 DEF AddAssoc
<1>11. CASE FindSample(s)
  <2>1. \A i \in DOMAIN SeedCodes : CodeDone(i)'
    BY <1>11 DEF FindSample, Seeded, Stays
  <2>2. Exit(s) \/ Goto(s, "findUser", 1)
    BY <1>11 DEF FindSample
  <2>3. ASSUME Goto(s, "findUser", 1)
        PROVE  Seeded(s)'
    <3>1. pc'[s] = "findUser" /\ at'[s] = 1
      BY <2>3, Types, GotoType DEF Steps, Seeding
    <3>2. 1 \in DOMAIN SeedEmails /\ \A i \in DOMAIN SeedEmails : ~(i < 1)
      BY Bounds
    <3>. QED
      BY <2>1, <3>1, <3>2 DEF Seeded
  <2>. QED
    BY <1>1, <1>2, <2>2, <2>3
<1>12. ASSUME FindUser(s) \/ AddUser(s), NEW k, at[s] = k
       PROVE  /\ k \in DOMAIN SeedEmails
              /\ \A i \in DOMAIN SeedCodes : CodeDone(i)'
              /\ \A i \in DOMAIN SeedEmails : i < k => EmailDone(i)'
  BY <1>12 DEF FindUser, AddUser, Seeded, Stays
<1>13. CASE FindUser(s)
  <2>. PICK k : at[s] = k
    OBVIOUS
  <2>1. CASE HasEmail(SeedEmails[at[s]])
    <3>1. EmailDone(k)'
      BY <1>12, <1>13, <2>1 DEF Stays, EmailDone
    <3>. QED
      BY <1>12, <1>13, <2>1, <3>1, NextUserSeeded DEF FindUser
  <2>2. CASE ~HasEmail(SeedEmails[at[s]])
    <3>1. pc'[s] = "addUser" /\ at'[s] = at[s]
      BY <1>13, <2>2, Types, GotoType DEF FindUser, Steps, Seeding, TypeOK
    <3>. QED
      BY <1>12, <1>13, <3>1 DEF Seeded
  <2>. QED
    BY <2>1, <2>2
<1>14. CASE AddUser(s)
  <2>. PICK k : at[s] = k
    OBVIOUS
  <2>1. CASE users' = users \cup {SeedUser(s)} /\ NextUser(s)
    <3>1. SeedUser(s).email = SeedEmails[at[s]]
      BY DEF SeedUser
    <3>2. EmailDone(k)'
      BY <2>1, <3>1 DEF EmailDone, HasEmail
    <3>. QED
      BY <1>12, <1>14, <2>1, <3>2, NextUserSeeded
  <2>. QED
    BY <1>1, <1>2, <1>14, <2>1 DEF AddUser
<1>15. CASE LoseDb(s) \/ Die(s) \/ Stop(s)
  BY <1>1, <1>2, <1>15 DEF LoseDb, Die, Stop
<1>. QED
  BY <1>3, <1>4, <1>6, <1>7, <1>8, <1>9, <1>10, <1>11, <1>13, <1>14, <1>15 DEF Run

\* A server that does not move keeps what it has passed.
LEMMA SeededOther ==
  ASSUME NEW s \in Servers, Seeded(s), Stays, pc'[s] = pc[s], at'[s] = at[s]
  PROVE  Seeded(s)'
BY DEF Seeded, Stays

LEMMA SeedStep == IInv /\ [Next]_vars => \A s \in Servers : Seeded(s)'
<1>. SUFFICES ASSUME IInv, [Next]_vars, NEW x \in Servers PROVE Seeded(x)'
  OBVIOUS
<1>1. TypeOK /\ Migrated(x) /\ Seeded(x) /\ Stays
  BY SeedsStay DEF IInv
<1>2. ASSUME NEW s \in Servers, Start(s) \/ Run(s) \/ Die(s) \/ Stop(s)
      PROVE  Seeded(x)'
  <2>1. CASE x = s
    BY <1>1, <1>2, <2>1, SeededMover
  <2>2. CASE x # s
    <3>1. pc'[x] = pc[x] /\ at'[x] = at[x]
      BY <1>1, <1>2, <2>2, Types, RunServerType DEF TypeOK
    <3>. QED
      BY <1>1, <3>1, SeededOther
  <2>. QED
    BY <2>1, <2>2
<1>3. CASE Aside \/ UNCHANGED vars
  <2>1. pc'[x] = pc[x] /\ at'[x] = at[x]
    BY <1>3, AsideKeeps DEF vars, server
  <2>. QED
    BY <1>1, <2>1, SeededOther
<1>. QED
  BY <1>2, <1>3 DEF Next, Aside

-----------------------------------------------------------------------------
(* Theorems *)

LEMMA Invariance == Spec => []IInv
<1>1. IInv /\ [Next]_vars => IInv'
  BY TypeStep, MigStep, SeedStep DEF IInv, Mig
<1>. QED
  BY <1>1, InitInv, PTL DEF Spec

\* Every variable keeps its type, whatever servers, administrators and outages do.
THEOREM TypeCorrect == Spec => []TypeOK
<1>1. IInv => TypeOK
  BY DEF IInv
<1>. QED
  BY <1>1, Invariance, PTL

\* Migrations take effect in the order of their names and without a gap, and all but the
\* last are recorded, for any number of files, servers, crashes and outages.
THEOREM InOrder == Spec => []MigrationsInOrder
<1>1. ASSUME IInv, NEW m \in 1..Files, NEW n \in 1..Files, n \in schema \cup recorded, m < n
      PROVE  m \in schema \cap recorded
  <2>1. recorded \subseteq schema
    BY <1>1 DEF IInv, UnrecordedExplained
  <2>2. m \in recorded
    BY <1>1, <2>1 DEF IInv, FilesInOrder
  <2>. QED
    BY <2>1, <2>2
<1>2. IInv => MigrationsInOrder
  BY <1>1 DEF MigrationsInOrder
<1>. QED
  BY <1>2, Invariance, PTL

\* Only a recording that is under way or was cut off leaves a file in force unrecorded.
THEOREM CutExplained == Spec => []UnrecordedExplained
<1>1. IInv => UnrecordedExplained
  BY DEF IInv
<1>. QED
  BY <1>1, Invariance, PTL

\* Whichever statements of several servers interleave with renamings, a server serves
\* only when every migration is recorded and every seed was there.
THEOREM ServesReady == Spec => []ReadyToServe
<1>1. IInv => ReadyToServe
  BY DEF IInv, Migrated, Seeded, CodeDone, EmailDone, ReadyToServe
<1>. QED
  BY <1>1, Invariance, PTL
=============================================================================
