------------------------------ MODULE Startup ------------------------------
(***************************************************************************)
(* The start of the server (cmd/server/main.go): connectDB, RunMigrations  *)
(* (internal/db/migrator.go), RunSeeds (internal/db/seeder.go), listening, *)
(* shutdown; and, beside it, the administration of associations and of the *)
(* accounts whose codes and addresses the seeds look for.                  *)
(*                                                                         *)
(* A server that fails to start ends, and stays down until somebody starts *)
(* it: air, whose child it is in its container, builds and starts it when  *)
(* a source file changes (.air.toml: rerun = false), and only an end of    *)
(* air itself makes docker compose restart the container.  Nothing starts  *)
(* the database again by itself either.  Two servers meet on one database  *)
(* when air kills a process whose statement still runs and starts the next *)
(* one, or when the service is replaced while it is up.                    *)
(*                                                                         *)
(* A migration file is one multi-statement Exec, which PostgreSQL runs as  *)
(* one transaction; recording it in schema_migrations is another one.      *)
(***************************************************************************)
EXTENDS Naturals, Sequences

CONSTANTS
  Servers,    \* processes of the server
  Files,      \* number of migration files; 1..Files is their sorted order
  Once,       \* files that fail when their objects exist already
  Breaks,     \* pairs <<m, n>>: m cannot be applied after n
  Codes,      \* association codes
  SeedCodes,  \* codes of seedAssociations, in order
  Sample,     \* SAMPLE01, whose id seedUsers reads
  Emails,     \* addresses of accounts
  SeedEmails, \* addresses of seedUsers, in order
  SystemSeeds,\* seed accounts that belong to no association
  MaxRetries, \* attempts of connectDB
  MaxFaults,  \* bound: crashes, failing statements, stops and outages
  MaxEdits    \* bound: creations and edits by administrators

ASSUME Installation ==
  /\ Files \in Nat \ {0}
  /\ Once \subseteq 1..Files
  /\ Breaks \subseteq (1..Files) \X (1..Files)
  /\ SeedCodes \in Seq(Codes) \ {<<>>} /\ Sample \in Codes
  /\ SeedEmails \in Seq(Emails) \ {<<>>} /\ SystemSeeds \subseteq Emails
  /\ MaxRetries \in Nat /\ MaxFaults \in Nat /\ MaxEdits \in Nat

VARIABLES
  db,        \* the database accepts statements, or is down
  schema,    \* files whose statements have taken effect
  recorded,  \* rows of schema_migrations
  assoc,     \* assoc[i]: code of the association with id i; none is ever deleted
  users,     \* rows of users
  pc,        \* pc[s]: the next statement of server s
  at,        \* at[s]: file, association or account server s is at
  sampleId,  \* sampleId[s]: id that seedUsers of s has read
  tries,     \* tries[s]: failed attempts of connectDB
  faults, edits, \* counters of the bounds
  cut,       \* history: files whose recording was cut off
  moved      \* history: codes and addresses that an edit took away

rows   == <<schema, recorded, assoc, users>>
server == <<pc, at, sampleId, tries>>
vars   == <<db, rows, server, faults, edits, cut, moved>>

None == 0  \* association of a system administrator

Migrating == {"check", "apply", "record"}
Seeding   == {"findAssoc", "addAssoc", "sample", "findUser", "addUser"}
Steps     == {"connect"} \cup Migrating \cup Seeding \cup {"serving"}

Init ==
  /\ db \in {"up", "down"}
  /\ schema = {} /\ recorded = {} /\ assoc = <<>> /\ users = {}
  /\ pc = [s \in Servers |-> "down"]
  /\ at = [s \in Servers |-> 1]
  /\ sampleId = [s \in Servers |-> None]
  /\ tries = [s \in Servers |-> 0]
  /\ faults = 0 /\ edits = 0
  /\ cut = {} /\ moved = {}

Goto(s, step, i) ==
  /\ pc' = [pc EXCEPT ![s] = step]
  /\ at' = [at EXCEPT ![s] = i]

\* log.Fatalf: the process ends.
Exit(s) ==
  /\ Goto(s, "down", 1)
  /\ sampleId' = [sampleId EXCEPT ![s] = None]
  /\ tries' = [tries EXCEPT ![s] = 0]

-----------------------------------------------------------------------------
(* main and connectDB *)

\* Somebody starts the server: docker compose up, or air after a change of its source.
Start(s) ==
  /\ pc[s] = "down"
  /\ Goto(s, "connect", 1)
  /\ UNCHANGED <<db, rows, sampleId, tries, faults, edits, cut, moved>>

\* A ping that is answered; ensureMigrationsTable follows.
Connect(s) ==
  /\ pc[s] = "connect" /\ db = "up"
  /\ Goto(s, "check", 1)
  /\ UNCHANGED <<db, rows, sampleId, tries, faults, edits, cut, moved>>

\* The last of the attempts ends the process.
ConnectFails(s) ==
  /\ pc[s] = "connect" /\ db = "down"
  /\ IF tries[s] + 1 < MaxRetries
     THEN tries' = [tries EXCEPT ![s] = tries[s] + 1] /\ UNCHANGED <<pc, at, sampleId>>
     ELSE Exit(s)
  /\ UNCHANGED <<db, rows, faults, edits, cut, moved>>

-----------------------------------------------------------------------------
(* RunMigrations *)

\* After the last file RunSeeds begins.
NextFile(s) ==
  IF at[s] < Files THEN Goto(s, "check", at[s] + 1) ELSE Goto(s, "findAssoc", 1)

\* Faulty: a file that is recorded is applied again.
CheckFaulty(s) ==
  /\ pc[s] = "check" /\ db = "up"
  /\ Goto(s, "apply", at[s])
  /\ UNCHANGED <<db, rows, sampleId, tries, faults, edits, cut, moved>>

\* Faulty: a file is recorded before it is applied.
CheckRecords(s) ==
  /\ pc[s] = "check" /\ db = "up"
  /\ recorded' = recorded \cup {at[s]}
  /\ IF at[s] \in recorded THEN NextFile(s) ELSE Goto(s, "apply", at[s])
  /\ UNCHANGED <<db, schema, assoc, users, sampleId, tries, faults, edits, cut, moved>>

\* isMigrationApplied
Check(s) ==
  /\ pc[s] = "check" /\ db = "up"
  /\ IF at[s] \in recorded THEN NextFile(s) ELSE Goto(s, "apply", at[s])
  /\ UNCHANGED <<db, rows, sampleId, tries, faults, edits, cut, moved>>

\* The statements of file m succeed.
Applicable(m) ==
  /\ m \in Once => m \notin schema
  /\ \A n \in schema : <<m, n>> \notin Breaks

\* Faulty: a file that cannot be applied is passed over.
ApplyFaulty(s) ==
  /\ pc[s] = "apply" /\ db = "up"
  /\ IF Applicable(at[s])
     THEN /\ schema' = schema \cup {at[s]}
          /\ Goto(s, "record", at[s])
     ELSE NextFile(s) /\ UNCHANGED schema
  /\ UNCHANGED <<db, recorded, assoc, users, sampleId, tries, faults, edits, cut, moved>>

\* The whole file takes effect or none of it.
Apply(s) ==
  /\ pc[s] = "apply" /\ db = "up"
  /\ IF Applicable(at[s])
     THEN /\ schema' = schema \cup {at[s]}
          /\ Goto(s, "record", at[s])
          /\ UNCHANGED <<sampleId, tries>>
     ELSE Exit(s) /\ UNCHANGED schema
  /\ UNCHANGED <<db, recorded, assoc, users, faults, edits, cut, moved>>

\* recordMigration: name is the primary key of schema_migrations.
Record(s) ==
  /\ pc[s] = "record" /\ db = "up"
  /\ IF at[s] \notin recorded
     THEN /\ recorded' = recorded \cup {at[s]}
          /\ NextFile(s)
          /\ UNCHANGED <<sampleId, tries>>
     ELSE Exit(s) /\ UNCHANGED recorded
  /\ UNCHANGED <<db, schema, assoc, users, faults, edits, cut, moved>>

-----------------------------------------------------------------------------
(* RunSeeds *)

HasCode(c)  == \E i \in DOMAIN assoc : assoc[i] = c
HasEmail(e) == \E x \in users : x.email = e

NextAssoc(s) ==
  IF at[s] < Len(SeedCodes) THEN Goto(s, "findAssoc", at[s] + 1) ELSE Goto(s, "sample", 1)

\* Faulty: a seed that exists ends the loop.
FindAssocFaulty(s) ==
  /\ pc[s] = "findAssoc" /\ db = "up"
  /\ IF HasCode(SeedCodes[at[s]]) THEN Goto(s, "sample", 1) ELSE Goto(s, "addAssoc", at[s])
  /\ UNCHANGED <<db, rows, sampleId, tries, faults, edits, cut, moved>>

FindAssoc(s) ==
  /\ pc[s] = "findAssoc" /\ db = "up"
  /\ IF HasCode(SeedCodes[at[s]]) THEN NextAssoc(s) ELSE Goto(s, "addAssoc", at[s])
  /\ UNCHANGED <<db, rows, sampleId, tries, faults, edits, cut, moved>>

\* code is UNIQUE: of two servers that found it missing, the second one fails.
AddAssoc(s) ==
  /\ pc[s] = "addAssoc" /\ db = "up"
  /\ IF HasCode(SeedCodes[at[s]])
     THEN Exit(s) /\ UNCHANGED assoc
     ELSE /\ assoc' = Append(assoc, SeedCodes[at[s]])
          /\ NextAssoc(s)
          /\ UNCHANGED <<sampleId, tries>>
  /\ UNCHANGED <<db, schema, recorded, users, faults, edits, cut, moved>>

\* seedUsers begins with the id of SAMPLE01.
FindSample(s) ==
  /\ pc[s] = "sample" /\ db = "up"
  /\ \/ /\ ~HasCode(Sample)
        /\ Exit(s)
     \/ \E i \in DOMAIN assoc :
          /\ assoc[i] = Sample
          /\ sampleId' = [sampleId EXCEPT ![s] = i]
          /\ Goto(s, "findUser", 1)
          /\ UNCHANGED tries
  /\ UNCHANGED <<db, rows, faults, edits, cut, moved>>

NextUser(s) ==
  IF at[s] < Len(SeedEmails) THEN Goto(s, "findUser", at[s] + 1) ELSE Goto(s, "serving", 1)

\* The account of server s's seed: the address is looked up in every association.
SeedUser(s) ==
  [email |-> SeedEmails[at[s]],
   assoc |-> IF SeedEmails[at[s]] \in SystemSeeds THEN None ELSE sampleId[s]]

FindUser(s) ==
  /\ pc[s] = "findUser" /\ db = "up"
  /\ IF HasEmail(SeedEmails[at[s]]) THEN NextUser(s) ELSE Goto(s, "addUser", at[s])
  /\ UNCHANGED <<db, rows, sampleId, tries, faults, edits, cut, moved>>

\* UNIQUE (association, email)
AddUser(s) ==
  /\ pc[s] = "addUser" /\ db = "up"
  /\ IF SeedUser(s) \in users
     THEN Exit(s) /\ UNCHANGED users
     ELSE /\ users' = users \cup {SeedUser(s)}
          /\ NextUser(s)
          /\ UNCHANGED <<sampleId, tries>>
  /\ UNCHANGED <<db, schema, recorded, assoc, faults, edits, cut, moved>>

-----------------------------------------------------------------------------
(* Faults *)

\* The recording of the file s has applied is cut off.
CutBy(s) == IF pc[s] = "record" /\ at[s] \notin recorded THEN {at[s]} ELSE {}

\* A statement fails because the database is down: log.Fatalf.
LoseDb(s) ==
  /\ pc[s] \in Migrating \cup Seeding /\ db = "down"
  /\ Exit(s)
  /\ cut' = cut \cup CutBy(s)
  /\ UNCHANGED <<db, rows, faults, edits, moved>>

\* A crash, a failing statement, or an answer that is lost after the statement took effect.
Die(s) ==
  /\ pc[s] \in Steps \ {"serving"} /\ faults < MaxFaults
  /\ Exit(s)
  /\ cut' = cut \cup CutBy(s)
  /\ faults' = faults + 1
  /\ UNCHANGED <<db, rows, edits, moved>>

\* SIGTERM and Shutdown, or a crash of a serving process.
Stop(s) ==
  /\ pc[s] = "serving" /\ faults < MaxFaults
  /\ Exit(s)
  /\ faults' = faults + 1
  /\ UNCHANGED <<db, rows, edits, cut, moved>>

DbStop ==
  /\ db = "up" /\ faults < MaxFaults
  /\ db' = "down"
  /\ faults' = faults + 1
  /\ UNCHANGED <<rows, server, edits, cut, moved>>

DbStart ==
  /\ db = "down"
  /\ db' = "up"
  /\ UNCHANGED <<rows, server, faults, edits, cut, moved>>

-----------------------------------------------------------------------------
(* Administration, through a server that serves *)

Administered ==
  /\ db = "up" /\ \E s \in Servers : pc[s] = "serving"
  /\ edits < MaxEdits
  /\ edits' = edits + 1
  /\ UNCHANGED <<db, schema, recorded, server, faults, cut>>

\* association.Service.Create; a code in use is answered with CODE_CONFLICT.
CreateAssoc(c) ==
  /\ Administered
  /\ ~HasCode(c)
  /\ assoc' = Append(assoc, c)
  /\ UNCHANGED <<users, moved>>

\* association.Service.Update: the row is found, then its name and code are written.
UpdateAssoc(i, c) ==
  /\ Administered
  /\ ~HasCode(c)
  /\ assoc' = [assoc EXCEPT ![i] = c]
  /\ moved' = moved \cup {assoc[i]}
  /\ UNCHANGED users

\* account.Service.Update: an account is given another address.
EditEmail(x, e) ==
  /\ Administered
  /\ e # x.email /\ [x EXCEPT !.email = e] \notin users
  /\ users' = (users \ {x}) \cup {[x EXCEPT !.email = e]}
  /\ moved' = moved \cup {x.email}
  /\ UNCHANGED assoc

-----------------------------------------------------------------------------

\* What a started process does by itself.
Run(s) ==
  \/ Connect(s) \/ ConnectFails(s)
  \/ Check(s) \/ Apply(s) \/ Record(s)
  \/ FindAssoc(s) \/ AddAssoc(s) \/ FindSample(s) \/ FindUser(s) \/ AddUser(s)
  \/ LoseDb(s)

Next ==
  \/ \E s \in Servers : Start(s) \/ Run(s) \/ Die(s) \/ Stop(s)
  \/ DbStop \/ DbStart
  \/ \E c \in Codes : CreateAssoc(c) \/ \E i \in DOMAIN assoc : UpdateAssoc(i, c)
  \/ \E x \in users, e \in Emails : EditEmail(x, e)

Spec == Init /\ [][Next]_vars

\* A process that has been started runs.  Nobody has to start one, or the database.
FairSpec == Spec /\ \A s \in Servers : WF_vars(Run(s))

-----------------------------------------------------------------------------
(* Correctness *)

UserRow == [email : Emails, assoc : Nat]

\* The type of every variable.
TypeOK ==
  /\ db \in {"up", "down"}
  /\ schema \subseteq 1..Files /\ recorded \subseteq 1..Files
  /\ assoc \in Seq(Codes)
  /\ users \subseteq UserRow
  /\ pc \in [Servers -> {"down"} \cup Steps]
  /\ at \in [Servers -> Nat \ {0}]
  /\ sampleId \in [Servers -> Nat]
  /\ tries \in [Servers -> 0..MaxRetries]
  /\ faults \in 0..MaxFaults /\ edits \in 0..MaxEdits
  /\ cut \subseteq 1..Files
  /\ moved \subseteq Codes \cup Emails

\* However many servers start and die, the migrations take effect in the order of their
\* names without a gap, and all but the last one that did are recorded.
MigrationsInOrder ==
  \A m, n \in 1..Files : (n \in schema \cup recorded /\ m < n) => m \in schema \cap recorded

\* A file that took effect and is not recorded is being recorded by a server, or was cut
\* off there: no other way leads to a database on which no server starts again.
UnrecordedExplained ==
  /\ recorded \subseteq schema
  /\ \A m \in schema \ recorded : m \in cut \/ \E s \in Servers : pc[s] = "record" /\ at[s] = m

\* A server serves only when every migration is recorded, and with every seed in the
\* database that no administrator has given another code or address.
ReadyToServe ==
  \A s \in Servers : pc[s] = "serving" =>
    /\ recorded = 1..Files
    /\ \A i \in DOMAIN SeedCodes : HasCode(SeedCodes[i]) \/ SeedCodes[i] \in moved
    /\ \A i \in DOMAIN SeedEmails : HasEmail(SeedEmails[i]) \/ SeedEmails[i] \in moved

\* No server gets to serve any more: a file that took effect is not recorded and cannot be repeated.
Stuck ==
  \E m \in schema \ recorded :
    /\ ~Applicable(m)
    /\ \A s \in Servers : ~(pc[s] = "record" /\ at[s] = m)

\* The environment does its part: the database comes back, and somebody starts a server
\* again whenever it has ended.
LookedAfter == []<>(db = "up") /\ \E s \in Servers : []<>(pc[s] # "down")

\* Starting again is all it takes: crashes, failures, outages and collisions of two starts
\* leave nothing that keeps a server which is looked after from serving, except a cut-off
\* recording of a file that cannot be repeated.
ServesAgain == LookedAfter => []<>((\E s \in Servers : pc[s] = "serving") \/ Stuck)

=============================================================================
