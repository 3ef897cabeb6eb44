# Verification of Circular Board

TLA+ specifications of Circular Board (回覧板アプリ), their model-checking
configurations for TLC and their proofs for TLAPS. The reference is the code
under `src/`; paths below are relative to `src/backend/internal` unless they
start with `frontend/` or `db/`.

## The system

Circular Board is a multi-tenant notice board for neighbourhood associations: a
Go server (chi, pgx) over PostgreSQL, files on the server's disk, and a Flutter
client. Every request carries an access token whose claims name the user, the
role and the association; the server keeps no state in memory between two
requests. What can go wrong lies in what several requests do to the database and
the disk at the same time, and in what is left when a step fails. Only four places
open a transaction (survey creation, `SaveAnswers`, `PasswordResetRepository.Create`,
the two writers of `permission`); elsewhere a handler is a sequence of statements,
each of which commits by itself.

| component | state | operations | what makes it correct | where |
|---|---|---|---|---|
| survey answers (`survey/`) | surveys, questions, choices, answers | Create, Answer, Delete, List, Get, Results, UnansweredCount | a submission is stored whole, replaces the former one, fits its survey and came in time; an acknowledged one is not lost; results add up | `SurveyAnswers`, `AnswerSheet`, `Readers` |
| survey images (`survey/image_handler.go`), circulars (`files/`) | row and file of an item | Upload, Delete, Download | a visible row has its file; files without a row have a known cause | `FileStore` |
| sessions (`service/auth_service.go`, `repository/`) | refresh tokens | Login, Refresh, Logout, Me | a token is exchanged once, a logout ends the session, an inactive user gets nothing | `Sessions` |
| access tokens (`middleware/auth.go`) | none (signed claims) | Authenticate | who was deactivated is shut out after a bounded time | `ClientSession` |
| client: authentication (`frontend/lib/features/auth`) | two stored tokens, a user or none | initialize, login, logout | client and server agree on the tokens that are alive | `ClientSession` |
| accounts, password reset (`account/`, `handler/auth_handler.go`) | users, reset tokens | Create, Update, Activate, Deactivate, ForgotPassword, ResetPassword | a password was set by somebody entitled to, and last; reset tokens are for one use | `Passwords` |
| permissions (`permission/`, `middleware/permission.go`, `operation_log/`) | role × feature matrix, defaults and per association; operation log | UpdatePermissions, EmergencyAppointment, RequireFeature | the log accounts for the matrix and the roles; an association is governed by its own updates | `Permissions` |
| client: permission screen (`frontend/lib/features/permission`) | selected association, edited matrix, two flags | select, load, updatePermission, save | what is shown belongs to what is selected; what was saved stays | `PermissionScreen` |
| associations (`association/`) | associations | Create, Update, Activate, Deactivate, Delete | members of an inactive one cannot log in; codes are unique beside the seeds | `Sessions`, `Startup` |
| notices (`notice/`) | notices, reading marks | Create, Delete, List, Get, MarkAsRead, UnreadCount | only members read and mark; what was opened is marked, or known to have failed | `Readers` |
| home (`home/`) | none | GetHomeData | lists and counts agree but for what was written meanwhile | `Readers` |
| migrations, seeds, start (`db/`, `cmd/server/main.go`) | schema_migrations, seeded rows | connect, migrate, seed, serve, stop | a server serves only what is migrated and seeded; a start that was cut off can be repeated | `Startup` |
| lists and forms of the client, screens and widgets, configuration, CORS, domain types, JSON responses, nginx, docker | none | | | not modelled |

Components interact through the database: `Passwords` and `Sessions` share the
users table (deactivation), `Permissions` and accounts share the role of a user,
surveys own their images, an appointment writes into notices. The client calls
the server over HTTP and repeats nothing by itself; a request whose answer is
lost may have taken effect.

What is hard to test here, and what the properties are for: statements of two
requests in an order nobody wrote a test for; facts checked in one statement and
used in a later one; rows that a READ COMMITTED statement does not see; batches
that wait for each other; pages put together from several queries; requests that
need a second connection of the pool; a commit whose acknowledgement is lost; a
failure between the database and the disk; a crash between two statements, of the
server or of the app; answers that overtake each other on their way to a screen.
`PROJECT.json` lists each at its line.

## Conventions of the modules

A request is a process. `req[r]` is what it asks for (set once, by a `Start...`
action), `pc[r]` the repository call it makes next, or its outcome. Each action
is one SQL statement or system call with the Go code up to the next one; it is
named after the Go function it is part of. So TLC interleaves requests exactly
where the server can. `Abort` (in `FileStore`: `Fails` and `Crash`) is a
statement that fails, a client that goes away (the context of a request is
cancelled) or a crash of the server at that point; the statement that writes also
has the outcome in which it took effect and the caller was told otherwise.

Where a handler opens a transaction, the module says what READ COMMITTED gives:
writes are kept in variables of the transaction until `Commit`; a SELECT or the
snapshot of a DELETE sees committed rows and the transaction's own; a row written
by another open transaction makes a writer wait; the unique index makes an INSERT
wait for the transactions that wrote its key and fail on a committed duplicate;
`DeadlockAbort` cancels a member of a cycle of waiters. These operators are marked
external in the map: PostgreSQL is not part of the repository.

Identifiers (UUIDs, hashed tokens, storage paths) are fresh in the code and are
named by the request that makes them. Passwords and tokens are known only to
those they were given to. Names, texts, file contents and JSON are left out. The
clock is one for server and database, and moves in any step of time; in the code
`time.Now()` of the server is compared with rows the server wrote, and `NOW()` of
the database with the same, so the assumption is that the two clocks agree.

Variables under "history" in a declaration record what happened, for the
properties only; no guard reads them. A definition whose comment begins with
"Faulty" (its name ends in `Faulty`, or says what it does: `DeleteRowLast`,
`CheckRecords`, `EffectiveWithoutDefault`) is not used by the specification: it is
a mistake the code could contain, which a property must detect when it is put in
the place of the definition it resembles.

## Modules

**SurveyAnswers** — `survey/handler.go`, `service.go`, `repository.go`.
`Answer` is `CheckSurveyExpiry`, `FindSurvey`, `ValidateChoices`, then
`SaveAnswers`: `DeleteAnswers` takes the snapshot of the DELETE, `DeleteRow` locks
and deletes one row of it, `InsertRow` is one iteration of the loop of INSERTs,
`Commit` the commit. `Delete` is `FindForDelete`, `SoftDelete`. `Create` is one
action, because it is one transaction of INSERTs of fresh rows that nobody else
can see or touch earlier. Questions and choices never change after Create and are
constants. `IsAnswered` and `Unanswered` are what the list and the badge show.
The constant `SerialUsers` says whether clients wait for their answer.
**AnswerSheet** is the promise: one ballot per user and survey, cast as a whole.

**Sessions** — `service/auth_service.go`, `refresh_token_repository.go`. A request
is a login or a refresh and makes one token at most, so a token is named by its
request, and `root` leads from a token to the login its session began with.
Refresh is `FindToken`, `FindActive`, `DeleteToken`, `CreateToken`. Deactivation of
accounts (not the own one) and of associations runs beside.

**Passwords** — `account/`, `handler/auth_handler.go`, `password_reset_repository.go`.
`Update` is `FindAccount` (reads the row) and `UpdateAccount` (writes it back);
`ForgotPassword`'s goroutine is `FindEmail`, the transaction `DeleteUnused`,
`LockUnused`, `SaveToken`, and `SendMail`; `ResetPassword` is `FindToken`,
`UpdatePassword`, and `MarkUsed` or `MarkFails`. A password is named by the
request that set it.

**FileStore** — `files/`, `survey/image_handler.go`. Two kinds of items whose
steps differ where the code differs: a circular that cannot be written is removed
(`CopyFile`), an image is left (`WriteImage`); the row of a circular is marked, that
of an image deleted, which both read as "no live row". `InsertRow` has the
outcome that took effect and was reported as failed; `Remove` may fail unseen.

**Permissions** — `permission/`, `middleware/permission.go`. A batch of
`UpdatePermissions` repeats `NextInput` (skips rows of system_admin, reads the value
to log), `Upsert`, `LogUpdate`; `EmergencyAppointment` is `FindUser`, `UpdateRole`,
`LogRole`, `PostNotice`; both end in `Commit`. `at[r]` is `NOW()` in the
transaction, its start, which the column `created_at` of the log takes.
`Effective` is `GetPermissionByRoleAndFeature`, `Allowed` is `RequireFeature`.
Edits and (de)activation of accounts, which change the same users, run beside.
A batch may name a cell twice, as nothing in the handler forbids.

**ClientSession** — `frontend/lib/features/auth`, `middleware/auth.go`, on top of
`Sessions`, which it EXTENDS. `phase` is what the app is doing; `access` and `refresh`
are its two entries of the secure storage, which `_saveTokens` and `_clearTokens` write
and delete one after the other (`SaveAccess`, `SaveRefresh`, `ClearAccess`,
`ClearRefresh`); `Kill` ends the app between any two of them. `Open` is
`AuthNotifier.initialize`, `Failed` any exception of the HTTP client, a timeout
included: the server may still answer. `OtherDevice` is everything another client of
the same or another user does. A `Serve` step is one statement of the server, and
`issued` is when it signed an access token, which `Authenticates` checks. The app's
refresh token is read once, when it is opened; nothing else in the client refreshes.

**PermissionScreen** — `frontend/lib/features/permission`. A screen has any number of
loads and one save under way; a call is sent, served and answered in three steps, so
answers overtake each other, and may fail at either end. `ServePut` writes every cell
of the table, as `save` sends it. The server is one step per call here; its statements
are in `Permissions`. `wanted` remembers what an admin set and saved.

**Readers** — `notice/`, `home/`, `GetResults` of `survey/`. Each query is an action that
needs a free connection of the pool (`Query`); `held` are the requests that keep one
between two queries, which only `GetResults` does, because it asks for the choices
while the rows of its questions are open. `ReadChoices` has the outcome of a query that
fails once its rows are being read: `GetResults` never looks at `cRows.Err` and shows what it
has (`cutOff` remembers the question); every other loop over rows here looks. `GetHomeData` is `ListNotices`, `ListSurveys`,
`CountNotices`, `CountSurveys`. `Handler.Get` is `FindNotice`, then `FindForMark` and
`Mark`, whose failures it ignores. Writes by others are single steps, and counted
(`drift`); `voted` is what the database held when the users were counted.

**Startup** — `cmd/server/main.go`, `db/`. Several server processes on one database:
`Connect` (with `MaxRetries`), per file `Check`, `Apply`, `Record`, per seed `Find...` and
`Add...`, then serving. A migration file is one Exec of several statements, which
PostgreSQL runs as one transaction; recording it is another. `Once` and `Breaks` are
the files that cannot be applied again, or not after a later one. `Exit` is
`log.Fatalf`, which ends the process; it stays down until `Start`, which is somebody's act:
air, which runs it in its container, has `rerun = false` (`backend/.air.toml:20`) and starts
it when a source file changes, and `restart: unless-stopped` of the service concerns air
itself. `Die` is a crash or a lost answer, `LoseDb` a statement that finds the database down. Administrators
rename associations and addresses meanwhile, as far as the seeds look for them.

**SurveyAnswersProofs, ClientSessionProofs** (of `Sessions` too)**, FileStoreProofs,
PasswordsProofs, PermissionsProofs, PermissionScreenProofs, ReadersProofs,
StartupProofs** hold the inductive invariants, lemmas and theorems. The **MC** modules
give the constants values; they extend the proofs, or the module these are about, so
that TLC evaluates the assumptions the proofs use.

## Runs

| run | what it asks | instance |
|---|---|---|
| `answers_race` | Is a submission stored whole, is an acknowledged one kept, does every request end, when submissions of one user and deletions of the survey run at the same time? | 3 requests, bodies whose INSERTs meet in opposite orders, and the empty body |
| `answers_serial` | Do stored answers fit and come in time, and do the handlers implement `AnswerSheet`, when clients wait for their answer? | 3 requests, two associations, a member of one and a system admin who acts for either, valid and invalid bodies |
| `answers_overlap` | Does SaveAnswers replace the existing answers, as its comment says, without that? **Violated** | 3 requests of one user |
| `sessions` | Do logout, rotation and deactivation keep what they promise, and do the app and the server agree on the tokens that are alive? | 3 requests of an app that may be killed, of other devices of its user and of a system admin; refresh and access tokens expire |
| `sessions_reuse` | Is a refresh token exchanged once, as the test says? **Violated** | 4 requests of one user |
| `passwords` | Was every stored password set by somebody entitled to, and last; are reset tokens single and single-use? | 3 requests, a seeded account, one of its association, one of another |
| `passwords_edit` | Does an edit without a password leave the password? **Violated** | an edit and a reset or another edit |
| `files` | Do rows and files agree, or disagree for a known reason? | 4 requests, two associations and a system admin |
| `permissions` | Does the log account for the matrix and for roles, do associations stay apart, can somebody always go on, do batches that meet end? | 2 requests, defaults and one association, batches in opposite orders, one that names system_admin, one that names a row twice |
| `startup` | Does a server serve only what is migrated and seeded, and is starting it again all it takes after crashes, outages and two starts at once? | 2 servers, 4 files of which two cannot be repeated, 2 faults, 2 edits by administrators |
| `readers` | Are marks and pages right but for what was written meanwhile and what failed unseen, and is every request answered? | 2 requests on a pool of 2 connections, 2 notices, a survey of 2 questions, two associations, 3 writes |
| `screen` | Does a screen show what is selected, and does a saved setting stay? | 2 screens, the defaults and one association, 2 cells, 2 loads at a time, 6 acts of the admins |

Each passing property has a mutant in `PROJECT.json`: a mistake in a definition of
the model, named above, with which TLC finds the property violated.

*Bounds and why they are enough.* Three requests are two that conflict and one
before or after them that makes the rows they conflict over; in `sessions` a login, a
refresh of it and a third that uses the same or the next token or is of another
device; four let an item have an upload, two deletions and a download. In
`permissions` two requests conflict over the rows the migration made, so no third is
needed; in `readers` two requests are enough to hold a pool of two. Two servers are
an old and a new process, the most that a restart or a replaced service has at once; of four files two
are such as 005 and 008, one is such as 007; two faults are a crash and an outage, or
two crashes on one file. On a screen, six acts are a load or selection, an edit and a save on
either screen. The clock takes two values, which puts an expiry before, at and after any
statement. Requests, screens and cells are interchangeable and runs without liveness
use that as symmetry. The bounds themselves are constants that guards name: `MaxTime`
stops the clock, `MaxFaults`, `MaxEdits`, `MaxWrites`, `MaxActs` and `MaxLoads` stop what
is done to the system; the proofs hold for any. `CHECK_DEADLOCK FALSE` is there
because an instance has a finite number of requests, writes or acts and then nothing
to do; that requests never wait only for each other is `NoStandstill`, that none waits for
ever is `EveryRequestAnswered`, that a server which is started again gets to serve is
`ServesAgain`.

*Fairness.* `FairSpec` (SurveyAnswers, Permissions) has weak fairness of `Proceed(r)`
for each request: net/http runs every handler in a goroutine of its own, and
PostgreSQL completes a statement that has nothing to wait for and cancels a
deadlocked one (`deadlock_timeout`). `Proceed` excludes `Abort` and starting a
request: nothing is assumed to fail, nobody has to send anything. No strong
fairness is needed: a transaction that waits is waited for by the database, and
becomes able to move for good when the one that blocks it ends, or is cancelled.
`Readers` has weak fairness of each request's next query: pgxpool hands a free
connection to a waiter. `Startup` has weak fairness of what a started process does by
itself (`Run`). Nobody has to start a process or the database: docker-compose.yml gives the
database no restart policy, and air keeps the container of the backend up when its child
ends. So `ServesAgain` names the environment it is about (`LookedAfter`): the database is up
again and again, and one server is started again whenever it has ended. Faults are never assumed to happen, and `MaxFaults` bounds how often they do.

## What the runs show

*Survey answers.* The transaction keeps submissions whole, whatever overlaps, and
deadlocks are resolved at no acknowledged submission's cost. It does not make
submissions replace each other: when two overlap, the DELETE of either does not see
the rows the other has inserted but not committed, and the union stays
(`answers_overlap`). With clients that wait, as the answer screen does, and
bodies that name each question once, the handlers implement `AnswerSheet`. The
checks made before the transaction may be stale when it commits; the property
`OnlyTimelyAnswers` is what then still holds: an answer may be stored after the
survey expired or was deleted, but was admitted before.

*Sessions and the app.* The rotation deletes the old token without asking whether it
was still there; two refreshes that overlap both get a token (`sessions_reuse`), and the
session then has two (`OneTokenPerSession` excludes just this). A refresh that has
found its token when the logout comes survives the logout. Otherwise sessions
end, and late reuse is refused. A logout that the server does not take is swallowed, and
leaves the session on the server until it expires: `NothingLeftBehind` lists this with
the other ways a token is left (`stray`). An app that is killed between the exchange
of its token and saving the next one (`cut`) keeps a token nobody accepts; otherwise
`StoredSessionAlive` holds. The middleware looks at the signature only, so a deactivated
user is admitted until the access token expires, and not longer (`AccessEnds`), but for
a login or refresh that had read the account before.

*Passwords.* An edit without a password writes the hash back it has read, and undoes
a reset or an edit in between (`passwords_edit`); `LatestPassword` shows this is the
only way a password is lost. Two forgot requests at once leave two valid reset tokens.

*Files.* The order of steps (file before row, row before removal) is what makes
`RowsHaveFiles` hold; its one exception is an INSERT that took effect and was
reported as failed, after which the file of a live row is removed. Nothing ever
collects the orphans `OrphansExplained` lists.

*Permissions.* What is committed and what is logged agree row by row. The entries
about a row chain, each one's former value being the one before's new value, for
rows that no two transactions were writing at once (`raced`) and no body names twice
(`NamesTwice`). Where two were, the former value may be stale and the order by
`created_at` may differ from the order of effect; the two entries of a row named twice
have one `created_at`, so that the log cannot say which came last.

*Permission screen.* `ShowsSelected` holds as long as one load is under way at a time
and does not fail; after a failed load the table of the former association stays, under
the name of the new one, and can be saved there. `save` sends the whole table, so a
setting another admin saved since the table was loaded is undone; `SettingStays` shows
that nothing else undoes one.

*Readers.* Marks stay within the association although the lookup and the INSERT are two
statements. A home page is wrong by no more than what was written between its queries. So is
a page of results, but for one failure: a query of choices that fails while its rows are read
ends the loop (`survey/repository.go:289`) as if there were no more, and the page is shown
with answers missing and percentages of what was read. `ResultsSkewBounded` shows that
nothing else leaves a question with too few answers. Every request is answered but in one situation
(`PoolHeld`): as many results pages as the pool has connections keep one each and wait
for another, until their clients go away.

*Startup.* Migrations take effect in order and without a gap, whatever crashes and however many
servers start. The one way to a database on which no server starts any more (`Stuck`) is
a crash, or a lost answer, between a migration that cannot be repeated and its row in
schema_migrations; otherwise a server that is started again serves, once the database is
back. Of two servers that insert the same seed one fails, and finds it when it is started
again.

## What is proved

The theorems hold for every value of the constants: any number of requests, users,
associations, surveys, servers, files and bodies, any lifetime, any bound. They assume
what the modules' named ASSUMEs say (`Catalogue`, `Accounts`, `Claims`, `Directory`,
`Client`, `Installation`, `Audience`, `Matrix`), which TLC evaluates on the instances. Each inductive invariant
was checked with TLC on the instance of its run before it was proved.

*SurveyAnswersProofs.* `SubmissionsIntact` is not inductive: a DELETE may run while
rows of a submission are stored, and nothing in the property says it takes all of them.
`IInv` adds `TxOK` (what an open transaction has inserted is what it has passed of its
body), `WriterDone` (rows that are stored, or were when a snapshot was taken, have a
writer that has finished, so a submission is complete when seen), `DeletesApart` (no
row is deleted twice) and `TakesWhole` (a snapshot holds all stored rows of a
submission or none, and keeps doing so while they are locked one by one). From it
follow `StoredWhole`, and with further invariants on top of it `AnswersAdmitted`,
`DeletedOnce` and `AckKept`.

*SurveyAnswersProofs, clients that wait.* Under `SerialUsers`, the writer's transaction has locked or
deleted every row stored for its user and survey (`SerialInv`), hence `OneSubmission`;
and, if bodies name each question once, `Commit` is a `Cast` of `AnswerSheet` and
every other step a stutter (`Implements`).

*ClientSessionProofs, the server.* `IInv` follows the chain of tokens from its login (`Lineage`), says
that a token which was exchanged is not stored (`ExchangedGone`), that nothing of an
ended session is stored or in flight (`OverGone`), why late and barred requests are
stuck, and that, unless two refreshes overlapped, one request at most is past its
lookup and the only stored token is the one it is about to exchange (`Alone`).

*FileStoreProofs.* `IInv` ties the progress of an upload to the file and the row
(`Written`), lets one deletion at most go on to remove the file (`OneUnlinks`), and
carries the three claims themselves, as the steps of one item's deletion could disturb
any of them.

*ClientSessionProofs, the app.* `ServerStep`: every step of the composition is a step of `Sessions`
or leaves its variables alone, hence `ImplementsSessions`, and the theorems about
`Sessions` hold beside the app (`ServerPromises`). `AppInv` adds to `IInv` of Sessions
that nobody but the app uses its tokens (`MineApart`), what its two entries and its
pending call have to do with each other in each phase (`Kept`), that a token is stored
until it is used or revoked (`StoredUntil`), that what the app neither keeps nor dropped
is gone (`Forgotten`), and that a token of an inactive user was signed before the
deactivation (`SignedBefore`, `IssuedBefore`).

*PasswordsProofs.* `Shape` says which requests can be at which statement and that the
user they looked up exists. `HashesEntitled` covers the hashes edits have read as well as
the stored ones: who may set a password is settled by what the request was when it was
sent. `LateRefused` says that a late reset has set nothing and cannot get past its
lookup; `LatestRead`, that an edit's reading is the stored hash, or was crossed by a
change, or a change was undone already. `DeletesUnused` and `Replaces` say that a
transaction that replaces tokens deletes what nobody else deletes, and, where no two
overlapped, is alone and has selected every unused token.

*PermissionsProofs.* `LogTellsMatrix` is not inductive: a commit writes rows and appends
entries that nothing in it relates. `IInv` adds `Shape`, `WritesFit` (an update writes rows
of its scope only, none of system_admin), `Logged` (the last entry of a transaction
about a row says what it has written there, but for the row it is at) and `Appoints`
(an appointment has logged before it posts, and posted before it commits; nothing of it
is seen earlier). `Concatenated` and `LastOfConcat` are the lemmas on the log a commit
leaves. `OnlyOwnUpdates` is an action property, from `WritesFit` at the commit.

*PermissionsProofs, the audit trail.* `AuditTrail` orders the log by the start of the
transactions, while the log grows in the order of their ends. `AuditInv` relates the two:
`Times` numbers the transactions as they begin; `Progress` says that an update has written
and logged the rows of the inputs it is done with and no others, hence (`OnlyOnce`) not the
row it comes to, unless it names it twice; `Apart`, that open transactions share `raced`
rows only; `Fresh`, that an open transaction began after every entry about its audited
rows, which still hold the values it has read (`RowsKept`). So what a commit appends about
such a row is one entry, later by both orders than the others, that starts from the present
value (`Chronicle`), and `LogTellsMatrix` makes that the value the last entry left.

*PermissionsProofs, waiting.* `NoStandstill` is what of `EveryRequestAnswered` can be said
of states: take any group of open requests; one of them can run its next statement, waits
for an open request outside the group, or is in a cycle the database breaks. Were there a
group without any of these, each of its members would wait for a member, and a least
subset of that kind, which a finite set has (`CycleOfWaiters`), has nobody in it that
nobody waits for: it is a cycle. `Able` and `Deadlocked` stand for ENABLED, which the
prover does not treat; that a request at its work has a statement or waits at a row
follows from `Shape`.

*PermissionScreenProofs.* `OneLoad` says of a screen that is not `suspect` that one load at
most is under way, of the selected association, and that without one the table is of that
association: `ShowsSelected`. `Coherence` says that a cell of an answer, of a table or of a
save under way has the value the server uses, unless it was touched, or rows of that
association or defaults were saved since it was read. So a save that leaves a cell
untouched, of a table as new as the last save, changes nothing there: `SettingStays`.

*ReadersProofs.* `Entitled` says who a request acts for, once the lookup of its notice has
admitted it; with it `MarksAdmitted` and `OpenedIsRead` are inductive. Of pages,
`PagesNear` bounds the distance between a list that has been read and what a count would
give now by `drift`, which every write increases by one at least (`CountsDrift`), since a
write changes one notice, mark, survey or ballot (`OneOffCount`); for the results, from both
sides (`ResultsNear`): what is due of a question that is yet to be read, and what was told of
those that were. A list shorter than its
limit holds every live notice (`ShortListIsAll`), by the minimal counterexample of the
order on finite sets, as no recursion over data is at hand.

*StartupProofs.* `Migrated` says what a server at file n has found or recorded, `Seeded`
the same of seeds; with `FilesInOrder` they are inductive together with
`UnrecordedExplained`. From them follow `MigrationsInOrder` and `ReadyToServe`.

`DeletedOnce` (of surveys and of items) and most theorems of type correctness are proved
of definitions that no run repeats, where a run would ask nothing more.

Every safety property the passing runs check is proved. Model-checked only are
`EveryRequestAnswered` (of survey answers, permissions and readers) and `ServesAgain`,
because liveness under fairness is out of the prover's reach (`NoStandstill` is its
static part for permissions), and of course the violations.

## Not modelled

Configuration, CORS, JSON and type declarations have no state. Screens and widgets
hold form fields that are sent as one request. Lists of the client are fetched anew when
a screen opens and after each change; two loads of one list may overtake each other, as
on the permission screen, but nothing is saved from a list. The contents of mails and
files, limits of size, detection of types and the search terms of lists are data no
property tells apart. nginx and docker-compose are static. bcrypt, JWT signatures and
hashing of tokens are taken to do what they are for. Backups and several PostgreSQL
servers do not occur in the repository.

Left out of modelled components: an image whose survey is deleted (the deletion leaves
its rows and files as they are); the arrival at the server of a logout or a save whose
client gave up waiting, after a later call of the same client; `DeleteExpired` of refresh
tokens, which nothing calls, so that rows of expired tokens stay. A body that names a
single question twice stores two choices, since each entry is validated alone
(`survey/repository.go:329`), although `005_surveys.sql:46` leaves to the service that there
is one; `ImplementsSheet` is stated for bodies that name each question once, as the
answer screen builds them.
