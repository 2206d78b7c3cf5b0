# Verification of nonprofit-ledger

TLA+ models, model checks and machine-checked proofs of the server of
nonprofit-ledger: a double-entry, fund-accounting ledger for one organisation,
written in Go over one SQLite file. Paths below are relative to `src/`.

## 1. The system

One process serves HTTP. Every handler runs in a goroutine of its own and
reaches the same SQLite database through `database/sql`'s connection pool; a
further goroutine takes backups on a timer. There is no in-memory state shared
between requests: all interaction goes through the database and, for backups,
the backup directory.

| part | source | state it keeps | operations |
|---|---|---|---|
| ledger | `server/ledger/posting.go`, `reversal.go`, `period.go` | `journal_entries`, `journal_lines` (append-only by triggers), `accounting_periods` (one row) | `PostJournalEntry`, `ReverseJournalEntry`, `LockPeriod`, `GetLockedThroughDate` |
| audit log | `server/audit/audit.go` | `audit_log` (append-only by triggers) | `Write`, inside the caller's transaction |
| derived balances | `server/ledger/balances.go` | none | `FundBalance`, `TrialBalance` |
| chart of accounts, funds | `server/ledger/coa.go`, `funds.go` | `accounts`, `funds` | `CreateAccount`, `CreateFund`, look-ups; no HTTP route yet |
| database | `server/db/sqlite.go`, `server/db/migrations` | the pool, pragmas per connection, the schema | `Open`, `RunMigrations` |
| backup | `server/backup/backup.go`, `restore.go`, `server/api/backup.go` | `backup_runs`, the files of the backup directory | `Snapshot`, `Rotate`, `RunScheduled`, `Restore`, `BackupStatusHandler` |
| users | `server/users/users.go`, `server/api/users.go` | `users` | create, list, change role, deactivate |
| sessions and authorisation | `server/auth`, `server/api/auth.go` | `sessions` (scs store) | login, logout, `RequireAuth`, `RequireRole` |
| start-up | `cmd/server/main.go` | none of its own | configuration, migrations, first admin, scheduler, listen |
| routes | `server/api/routes.go` | none | decode, call the ledger, encode |

How they interact: a posting request passes `LoadAndSave`, `RequireAuth` and
`RequireRole`, then runs one SQLite transaction that reads the lock and the
accounts, inserts the entry and its lines, and calls `audit.Write` before its
commit. `LockPeriod` does the same with one upsert. `ReverseJournalEntry` is
handed a transaction by its caller. `RunScheduled` reads the whole database
with `VACUUM INTO` and then inserts one row, competing with requests for the
single write lock.

What is hard here:

* transactions are *deferred*: the snapshot is fixed by the first read and the
  write lock is taken by the first write, so what was checked may be out of
  date when it is used, and the transaction may then fail with `SQLITE_BUSY`;
* no busy timeout is set, so contention is an error and not a wait;
* an entry is several statements, each of which may fail, and the process may
  die between any two;
* pragmas are set on one connection of a pool that opens and closes others;
* snapshots carry wall-clock names, incomplete ones look like complete ones,
  and the outcome of a backup is recorded after the fact;
* a request holds a copy of its session from its beginning to its answer, and
  acts on a user row it read before;
* the server may die anywhere between opening its database and listening.

What makes each part correct:

* ledger: only balanced, categorised entries are ever committed, wholly or not
  at all; what is committed stays; a posting respects the lock in force at its
  *commit*; a reversal is the exact negation of its original; the answer tells
  the truth;
* audit log: one row for each committed entry and lock, by its actor;
* balances: all funds sum to zero, whatever the history;
* backup: what a recorded success promised can be restored, the directory stays
  bounded after each success, the row and the status answer tell the truth,
  every cycle ends;
* users, sessions: what is done is done for a user who was active in an admitted
  role since the request began; a token stays with the user of its login; a
  session ends with its lifetime, its idle timeout or its logout;
* start-up: a server that serves has the whole schema and an account, and
  only a migration cut short keeps it from starting.

`PROJECT.json` lists every hazard at its line with the properties that cover it.

## 2. Modules

| module | models | instantiated by |
|---|---|---|
| `LedgerData` | data and pure functions of `server/ledger` and the schema's CHECK and FOREIGN KEY clauses | all ledger modules |
| `AbstractLedger` | what the ledger promises: each operation atomic | `MCAbstractLedger` |
| `Ledger` | the operations as SQLite transactions of concurrent requests; `Abstract` is the refinement mapping | `MCLedger` |
| `Backup` | backup cycle, scheduler, status handler, restore, crashes, clock | its `.cfg` files directly |
| `Startup` | what `main` does to the database before it listens | `MCStartup_admin.cfg` |
| `Access` | users, sessions, login, logout and authorisation of concurrent requests; extends `Startup` | `MCAccess` |
| `LedgerDataProofs`, `BalanceProofs` | lemmas about lines, journals, audit logs; about totals and balances | both `*LedgerProofs` |
| `AbstractLedgerProofs`, `LedgerProofs`, `BackupProofs`, `AccessProofs` | theorems | |
| `MCPostings` | a chart, funds and postings for TLC | both `MC*Ledger` |

### LedgerData

A line is a record of account, fund, functional category, debit and credit.
`Total`, `Wrap` and `Balances` are `balances()`: the loop's sums are `int64`,
so the model wraps them to `IntWidth` bits. It does so once, to the exact total;
`BalanceProofs!WrappingOnceIsEnough` proves that the code's loop, which wraps at
every addition, ends with the same number.
`AcceptableAccounts` is the loop over `lookupAccountType`; `SatisfiesChecks` and
`ReferencesRows` are the clauses of migration 0003. A date is its rank in text
order, since the code compares dates as text. `Swapped` is what a reversal inserts.
`FundBalance` and `TrialBalance` are the two queries of `balances.go`.

### Ledger

State and code:

| variable | code |
|---|---|
| `db` | the committed tables: journal, locked-through date, audit log |
| `view[p]` | what transaction `p` sees: its WAL snapshot and its own writes |
| `pc[p]`, `req[p]` | the next statement, and the function's arguments and locals |
| `reply[p]` | what the function returned |
| `writer` | who holds SQLite's write lock |
| `pool`, `fk[p]` | idle connections and the one `p` holds: is `foreign_keys` ON on it? |

| action | code |
|---|---|
| `StartPost`, `RefusePost` | the call, with checks 1 and 2 (`posting.go:48-53`) |
| `StartReverse`, `StartLock` | the calls of `ReverseJournalEntry`, `LockPeriod` (`routes.go:71-92`; reversals have no route yet) |
| `Receive` | a request that its handler could decode (`routes.go:131-170`); its actor is the session's user |
| `Begin` | `db.Begin` (a connection, no snapshot) |
| `CheckLock` | `posting.go:66-72`, the statement that fixes the snapshot |
| `CheckAccounts` | `posting.go:74-82` (reads of tables that do not change: one step) |
| `ReadOriginal` | `reversal.go:31-49` (two reads under one snapshot: one step) |
| `InsertEntry`, `UpsertLock` | the first write, which takes the write lock |
| `Busy` | that write failing: lock taken, or snapshot outdated |
| `InsertLine` | one INSERT of the loop, or its CHECK or FOREIGN KEY failure |
| `WriteAudit`, `Commit` | `audit.Write`, `tx.Commit` |
| `Fail` | any statement failing for any other reason, with the deferred rollback |
| `Crash` | the process dies and starts again |

SQLite and `database/sql` are not in the repository; their behaviour is modelled
from how the code opens and uses them (marked external in `PROJECT.json`): a
deferred transaction reads the snapshot of its first statement; only a
transaction with the current snapshot may write; there is one writer; the pool
hands out the connection returned last, opens a new one when none is idle and
keeps two (`MaxIdle`).

### Backup

`files` maps the second in a file's name to its state: how much of the database
it holds (`"nothing"`, `"part"`, `"all"`), which version, and the cycle that
wrote it. `runs` is `backup_runs`; `number` and `covers` (the cycle, and the
version when it started) are history. `cycle` has the errors `snapErr` and `rotateErr` of
`RunScheduled`, from which the row is made, and as history what the cycle did:
`stored`, the snapshot was taken; `rotated`, every name that `Rotate` was to delete is
gone. `RowsAreTrue` compares the two. `phase` is the server's: the first cycle runs on the goroutine of
`main`, so it is over before the server listens (the comment at
`cmd/server/main.go:75-77` says that backups never block start-up).
`Boot`/`Tick` start a cycle; `OpenSnapshot`, `SpillPages`, `CloseSnapshot`,
`FailSnapshot` are `VACUUM INTO`, which refuses a file with contents and leaves an
empty, an incomplete or, if its time is over at the last page, a complete one when
interrupted;
`ListSnapshots`, `RemoveSnapshot` (one `os.Remove` each), `FailRotate` are
`Rotate`; `Record`, `FailRecord` the INSERT. `ReadLastRun`, `ReadLastSuccess`,
`CountSnapshots` are the three reads of one status answer. `BeginWrite`,
`EndWrite` stand for the ledger's transactions, of which a backup sees only the
write lock and the commit; `PassTime` moves the wall clock. `Restored` is what
`Restore` makes of a file: `integrity_check` refuses part of a database, but
an empty file passes it, as a database without tables.

### Startup

| action | code |
|---|---|
| `Boot` | `db.Open` (`main.go:43`) |
| `ReadVersion` | `RunMigrations` up to the check of the dirty flag |
| `MarkDirty`, `RunMigration`, `ClearDirty` | golang-migrate's three transactions per migration (external) |
| `FinishMigrations` | `Up` returns, `ErrNoChange` included |
| `CountUsers`, `InsertAdmin`, `PrintPassword` | `bootstrapFirstAdmin`, one statement each |
| `Listen` | the rest of `main` |
| `Die` | `log.Fatalf` on any error, and the death of the process, at any step |

`applied` is the set of migrations whose statements were committed; `shown` says
whether the first admin's password was printed.

### Access

| variable | code |
|---|---|
| `users` | the table, by id; passwords are not in it |
| `sessions` | the scs store's table, by token; `saved` is a history column |
| `req[p]` | the request on goroutine `p`: where it is, the route it was let through to, the user a login has checked, and the session data it holds in memory |
| `clock` | time, for the two timeouts of `session.go` |
| `logins`, `entitled`, `ended`, `quiet` | history: who logged in when; which roles a request's user has held since it began; what logouts deleted |

| action | code |
|---|---|
| `Load`, `Save`, `FailSave` | scs's `LoadAndSave` around the handler (`main.go:64`): the session is read first and, since there is an idle timeout, written again at the first write of the answer |
| `CheckPassword`, `LogIn` | `LoginHandler`: look-up and verification; `RenewToken` and `Put` |
| `LogOut` | `LogoutHandler`, `Destroy` |
| `Authenticate` | `RequireAuth` and `RequireRole`: one read of the user, kept in the context |
| `CreateUserHandler`, `UpdateRoleHandler`, `DeactivateUserHandler` | the handlers of `api/users.go`, one statement of `users.go` each |
| `Operate` | every other guarded route: it leaves users and sessions alone |
| `Reject` | every refusal and error, each of them an answer |
| `Cleanup`, `PassTime` | the store's goroutine, time |
| `Starting`, `Crash` | `Startup`: requests are lost, the tables stay |

A token is the number of its login: tokens are random and never repeat. A request may
carry the cookie of any login ever made, or none. The first and the last step
of a request are apart, and that is what the hard properties are about: `EffectsAreAuthorised` compares what a request does with the roles its
user has held since it began (the user row it acts on is an older one), and
`SessionsKeepTheirUser`, `QuietLogoutIsFinal` and `SessionsExpire` say what late
copies of a session cannot do.

## 3. Runs

All pass runs use the code as it is; operators whose comment starts with "Seeded
fault" are used by no specification and show, swapped in for the definition
they precede, that a property can fail.

| run | instance | checks |
|---|---|---|
| `race` | 3 interchangeable requests, 3 commits, 2 dates, faults and crashes | `TypeOK`, `TxInv`, `AuditIsSound`, `ImplementsAbstractLedger`, `CommittedIsKept`, `PostsRespectLock`, `RepliesAreTrue` |
| `statements` | 2 requests, 1 user, 11 postings, 2 commits, weak fairness | `JournalIsSound`, `ImplementsAbstractLedger`, `RequestsAreAnswered`, `WriteLockIsReleased` |
| `abstract` | 5 atomic operations, 2 users, 6 postings | `TypeOK`, `JournalIsSound`, `AuditIsSound`, `FundBalancesReconcile`, `ReversalRestoresBalances`, `ReversalsMoveBalancesBack` |
| `backup_rotation` | 3 cycles, 3 seconds, 2 commits, 1 retained, weak fairness of the cycle | `TypeOK`, `RecoveryPointKept`, `RecordedFilesRestore`, `StatusIsConsistent`, `RotationBoundsFiles`, `RotationKeepsNewest`, `RowsAreTrue`, `CyclesEnd`, `StartingEnds` |
| `access` | 2 interchangeable requests, 2 users, 2 logins, 2 migrations, lifetime 2, idle timeout 1 | `TypeOK`, `ServesWholeSchema`, `RefusesOnlyDirtySchema`, `SessionsKeepTheirUser`, `QuietLogoutIsFinal`, `EffectsAreAuthorised`, `SessionsExpire` |

Bounds, and why they are enough. A race needs a transaction that reads, one that
commits in between and at most one more that holds the lock: three processes.
Three commits are a posting, a lock and a reversal, or a posting and two competing
changes. Two dates are one inside a lock and one after it. The `statements`
instance has one posting for each outcome of each check of code and schema,
failing on a first, a middle or a last line. Five operations are a posting, its
reversal, the reversal of that, and two locks, the second earlier. Small
amounts suffice everywhere but in `wrap`. `MaxIdle` is 2, as `database/sql`
has it. Three backup cycles are one success, one cut short or failed, and one
that rotates both; `Retain = 1` is the value at which a rotation comes closest
to deleting the last good snapshot. In `access` two requests are the one that acts
and the one that changes what it relied on; two users are an admin and the one it
manages; two logins are a session and its renewal, or two sessions of one user;
a lifetime longer than the idle timeout lets each of the two be the one that
ends a session; two migrations are one done and one cut short. `"owner"`
is a role a request may ask for and no user may have. Bounds on counters
(`MaxCommits`, `MaxCycles`, `MaxClock`, `MaxUsers`, `MaxLogins`) stand in guards of the actions that would pass
them and nowhere else; `Room` keeps `MaxCommits` from stopping a request that has started.
Deadlock is checked in the runs of the ledger, of access and of the start-up. It
is not in the backup runs: a server that died may stay down.

Symmetry is used only in `race` and `access`, which have no liveness property.

Fairness. `Ledger!FairSpec` is weak fairness of each request's own steps: the Go
scheduler runs a goroutine that can run, and no statement waits, since a taken
lock is an immediate error. Clients, faults and crashes have none.
`Backup!FairSpec` is weak fairness of the cycle alone: the snapshot has a
timeout of 30 seconds and the INSERT does not wait; writers need not ever end. `StartingEnds` says that a first backup that fails does not
keep the server from serving; how long a slow one delays it is not modelled.
`Access` and `Startup` state no fairness: their properties are about what may not
happen.

### Where the code departs from what is said of it

Each of these runs checks one statement of a comment or test and finds it violated.

| run | statement | what happens |
|---|---|---|
| `closed_period` | every posting path, reversals included, goes through the period lock (`posting.go:32-35`) | a reversal takes its original's date and reads no lock |
| `funds` | foreign keys are enforced (`sqlite.go:16-18`, `journal_test.go:143`) | only on the one connection the pragma ran on; a second request at the same time stores a line of an unknown fund |
| `wrap` | debits sum to credits (`posting.go:39`) | the sums wrap |
| `backup_recorded` | a row is always recorded (`backup.go:89-91`) | the INSERT fails while a request holds the write lock |
| `backup_clock` | the file of a successful run exists (`backup_test.go:125-126`) | with the clock set back, rotation deletes the snapshot just taken |
| `logout` | a request after the logout is refused (`auth/session_test.go:277-278`, `02-01-PLAN.md:33`) | a request that had loaded the session before the logout saves it again with its answer |
| `startup_admin` | the first admin's password is printed exactly once (`main.go:97-99`) | a crash between INSERT and print: never |

What does hold beside them: `PostsRespectLock` (postings, as against reversals),
`RowsAreTrue` (the row that is written tells what its cycle did), `RotationKeepsNewest` (with a clock
that is not set back) and `QuietLogoutIsFinal` (a logout while no other
request holds the session).

## 4. Proofs

`tlapm` checks every theorem for all values of the constants: any number of
requests, users, accounts, postings and lines. Assumptions: those named in
`LedgerData` (dates are positive ranks, the chart's accounts and funds are
among those a request may name, postings are sequences of lines, 2^*w* is twice
2^(*w*-1), of which the provers know nothing) and `Ledger` (bounds are natural
numbers, `Nobody` is no request). TLC evaluates them in every run. What a theorem
assumes beyond them is named below.

* `AbstractLedgerProofs!LedgerIsSound`: types, `JournalIsSound` and
  `AuditIsSound` hold of the atomic operations. Their conjunction is inductive;
  the lemmas of `LedgerDataProofs` say what swapping does to totals and
  what appending does to the journal's and the log's properties.
* `LedgerProofs!TransactionsAreIsolated`: `TypeOK /\ TxInv`. `TxInv` is the
  inductive invariant. Type correctness is not enough: a commit publishes a
  private copy, so one must know what is in it. `TxInv` says what a transaction
  has established at each statement. Before its first write that is about its
  own snapshot, which nobody changes. The first write needs the snapshot to be the
  current database, so from there on it is about the committed database, which nobody
  else can change while this transaction holds the lock (`WrittenEntry`:
  the copy is the database plus one entry with the first *k* lines).
* `LedgerProofs!Refinement`: every step is one `AbstractLedger` operation
  (a commit) or leaves its variables alone, using `TxInv`.
* `CommittedForEver`, `LockIsRespected`, `AnswersAreTrue`: the action properties,
  from the same invariant.
* `JournalAndAuditAreSound`: the invariants of `AbstractLedger` carried over to
  the concurrent ledger by the refinement.
* Derived balances, from the lemmas of `BalanceProofs`: partial sums add up
  (`TotalOfSums`, `TotalOfAppended`), so a journal's lines split into those of one fund
  and those of the others (`JournalSplit`); lines that balance add nothing to the whole
  (`BalancedLinesAddNothing`); and whatever the
  order in which the fold over the funds takes them, it ends with the total over all
  lines (`SumIsUnique`), which is zero (`BalancedJournalReconciles`). The inductions, over
  a column and over the size of a set of funds, go through the least counterexample
  (`ClosedUnderNextIsNat`), because the library's induction theorems
  take an operator that the provers cannot instantiate.
  - `ReversalsRestoreBalances` (a reversal and its original cancel) and the action property
    `ReversalsTakeBalancesBack` (its commit takes back what the
    original had added) hold without conditions, overflow included.
  - `BalancesReconcileWhileTotalsFit`: the balances sum to zero as long as no entry of
    the journal has a total that wrapped. The condition is needed: with a wrapped
    total an unbalanced entry is accepted, which is what the run `wrap` shows.
    `BalancesReconcile` puts the condition on the submissions instead: if no posting's
    totals wrap, they reconcile for ever. `MCAbstractLedger!AmountsFit` has TLC check
    that premise for the postings of the run.
  - `LedgerProofs!ConcurrentBalancesReconcile` says both of the database
    concurrent requests commit to, and `EntriesBalanceWithinWidth` that without
    overflow every committed entry balances exactly, the statement `wrap` refutes.
* `AccessProofs`, for any number of requests, users, logins, migrations and
  restarts. The inductive invariant is built up one conjunct at a time. `StartInv`:
  golang-migrate's version is one ahead of what is applied while the schema is
  dirty and at no other time, and a user exists from the bootstrap on; it gives
  `ServesWholeSchema` and `RefusesOnlyDirtySchema`. `SessionInv`: each row *and each
  copy in a request's memory* has the user and the deadline of the login of its token,
  so a late save can change nothing but the expiry, which stays within both
  limits; it gives `SessionsKeepTheirUser` and `SessionsExpire`. `QuietInv`: no row
  and no copy is left of a token a quiet logout deleted. `AuthInv`: what
  is remembered of a request contains the roles its user has now until
  `RequireAuth` reads them, and one that was let through afterwards; it gives
  `EffectsAreAuthorised`.
* `BackupProofs`. `BackupIsTyped`, `RotationBoundsTheFiles` and `RowsDoTellTheTruth`
  hold without conditions. For the second, `BoundInv` says that without the names still to be removed, and so
  after a rotation that went through, the directory holds at most `Retain` files; that
  `Rotate` spares no more than that is `KeptAreFew`: all the names it spares but the
  oldest are newer than that one, and fewer than `Retain` names are.
  For the third, `Typed` says what errors and history are at each statement, and `OwnInv`
  that the cycle's file, while it is there, is its own and complete; that it is there
  comes from `SnapInv`, below, and is claimed only where that holds.
  The others assume `Retain > 0` and `~ ClockStepsBack`: without either, rotation deletes the
  snapshot just taken. `SnapInv`:
  names are in the order of the cycles that wrote them, none is later than the
  cycle under way, and that cycle's own snapshot is neither damaged nor
  doomed. `RunInv`: a recorded file is complete until it is deleted, its name is
  not used again then, and some file is always as good as it. `PollInv`: the
  success a status request has read is the last of the runs it has read. They give
  `RecoveryPointKept`, `RecordedFilesRestore`, `RotationKeepsNewest`
  and `StatusIsConsistent`, and `SuccessesHaveTheirFiles`: with these
  conditions the statement `backup_clock` refutes is true.

Only model-checked: liveness (`RequestsAreAnswered`, `WriteLockIsReleased`,
`CyclesEnd`, `StartingEnds`), which is out of the prover's reach. Every invariant and
action property of a passing run is also a theorem.

## 5. Not modelled

* Texts: memo, source, detail, the `posted_at` a reversal copies, error messages.
* Configuration parsing. A negative `LEDGER_BACKUP_RETAIN`, which `main` accepts, is
  not in the model (`Retain \in Nat`). The down migrations, which no code runs.
* Which user is managed: that an admin remains is promised nowhere, and an admin may
  demote the last one. User operations write no audit row, so there is nothing to
  relate to them. `must_change_password` is stored and never read.
* Cookie attributes, JSON decoding, status codes, the health check. argon2id password
  hashing is a pure function out of TLC's reach: a login succeeds for any active user
  but the first admin before its password was printed.
* Creation of accounts and funds: single INSERTs no route calls; the rows are
  constants of the ledger modules.
* Restoring over a destination with an old `-wal` file: the model restores to a fresh
  location, as the comment of `Restore` has it. Nothing in the server calls it.
* Power loss after `VACUUM INTO`, which does not sync its output: a crash is
  that of the process.
* Overflow of SQLite's `SUM`; date syntax (dates are ranks, one format is assumed).
* Writes to tables other than the ledger's, except as a reason for `Fail` and as
  the lock that `Backup` meets.

## 6. Plan

Done: `LedgerData`, `AbstractLedger`, `Ledger`, `Backup`, `Startup`, `Access`, and
the proofs of each.

1. `LedgerBackup`: `Ledger` composed with `Backup` and `Restored`: a restored
   database is a state the ledger was in, with balances that sum to zero; its
   theorem from those of the parts.
2. `ChartOfAccounts`: the account hierarchy and concurrent creation, once a route
   calls it.
3. `Ledger` under `Access`: the actor in an audit row is a user who was entitled
   when the request began.
