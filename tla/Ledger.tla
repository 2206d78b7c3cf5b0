------------------------------- MODULE Ledger -------------------------------
(***************************************************************************)
(* server/ledger over SQLite: journal postings, reversals and period locks *)
(* as the transactions of concurrent requests.                             *)
(*                                                                         *)
(* Each process is one request at a time. It takes a connection of the     *)
(* database/sql pool, and its transaction is a deferred one on a WAL       *)
(* database: the first statement fixes the snapshot it reads, the first    *)
(* write makes it the single writer or fails, and Commit publishes its     *)
(* private copy whole. A failed statement or a crash rolls it back.        *)
(***************************************************************************)
EXTENDS LedgerData

CONSTANTS
    Procs,       \* concurrent requests
    Nobody,      \* neither a process nor a user
    MaxIdle,     \* idle connections database/sql keeps (2 by default)
    MaxCommits   \* bound on the transactions ever committed

ASSUME ProcsAssumption == Nobody \notin Procs
ASSUME BoundsAssumption == MaxIdle \in Nat \ {0} /\ MaxCommits \in Nat

VARIABLES
    db,       \* the committed journal, locked-through date and audit log
    view,     \* per process: the database as its transaction sees it
    pc,       \* per process: the statement it is about to run
    req,      \* per process: the request it serves
    reply,    \* per process: the answer to its last request
    writer,   \* the process whose transaction holds the write lock
    pool,     \* idle connections: is foreign_keys ON on each? Last in, first out
    fk        \* per process: is foreign_keys ON on the connection it holds?

txVars == <<view, pc, req>>
poolVars == <<pool, fk>>
vars == <<db, view, pc, req, reply, writer, pool, fk>>

Database == [journal : Seq(Entry), locked : LockDates, audit : Seq(AuditRow)]
EmptyDB == [journal |-> << >>, locked |-> NoLock, audit |-> << >>]

NoRequest == [kind |-> "none"]
Request == [kind : {"post", "reverse", "lock"}, by : Users, date : LockDates,
            lines : Seq(Line), reverses : Nat]

NoReply == [status |-> "none", id |-> 0]
Reply == [status : {"none", "ok", "refused", "failed"}, id : Nat]

\* "begin" precedes db.Begin; "lock" and "accounts" are PostJournalEntry's
\* reads, "original" those of ReverseJournalEntry; "insert" and "upsert" the
\* first write; "lines", "audit" and "commit" what follows it.
Statements == {"idle", "begin", "lock", "accounts", "original", "insert",
               "upsert", "lines", "audit", "commit"}
AfterFirstWrite == {"lines", "audit", "commit"}

TypeOK ==
    /\ db \in Database
    /\ view \in [Procs -> Database]
    /\ pc \in [Procs -> Statements]
    /\ req \in [Procs -> Request \cup {NoRequest}]
    /\ reply \in [Procs -> Reply]
    /\ writer \in Procs \cup {Nobody}
    /\ pool \in Seq(BOOLEAN) /\ Len(pool) <= MaxIdle
    /\ fk \in [Procs -> BOOLEAN]

\* Open has run its pragmas on the one connection of the new pool.
Init ==
    /\ db = EmptyDB
    /\ view = [p \in Procs |-> EmptyDB]
    /\ pc = [p \in Procs |-> "idle"]
    /\ req = [p \in Procs |-> NoRequest]
    /\ reply = [p \in Procs |-> NoReply]
    /\ writer = Nobody
    /\ pool = <<TRUE>>
    /\ fk = [p \in Procs |-> FALSE]

-----------------------------------------------------------------------------
(* The connection pool and the end of a transaction. *)

HoldsConnection(p) == pc[p] \notin {"idle", "begin"}

\* database/sql hands out the connection returned last; with none idle it
\* opens a new one, on which no pragma has been run.
TakeConnection(p) ==
    IF pool = << >>
    THEN fk' = [fk EXCEPT ![p] = FALSE] /\ UNCHANGED pool
    ELSE fk' = [fk EXCEPT ![p] = Last(pool)] /\ pool' = Front(pool)

\* A connection beyond MaxIdle is closed.
ReturnConnection(p) ==
    /\ pool' = IF HoldsConnection(p) /\ Len(pool) < MaxIdle
               THEN Append(pool, fk[p]) ELSE pool
    /\ fk' = [fk EXCEPT ![p] = FALSE]

\* Seeded fault: an error path returns without rolling back.
ReleaseOnCommitOnly(p) == pc[p] = "commit" /\ writer = p

Releases(p) == writer = p

\* The transaction is over and the caller has its answer.
Finish(p, answer) ==
    /\ writer' = IF Releases(p) THEN Nobody ELSE writer
    /\ view' = [view EXCEPT ![p] = EmptyDB]
    /\ pc' = [pc EXCEPT ![p] = "idle"]
    /\ req' = [req EXCEPT ![p] = NoRequest]
    /\ reply' = [reply EXCEPT ![p] = answer]
    /\ ReturnConnection(p)

\* Seeded fault: statements run outside any transaction, so what they wrote
\* before the error stays.
RollbackNothing(p, status) ==
    /\ db' = IF writer = p THEN view[p] ELSE db
    /\ Finish(p, [status |-> status, id |-> 0])

\* The deferred tx.Rollback of every error path.
Rollback(p, status) ==
    /\ UNCHANGED db
    /\ Finish(p, [status |-> status, id |-> 0])

Goto(p, statement) == pc' = [pc EXCEPT ![p] = statement]

-----------------------------------------------------------------------------
(* Requests arrive. *)

\* Room for one more commit, whatever the requests under way do.
Room == Len(db.audit) + Cardinality({p \in Procs : pc[p] # "idle"}) < MaxCommits

Start(p, request) ==
    /\ pc[p] = "idle"
    /\ Room
    /\ req' = [req EXCEPT ![p] = request]
    /\ Goto(p, "begin")
    /\ reply' = [reply EXCEPT ![p] = NoReply]
    /\ UNCHANGED <<db, view, writer, poolVars>>

\* PostJournalEntry up to db.Begin: lines that are no entry are refused
\* before any transaction.
StartPost(p) ==
    \E user \in Users, date \in Dates, lines \in Postings :
        /\ WellFormed(lines)
        /\ Start(p, [kind |-> "post", by |-> user, date |-> date,
                     lines |-> lines, reverses |-> NoOriginal])

RefusePost(p) ==
    /\ pc[p] = "idle"
    /\ \E lines \in Postings : ~ WellFormed(lines)
    /\ reply' = [reply EXCEPT ![p] = [status |-> "refused", id |-> 0]]
    /\ UNCHANGED <<db, txVars, writer, poolVars>>

\* The caller of ReverseJournalEntry begins the transaction it passes; the
\* date and the lines are known once the original is read.
StartReverse(p) ==
    \E user \in Users, id \in 1 .. MaxCommits :
        Start(p, [kind |-> "reverse", by |-> user, date |-> NoLock,
                  lines |-> << >>, reverses |-> id])

\* lockPeriodHandler refuses an empty date; any other is locked through.
StartLock(p) ==
    \E user \in Users, date \in Dates :
        Start(p, [kind |-> "lock", by |-> user, date |-> date,
                  lines |-> << >>, reverses |-> NoOriginal])

\* db.Begin takes a connection; a deferred transaction has no snapshot yet.
Begin(p) ==
    /\ pc[p] = "begin"
    /\ TakeConnection(p)
    /\ Goto(p, CASE req[p].kind = "post"    -> "lock"
                 [] req[p].kind = "reverse" -> "original"
                 [] req[p].kind = "lock"    -> "upsert")
    /\ UNCHANGED <<db, view, req, reply, writer>>

-----------------------------------------------------------------------------
(* The reads before the first write. *)

\* The period-lock check: the first statement of the posting's transaction,
\* which fixes its snapshot.
CheckLock(p) ==
    /\ pc[p] = "lock"
    /\ \/ /\ ~ InLockedPeriod(req[p].date, db.locked)
          /\ view' = [view EXCEPT ![p] = db]
          /\ Goto(p, "accounts")
          /\ UNCHANGED <<db, req, reply, writer, poolVars>>
       \/ /\ InLockedPeriod(req[p].date, db.locked)
          /\ Rollback(p, "refused")

\* Every line's account is looked up; the accounts table does not change.
CheckAccounts(p) ==
    /\ pc[p] = "accounts"
    /\ \/ /\ AcceptableAccounts(req[p].lines)
          /\ Goto(p, "insert")
          /\ UNCHANGED <<db, view, req, reply, writer, poolVars>>
       \/ /\ ~ AcceptableAccounts(req[p].lines)
          /\ Rollback(p, "refused")

\* The original's date and lines, read under one snapshot.
ReadOriginal(p) ==
    /\ pc[p] = "original"
    /\ LET id == req[p].reverses
           found == id \in DOMAIN db.journal /\ db.journal[id].lines # << >>
       IN  \/ /\ found
              /\ view' = [view EXCEPT ![p] = db]
              /\ req' = [req EXCEPT ![p].date = db.journal[id].date,
                                    ![p].lines = Swapped(db.journal[id].lines)]
              /\ Goto(p, "insert")
              /\ UNCHANGED <<db, reply, writer, poolVars>>
           \/ /\ ~ found
              /\ Rollback(p, "refused")

-----------------------------------------------------------------------------
(* The writes. *)

\* No transaction has committed since p's snapshot was taken. Every commit
\* appends an audit row, so a later database differs from the snapshot.
Fresh(p) == view[p] = db

\* Seeded fault: the checks are made in one transaction and the entry is
\* inserted in the next.
InsertEntryAnew(p) ==
    /\ pc[p] = "insert"
    /\ writer = Nobody
    /\ writer' = p
    /\ view' = [view EXCEPT ![p] = [db EXCEPT !.journal =
                    Append(@, [date |-> req[p].date, lines |-> << >>,
                               reverses |-> req[p].reverses, by |-> req[p].by])]]
    /\ Goto(p, "lines")
    /\ UNCHANGED <<db, req, reply, poolVars>>

\* The INSERT of the entry, id and all, with no lines yet. Only the holder
\* of a current snapshot can become the writer.
InsertEntry(p) ==
    /\ pc[p] = "insert"
    /\ writer = Nobody /\ Fresh(p)
    /\ writer' = p
    /\ view' = [view EXCEPT ![p].journal =
                    Append(@, [date |-> req[p].date, lines |-> << >>,
                               reverses |-> req[p].reverses, by |-> req[p].by])]
    /\ Goto(p, "lines")
    /\ UNCHANGED <<db, req, reply, poolVars>>

\* The upsert of accounting_periods is the first statement of LockPeriod: it
\* takes the write lock and the snapshot together.
UpsertLock(p) ==
    /\ pc[p] = "upsert"
    /\ writer = Nobody
    /\ writer' = p
    /\ view' = [view EXCEPT ![p] = [db EXCEPT !.locked = req[p].date]]
    /\ Goto(p, "audit")
    /\ UNCHANGED <<db, req, reply, poolVars>>

\* SQLITE_BUSY: the lock is another's. SQLITE_BUSY_SNAPSHOT: the snapshot
\* this transaction reads is no longer the current database.
MustFail(p) == writer # Nobody \/ (pc[p] = "insert" /\ ~ Fresh(p))

\* Seeded fault: an outdated snapshot is tried again, not given up.
BusyIfTaken(p) ==
    /\ pc[p] \in {"insert", "upsert"}
    /\ writer # Nobody
    /\ Rollback(p, "failed")

\* The first write fails at once: the error path rolls back.
Busy(p) ==
    /\ pc[p] \in {"insert", "upsert"}
    /\ MustFail(p)
    /\ Rollback(p, "failed")

\* The entry a transaction is writing, and the line it inserts next.
Pending(p) == Last(view[p].journal)
NextLine(p) == Len(Pending(p).lines) + 1

\* The stored entry with one more line.
WithLine(journal, line) ==
    LET entry == Last(journal)
    IN  Append(Front(journal), [entry EXCEPT !.lines = Append(entry.lines, line)])

\* Seeded fault: the loop over the lines stops one short.
LastLineEarly(p) == NextLine(p) + 1 >= Len(req[p].lines)

LastLine(p) == NextLine(p) = Len(req[p].lines)

\* Foreign keys are enforced only on a connection that has the pragma.
Storable(p, line) == SatisfiesChecks(line) /\ (fk[p] => ReferencesRows(line))

\* One INSERT of the loop over the lines.
InsertLine(p) ==
    /\ pc[p] = "lines"
    /\ LET line == req[p].lines[NextLine(p)]
       IN  \/ /\ Storable(p, line)
              /\ view' = [view EXCEPT ![p].journal = WithLine(@, line)]
              /\ Goto(p, IF LastLine(p) THEN "audit" ELSE "lines")
              /\ UNCHANGED <<db, req, reply, writer, poolVars>>
           \/ /\ ~ Storable(p, line)
              /\ Rollback(p, "refused")

\* Seeded fault: the row of an entry names the user but not the entry.
RowOfFirstEntry(p) ==
    IF req[p].kind = "lock" THEN LockAuditRow(req[p].by, req[p].date)
    ELSE EntryAuditRow(Pending(p), 1)

\* The audit row of the request.
RowOf(p) ==
    IF req[p].kind = "lock" THEN LockAuditRow(req[p].by, req[p].date)
    ELSE EntryAuditRow(Pending(p), Len(view[p].journal))

\* Seeded fault: a row of the same entity is replaced.
WriteAuditReplacing(p) ==
    /\ pc[p] = "audit"
    /\ LET old(row) == row.id = RowOf(p).id /\ (IsLockRow(row) <=> IsLockRow(RowOf(p)))
       IN  view' = [view EXCEPT ![p].audit =
                       Append(SelectSeq(@, LAMBDA row : ~ old(row)), RowOf(p))]
    /\ Goto(p, "commit")
    /\ UNCHANGED <<db, req, reply, writer, poolVars>>

\* audit.Write, in the request's own transaction.
WriteAudit(p) ==
    /\ pc[p] = "audit"
    /\ view' = [view EXCEPT ![p].audit = Append(@, RowOf(p))]
    /\ Goto(p, "commit")
    /\ UNCHANGED <<db, req, reply, writer, poolVars>>

\* Seeded fault: the caller is told the id before the one it was given.
PreviousId(p) == Len(view[p].journal) - 1

\* What the caller is told: the id of the new entry, or nothing for a lock.
AnswerId(p) == Len(view[p].journal)

Commit(p) ==
    /\ pc[p] = "commit"
    /\ db' = view[p]
    /\ Finish(p, [status |-> "ok",
                  id |-> IF req[p].kind = "lock" THEN 0 ELSE AnswerId(p)])

-----------------------------------------------------------------------------
(* Faults, and the next-state relation. *)

\* Any statement may fail with an I/O error, an interrupted context or the
\* lock held by a writer of another table (sessions, users, backup_runs).
Fail(p) ==
    /\ pc[p] # "idle"
    /\ Rollback(p, "failed")

\* The server dies and starts again: every transaction is rolled back, the
\* callers get no answer, and Open prepares one connection.
Crash ==
    /\ view' = [p \in Procs |-> EmptyDB]
    /\ pc' = [p \in Procs |-> "idle"]
    /\ req' = [p \in Procs |-> NoRequest]
    /\ reply' = [p \in Procs |-> NoReply]
    /\ writer' = Nobody
    /\ pool' = <<TRUE>>
    /\ fk' = [p \in Procs |-> FALSE]
    /\ UNCHANGED db

\* What the handlers pass on: a body they could decode, with the user of the
\* session as the actor.
Receive(p) == StartPost(p) \/ RefusePost(p) \/ StartReverse(p) \/ StartLock(p)

\* The steps that carry a request to its answer.
Step(p) ==
    \/ Begin(p) \/ CheckLock(p) \/ CheckAccounts(p) \/ ReadOriginal(p)
    \/ InsertEntry(p) \/ UpsertLock(p) \/ Busy(p)
    \/ InsertLine(p) \/ WriteAudit(p) \/ Commit(p)

Next ==
    \/ \E p \in Procs : Receive(p) \/ Step(p) \/ Fail(p)
    \/ Crash

Spec == Init /\ [][Next]_vars

\* A goroutine that can run goes on; clients, faults and crashes owe nothing.
Fairness == \A p \in Procs : WF_vars(Step(p))
FairSpec == Spec /\ Fairness

-----------------------------------------------------------------------------
(* What each transaction has established: the inductive invariant.         *)

\* The entry p writes, once it has inserted the given lines.
EntryOf(p, lines) ==
    [date |-> req[p].date, lines |-> lines,
     reverses |-> req[p].reverses, by |-> req[p].by]

\* The reads of p, made on the database base, let its entry be written.
Admitted(p, base) ==
    /\ req[p].lines # << >>
    /\ \/ /\ req[p].kind = "post"
          /\ ~ InLockedPeriod(req[p].date, base.locked)
       \/ /\ req[p].kind = "reverse"
          /\ req[p].reverses \in DOMAIN base.journal
          /\ req[p].date = base.journal[req[p].reverses].date
          /\ req[p].lines = Swapped(base.journal[req[p].reverses].lines)

\* ... and so do its lines' accounts; a reversal takes them on trust.
Cleared(p, base) ==
    /\ Admitted(p, base)
    /\ req[p].kind = "post" => AcceptableAccounts(req[p].lines)

\* The private copy of an entry's transaction is the committed database and
\* the part of the entry written so far; its checks still hold of that
\* database, because nobody else can commit.
WrittenEntry(p) ==
    /\ Cleared(p, db)
    /\ view[p].locked = db.locked
    /\ \E k \in 0 .. Len(req[p].lines) :
         /\ view[p].journal =
               Append(db.journal, EntryOf(p, SubSeq(req[p].lines, 1, k)))
         /\ \A i \in 1 .. k : SatisfiesChecks(req[p].lines[i])
         /\ pc[p] = "lines" <=> k < Len(req[p].lines)
    /\ view[p].audit =
         IF pc[p] = "commit"
         THEN Append(db.audit, EntryAuditRow(EntryOf(p, req[p].lines),
                                             Len(db.journal) + 1))
         ELSE db.audit

\* The same of a period lock.
WrittenLock(p) ==
    /\ pc[p] # "lines"
    /\ view[p].journal = db.journal
    /\ view[p].locked = req[p].date
    /\ view[p].audit =
         IF pc[p] = "commit"
         THEN Append(db.audit, LockAuditRow(req[p].by, req[p].date))
         ELSE db.audit

\* What holds of a request at the statement it has reached.
StatementInv(p) ==
    /\ pc[p] = "idle" <=> req[p] = NoRequest
    /\ req[p] # NoRequest /\ req[p].kind = "post" =>
          /\ req[p].date \in Dates /\ req[p].lines \in Postings
          /\ req[p].reverses = NoOriginal /\ WellFormed(req[p].lines)
    /\ req[p] # NoRequest /\ req[p].kind = "reverse" => req[p].reverses # NoOriginal
    /\ req[p] # NoRequest /\ req[p].kind = "lock" => req[p].date \in Dates
    /\ pc[p] \in {"lock", "accounts"} => req[p].kind = "post"
    /\ pc[p] = "original" => req[p].kind = "reverse"
    /\ pc[p] = "upsert" => req[p].kind = "lock"
    /\ pc[p] = "accounts" => Admitted(p, view[p])
    /\ pc[p] = "insert" => Cleared(p, view[p])
    /\ pc[p] \in AfterFirstWrite =>
          IF req[p].kind = "lock" THEN WrittenLock(p) ELSE WrittenEntry(p)

\* One writer at most, from its first write to its end, and what every
\* request has established holds of the database it is about to commit to.
\* Strengthens TypeOK to what a step needs to keep the ledger's promises.
TxInv ==
    \A p \in Procs :
        /\ writer = p <=> pc[p] \in AfterFirstWrite
        /\ StatementInv(p)

-----------------------------------------------------------------------------
(* Properties. *)

\* The concurrent, failing transactions implement atomic operations: every
\* commit is one PostJournalEntry, ReverseJournalEntry or LockPeriod of
\* AbstractLedger, with its checks true at the moment of the commit.
Abstract == INSTANCE AbstractLedger
                WITH journal <- db.journal, locked <- db.locked, audit <- db.audit
ImplementsAbstractLedger == Abstract!Spec

\* Every committed entry balances, its expense lines have categories and a
\* reversal negates an earlier entry, whatever interleaved or failed.
JournalIsSound == JournalSound(db.journal)

\* Each committed entry has its one audit row, and the lock in force is the
\* audited one, across rollbacks, lost races and crashes (audit.go:1-5).
AuditIsSound == AuditSound(db.audit, db.journal, db.locked)

\* No step takes back or alters what was committed: no lost update between
\* two transactions that read the same snapshot.
CommittedIsKept ==
    [][/\ IsPrefix(db.journal, db'.journal)
       /\ IsPrefix(db.audit, db'.audit)]_vars

\* An entry posted while a lock is being set is never committed into the
\* locked period, though the posting read the lock earlier
\* (posting.go:44-46, 132-134).
PostsRespectLock ==
    [][\A n \in DOMAIN db'.journal \ DOMAIN db.journal :
          \/ IsReversal(db'.journal[n])
          \/ db'.journal[n].date > db.locked]_vars

\* The database changes only with an "ok" to the request that changed it, and
\* the id it is told is that of an entry with exactly what it asked for: a
\* refused or failed request leaves nothing (posting.go:44-46).
RepliesAreTrue ==
    [][db' # db =>
         \E p \in Procs :
            /\ reply'[p].status = "ok" /\ req[p] # NoRequest
            /\ Len(db'.audit) = Len(db.audit) + 1
            /\ IF req[p].kind = "lock"
               THEN db'.journal = db.journal /\ db'.locked = req[p].date
               ELSE /\ db'.locked = db.locked
                    /\ Len(db'.journal) = Len(db.journal) + 1
                    /\ reply'[p].id \in DOMAIN db'.journal
                    /\ db'.journal[reply'[p].id] = EntryOf(p, req[p].lines)]_vars

\* Every request is answered unless the server dies: none waits for ever for
\* the write lock or on an outdated snapshot.
RequestsAreAnswered ==
    \A p \in Procs : pc[p] # "idle" ~> pc[p] = "idle"

\* No transaction keeps the write lock: no path returns without a rollback.
WriteLockIsReleased == writer # Nobody ~> writer = Nobody

-----------------------------------------------------------------------------
(* What the documentation says and the code does not do. *)

\* No entry at all enters a locked period (period.go:11-12, posting.go:31-35).
\* A reversal takes its original's date and looks at no lock.
ClosedPeriodIsFrozen ==
    [][\A n \in DOMAIN db'.journal \ DOMAIN db.journal :
          db'.journal[n].date > db.locked]_vars

\* Every line names an existing fund (sqlite.go:16-18, journal_test.go:136).
\* Only a connection on which the pragma ran enforces it.
LinesReferenceFunds ==
    \A n \in DOMAIN db.journal : \A i \in DOMAIN db.journal[n].lines :
        db.journal[n].lines[i].fund \in Funds

\* Debits equal credits as numbers (posting.go:38-39). The sums are machine
\* integers that wrap.
EntriesBalanceExactly ==
    \A n \in DOMAIN db.journal : BalancesExactly(db.journal[n].lines)
=============================================================================
