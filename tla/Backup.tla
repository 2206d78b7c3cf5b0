------------------------------- MODULE Backup -------------------------------
(***************************************************************************)
(* server/backup and its scheduler: one cycle at a time writes a snapshot, *)
(* rotates the old ones out and records the outcome, while requests commit *)
(* to the same database, an admin polls the status, and the server may die *)
(* at any statement.                                                       *)
(***************************************************************************)
EXTENDS Integers, SequencesExt

CONSTANTS
    Retain,         \* LEDGER_BACKUP_RETAIN, not negative
    ClockStepsBack, \* may the machine's clock be set back?
    MaxClock,       \* bound on the clock
    MaxCycles,      \* bound on the backup cycles ever started
    MaxCommits      \* bound on the ledger transactions ever committed

ASSUME RetainAssumption == Retain \in Nat
ASSUME ClockAssumption == ClockStepsBack \in BOOLEAN
ASSUME BoundsAssumption ==
    MaxClock \in Nat \ {0} /\ MaxCycles \in Nat /\ MaxCommits \in Nat

VARIABLES
    clock,     \* the wall clock, in the seconds of a snapshot's name
    commits,   \* transactions committed so far: the version of the database
    writing,   \* does a request's transaction hold the write lock?
    files,     \* the snapshot files of the backup directory, by their time
    runs,      \* the rows of backup_runs, in id order
    phase,     \* of the server: down, starting (before it listens), serving
    pc,        \* what the backup cycle does next
    cycle,     \* the locals of RunScheduled and Rotate, and what they did
    poll       \* the status request being answered

dbVars == <<commits, writing>>
vars == <<clock, commits, writing, files, runs, phase, pc, cycle, poll>>

Times == 1 .. MaxClock
Versions == 0 .. MaxCommits

\* A file has all of the database of one version once VACUUM INTO has
\* returned, and nothing or part of it before. cycle is the number of the run
\* that wrote it.
File == [content : {"nothing", "part", "all"}, version : Versions,
         cycle : 1 .. MaxCycles]

\* number and covers, the cycle and the version when it started, are no
\* columns of the table.
Run == [number : 1 .. MaxCycles, started : Times, covers : Versions,
        status : {"success", "failed"}, path : BOOLEAN, sized : BOOLEAN]

NoPoll == [at |-> "last", last |-> 0, success |-> 0, count |-> 0]

TypeOK ==
    /\ clock \in Times
    /\ commits \in Versions
    /\ writing \in BOOLEAN
    /\ DOMAIN files \subseteq Times /\ \A t \in DOMAIN files : files[t] \in File
    /\ runs \in Seq(Run)
    /\ phase \in {"down", "starting", "serving"}
    /\ pc \in {"idle", "snapshot", "vacuum", "rotate", "remove", "record"}
    /\ cycle \in [number : 0 .. MaxCycles, started : Times, covers : Versions,
                  doomed : SUBSET Times, snapErr : BOOLEAN, rotateErr : BOOLEAN,
                  stored : BOOLEAN, rotated : BOOLEAN]
    /\ poll \in [at : {"last", "success", "count", "answered"}, last : Nat,
                 success : Nat, count : Nat]

\* snapErr and rotateErr are RunScheduled's: was there such an error? stored
\* and rotated are history: did VACUUM INTO return, are all names deleted that
\* Rotate was to delete? No guard reads them.
NewCycle(number, started, covers) ==
    [number |-> number, started |-> started, covers |-> covers, doomed |-> {},
     snapErr |-> FALSE, rotateErr |-> FALSE, stored |-> FALSE, rotated |-> FALSE]

Init ==
    /\ clock = 1
    /\ commits = 0
    /\ writing = FALSE
    /\ files = << >>
    /\ runs = << >>
    /\ phase = "down"
    /\ pc = "idle"
    /\ cycle = NewCycle(0, 1, 0)
    /\ poll = NoPoll

-----------------------------------------------------------------------------
(* The scheduler: a cycle before the server listens, then one per tick.    *)

StartCycle ==
    /\ pc = "idle"
    /\ cycle.number < MaxCycles
    /\ pc' = "snapshot"
    /\ cycle' = NewCycle(cycle.number + 1, clock, commits)
    /\ UNCHANGED <<clock, dbVars, files, runs, poll>>

Boot == phase = "down" /\ StartCycle /\ phase' = "starting"

Tick == phase = "serving" /\ StartCycle /\ UNCHANGED phase

\* Seeded fault: the server listens only after a first backup that worked.
EndCycleIfStored ==
    /\ pc' = "idle"
    /\ phase' = IF cycle.snapErr THEN phase ELSE "serving"

\* The scheduler logs an error of the cycle and goes on; after the first
\* cycle the server listens.
EndCycle == pc' = "idle" /\ phase' = "serving"

-----------------------------------------------------------------------------
(* Snapshot. *)

WithFile(time, content, version) ==
    [t \in DOMAIN files \cup {time} |->
        IF t = time
        THEN [content |-> content, version |-> version, cycle |-> cycle.number]
        ELSE files[t]]

\* Seeded fault: a file of the same second is overwritten.
OpenSnapshotAnyway ==
    /\ pc = "snapshot"
    /\ files' = WithFile(cycle.started, "nothing", commits)
    /\ pc' = "vacuum"
    /\ UNCHANGED <<clock, dbVars, runs, phase, cycle, poll>>

\* VACUUM INTO takes its read snapshot, which no writer blocks, and opens
\* its output: a new file, or one that a crash left without contents.
OpenSnapshot ==
    /\ pc = "snapshot"
    /\ cycle.started \in DOMAIN files => files[cycle.started].content = "nothing"
    /\ files' = WithFile(cycle.started, "nothing", commits)
    /\ pc' = "vacuum"
    /\ UNCHANGED <<clock, dbVars, runs, phase, cycle, poll>>

\* Pages that do not fit the cache are written before the end.
SpillPages ==
    /\ pc = "vacuum" /\ files[cycle.started].content = "nothing"
    /\ files' = WithFile(cycle.started, "part", files[cycle.started].version)
    /\ UNCHANGED <<clock, dbVars, runs, phase, pc, cycle, poll>>

\* The last page is written.
CompleteFile == files' = WithFile(cycle.started, "all", files[cycle.started].version)

CloseSnapshot ==
    /\ pc = "vacuum"
    /\ CompleteFile
    /\ cycle' = [cycle EXCEPT !.stored = TRUE]
    /\ pc' = "rotate"
    /\ UNCHANGED <<clock, dbVars, runs, phase, poll>>

\* No directory, a file of that name, an I/O error, 30 seconds gone by:
\* what was written so far stays, the whole of it if the time is over when the
\* last page has been written, and nothing is rotated.
FailSnapshot ==
    /\ pc \in {"snapshot", "vacuum"}
    /\ UNCHANGED files \/ (pc = "vacuum" /\ CompleteFile)
    /\ cycle' = [cycle EXCEPT !.snapErr = TRUE]
    /\ pc' = "record"
    /\ UNCHANGED <<clock, dbVars, runs, phase, poll>>

-----------------------------------------------------------------------------
(* Rotate. *)

\* Seeded fault: the names are sorted the other way round.
ExcessNewest(names) ==
    {n \in names : Cardinality({m \in names : m < n}) >= Retain}

\* Seeded fault: one snapshot fewer is kept than asked for.
ExcessOneMore(names) ==
    {n \in names : Cardinality({m \in names : m > n}) >= Retain - 1}

\* The names Rotate deletes: all but the Retain last in sort order. It looks
\* at the names alone, so a file left incomplete counts as a snapshot.
Excess(names) == {n \in names : Cardinality({m \in names : m > n}) >= Retain}

\* Seeded fault: one old snapshot is removed in each cycle, not all of them.
AfterRemovingOne(doomed) ==
    IF doomed = {} \/ pc = "remove" THEN "record" ELSE "remove"

\* The loop over the names to delete.
AfterRemoving(doomed) == IF doomed = {} THEN "record" ELSE "remove"

ListSnapshots ==
    /\ pc = "rotate"
    /\ LET doomed == Excess(DOMAIN files)
       IN  /\ cycle' = [cycle EXCEPT !.doomed = doomed, !.rotated = (doomed = {})]
           /\ pc' = AfterRemoving(doomed)
    /\ UNCHANGED <<clock, dbVars, files, runs, phase, poll>>

\* One os.Remove of the loop, oldest name first.
RemoveSnapshot ==
    /\ pc = "remove"
    /\ \E name \in cycle.doomed :
          /\ \A other \in cycle.doomed : name <= other
          /\ files' = Restrict(files, DOMAIN files \ {name})
          /\ LET doomed == cycle.doomed \ {name}
             IN  /\ cycle' = [cycle EXCEPT !.doomed = doomed,
                                           !.rotated = (doomed = {})]
                 /\ pc' = AfterRemoving(doomed)
    /\ UNCHANGED <<clock, dbVars, runs, phase, poll>>

\* The directory cannot be read or a file not removed: the rest stays.
FailRotate ==
    /\ pc \in {"rotate", "remove"}
    /\ cycle' = [cycle EXCEPT !.rotateErr = TRUE, !.doomed = {}]
    /\ pc' = "record"
    /\ UNCHANGED <<clock, dbVars, files, runs, phase, poll>>

-----------------------------------------------------------------------------
(* Restore, which a person calls: a copy of a file, opened and checked.    *)

NoDatabase == -2     \* Restore returns an error
EmptyDatabase == -1  \* a database without tables

\* PRAGMA integrity_check answers "ok" of a file without a single page too.
IntegrityOk(file) == file.content # "part"

\* The version of the database that restoring a file gives.
Restored(file) ==
    IF ~ IntegrityOk(file) THEN NoDatabase
    ELSE IF file.content = "nothing" THEN EmptyDatabase
    ELSE file.version

-----------------------------------------------------------------------------
(* The row of the cycle in backup_runs. *)

\* Seeded fault: the error of the rotation is dropped.
StatusOfSnapshot == IF cycle.snapErr THEN "failed" ELSE "success"

\* Seeded fault: a status that no query and no client knows.
StatusUnheardOf == IF cycle.snapErr \/ cycle.rotateErr THEN "error" ELSE "success"

Status == IF cycle.snapErr \/ cycle.rotateErr THEN "failed" ELSE "success"

\* path is set unless the snapshot failed, whatever became of it since;
\* the size is left NULL if the file cannot be found.
Row == [number |-> cycle.number, started |-> cycle.started, covers |-> cycle.covers,
        status |-> Status, path |-> ~ cycle.snapErr,
        sized |-> Status = "success" /\ cycle.started \in DOMAIN files]

\* The INSERT is a transaction of its own and needs the write lock.
Record ==
    /\ pc = "record"
    /\ ~ writing
    /\ runs' = Append(runs, Row)
    /\ EndCycle
    /\ UNCHANGED <<clock, dbVars, files, cycle, poll>>

\* Seeded fault: the INSERT waits for the lock as long as it takes.
FailRecordUnlessLocked ==
    /\ pc = "record"
    /\ ~ writing
    /\ EndCycle
    /\ UNCHANGED <<clock, dbVars, files, runs, cycle, poll>>

\* SQLITE_BUSY at once while a request writes, an I/O error at any time:
\* the caller gets the error and logs it, and no row is written.
FailRecord ==
    /\ pc = "record"
    /\ EndCycle
    /\ UNCHANGED <<clock, dbVars, files, runs, cycle, poll>>

-----------------------------------------------------------------------------
(* BackupStatusHandler: two queries and a directory listing, each on its   *)
(* own, with cycles going on in between. An error ends the request.        *)

\* Seeded fault: the successes are sorted the other way round.
FirstSuccess ==
    LET successes == {i \in DOMAIN runs : runs[i].status = "success"}
    IN  IF successes = {} THEN 0 ELSE Min(successes)

\* The id of the last successful run; 0 when there is none.
LastSuccess ==
    LET successes == {i \in DOMAIN runs : runs[i].status = "success"}
    IN  IF successes = {} THEN 0 ELSE Max(successes)

ReadLastRun ==
    /\ phase = "serving" /\ poll.at = "last"
    /\ poll' = [NoPoll EXCEPT !.at = "success", !.last = Len(runs)]
    /\ UNCHANGED <<clock, dbVars, files, runs, phase, pc, cycle>>

ReadLastSuccess ==
    /\ phase = "serving" /\ poll.at = "success"
    /\ poll' = [poll EXCEPT !.at = "count", !.success = LastSuccess]
    /\ UNCHANGED <<clock, dbVars, files, runs, phase, pc, cycle>>

CountSnapshots ==
    /\ phase = "serving" /\ poll.at = "count"
    /\ poll' = [poll EXCEPT !.at = "answered", !.count = Cardinality(DOMAIN files)]
    /\ UNCHANGED <<clock, dbVars, files, runs, phase, pc, cycle>>

EndPoll ==
    /\ poll.at # "last"
    /\ poll' = NoPoll
    /\ UNCHANGED <<clock, dbVars, files, runs, phase, pc, cycle>>

-----------------------------------------------------------------------------
(* The ledger's writers, the clock, and crashes. *)

BeginWrite ==
    /\ phase = "serving" /\ ~ writing /\ commits < MaxCommits
    /\ writing' = TRUE
    /\ UNCHANGED <<clock, commits, files, runs, phase, pc, cycle, poll>>

EndWrite ==
    /\ writing
    /\ writing' = FALSE
    /\ commits' \in {commits, commits + 1}
    /\ UNCHANGED <<clock, files, runs, phase, pc, cycle, poll>>

PassTime ==
    /\ clock' \in IF ClockStepsBack THEN Times \ {clock} ELSE Times \cap {clock + 1}
    /\ UNCHANGED <<dbVars, files, runs, phase, pc, cycle, poll>>

\* The process dies; the directory stays as it is.
Crash ==
    /\ phase # "down"
    /\ phase' = "down"
    /\ pc' = "idle"
    /\ writing' = FALSE
    /\ poll' = NoPoll
    /\ UNCHANGED <<clock, commits, files, runs, cycle>>

Cycle ==
    \/ OpenSnapshot \/ SpillPages \/ CloseSnapshot \/ FailSnapshot
    \/ ListSnapshots \/ RemoveSnapshot \/ FailRotate
    \/ Record \/ FailRecord

Poll == ReadLastRun \/ ReadLastSuccess \/ CountSnapshots \/ EndPoll

Next ==
    \/ Boot \/ Tick \/ Cycle \/ Poll
    \/ BeginWrite \/ EndWrite \/ PassTime \/ Crash

Spec == Init /\ [][Next]_vars

\* A cycle under way goes on: VACUUM INTO ends within its 30 seconds, the
\* INSERT does not wait for the lock. Nothing else is owed.
FairSpec == Spec /\ WF_vars(Cycle)

-----------------------------------------------------------------------------
(* Properties. *)

Successes == {i \in DOMAIN runs : runs[i].status = "success"}

\* Whatever crashed, failed or was rotated out since, what a run recorded as a
\* success promised can be restored: some snapshot passes Restore and has
\* every transaction committed when that run started (02-04-PLAN.md:25-26).
RecoveryPointKept ==
    \A i \in Successes :
        \E t \in DOMAIN files : Restored(files[t]) >= runs[i].covers

\* The file that a successful run's row names is, as long as it exists, the
\* snapshot that run took: no later cycle, failed or cut short in the same
\* second, has damaged or replaced it.
RecordedFilesRestore ==
    \A i \in Successes :
        runs[i].started \in DOMAIN files =>
            /\ Restored(files[runs[i].started]) >= runs[i].covers
            /\ files[runs[i].started].cycle = runs[i].number

\* Rotation deletes no snapshot while it keeps an older one, crashes and failed
\* cycles included, as long as the clock is not set back (backup.go:47-50).
RotationKeepsNewest ==
    [][\A gone \in DOMAIN files \ DOMAIN files', kept \in DOMAIN files' :
          files[gone].cycle < files[kept].cycle]_vars

\* A run recorded as a success leaves no more files than are to be kept,
\* those of failed and interrupted runs before it included.
RotationBoundsFiles ==
    [][Len(runs') > Len(runs) /\ Last(runs').status = "success"
          => Cardinality(DOMAIN files') <= Retain]_vars

\* A new row tells what its cycle did: it is "success" if and only if every
\* name that Rotate was to delete is gone, it has a path if and only if the
\* snapshot was taken, and so it is "failed" with a path if and only if the
\* rotation was not completed (backup.go:96-127). The file at that path is the
\* complete snapshot of this cycle, and is missing only when none is retained or
\* the clock was set back.
RowsAreTrue ==
    [][Len(runs') > Len(runs) =>
          LET row == Last(runs')
          IN  /\ row.status = "success" <=> cycle.rotated
              /\ row.path <=> cycle.stored
              /\ row.status = "failed" /\ row.path <=> cycle.stored /\ ~ cycle.rotated
              /\ row.path =>
                    IF row.started \in DOMAIN files
                    THEN /\ files[row.started].content = "all"
                         /\ files[row.started].cycle = row.number
                    ELSE Retain = 0 \/ ClockStepsBack]_vars

\* The three reads of one status answer may straddle cycles, but the answer
\* never shows a success without its time, never an older success than one
\* before the last run it shows, and never a success with nothing retained.
StatusIsConsistent ==
    poll.at = "answered" =>
        /\ \A i \in Successes : i <= poll.last => i <= poll.success
        /\ poll.success # 0 => poll.success \in Successes /\ poll.count > 0

\* A cycle always comes to its end, whatever fails and whoever writes.
CyclesEnd == pc # "idle" ~> pc = "idle"

\* A first backup that fails does not keep the server from serving.
StartingEnds == phase = "starting" ~> phase # "starting"

-----------------------------------------------------------------------------
(* What the documentation says and the code does not do. *)

\* A cycle always records a row (backup.go:89-91), also when requests write to
\* the database at that moment. The INSERT fails while one holds the lock.
EveryCycleIsRecorded ==
    [][writing /\ pc = "record" /\ pc' = "idle" /\ phase' # "down"
          => Len(runs') = Len(runs) + 1]_vars

\* The file of a successful run exists when the row is written
\* (backup_test.go:125). Rotation sorts by the clock: once it was set back,
\* the file just written counts as the oldest.
SuccessHasFile ==
    [][Len(runs') > Len(runs) /\ Last(runs').status = "success"
          => Last(runs').started \in DOMAIN files]_vars
=============================================================================
