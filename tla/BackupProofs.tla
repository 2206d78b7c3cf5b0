---------------------------- MODULE BackupProofs ----------------------------
(***************************************************************************)
(* Safety of Backup for any number of cycles, crashes and failures. What   *)
(* recovery and rotation promise is proved for a server that keeps at      *)
(* least one snapshot and whose clock is not set back; both are needed.    *)
(***************************************************************************)
EXTENDS Backup, FiniteSetTheorems, WellFoundedInduction, TLAPS

USE RetainAssumption, ClockAssumption, BoundsAssumption

-----------------------------------------------------------------------------
(* Sets of names and of row numbers. *)

\* A bounded set of numbers that is not empty has a maximum, and Max finds it.
LEMMA MaxOfSet ==
    ASSUME NEW S \in SUBSET Nat, S # {}, NEW n \in Nat, \A s \in S : s <= n
    PROVE  Max(S) \in S /\ \A s \in S : s <= Max(S)
<1>. DEFINE T == {n - s : s \in S}
            R == {ss \in Nat \X Nat : ss[1] < ss[2]}
<1>1. IsWellFoundedOn(R, Nat)
  BY NatLessThanWellFounded DEF OpToRel
<1>2. T \subseteq Nat /\ T # {}
  <2>1. \A s \in S : s \in Nat /\ n - s \in Nat  OBVIOUS
  <2>2. T \subseteq Nat  BY <2>1
  <2>3. PICK s \in S : TRUE  OBVIOUS
  <2>4. n - s \in T  BY <2>3
  <2>. QED  BY <2>2, <2>4
<1>3. PICK d \in T : \A e \in T : ~ (<<e, d>> \in R)
  <2>. HIDE DEF T, R
  <2>. QED  BY <1>1, <1>2, WFMin
<1>4. PICK m \in S : d = n - m
  BY <1>3
<1>5. ASSUME NEW s \in S PROVE s <= m
  <2>1. n - s \in T /\ n - s \in Nat /\ n - m \in Nat  BY <1>2, <1>3, <1>4
  <2>2. ~ (n - s < n - m)  BY <1>3, <1>4, <2>1
  <2>. QED  BY <2>1, <2>2
<1>6. \E x \in S : \A y \in S : x >= y
  BY <1>5
<1>7. Max(S) \in S /\ \A y \in S : Max(S) >= y
  BY <1>6 DEF Max
<1>. QED  BY <1>7

\* The names of the backup directory are finitely many.
LEMMA NamesAreFinite ==
    ASSUME NEW names \in SUBSET Times
    PROVE  /\ IsFiniteSet(names) /\ Cardinality(names) \in Nat
           /\ Cardinality(names) = 0 <=> names = {}
<1>1. IsFiniteSet(Times)  BY FS_Interval DEF Times
<1>2. IsFiniteSet(names)  BY <1>1, FS_Subset
<1>. QED  BY <1>2, FS_EmptySet, FS_CardinalityType

\* Rotate deletes older names before newer ones, and, if any are to be kept,
\* not the newest.
LEMMA ExcessIsOld ==
    ASSUME NEW names \in SUBSET Times
    PROVE  /\ Excess(names) \subseteq names
           /\ \A gone \in Excess(names), kept \in names \ Excess(names) : gone < kept
           /\ \A newest \in names :
                 Retain > 0 /\ (\A m \in names : m <= newest)
                    => newest \notin Excess(names)
<1>. DEFINE Newer(k) == {m \in names : m > k}
<1>1. \A k : Newer(k) \in SUBSET Times  OBVIOUS
<1>2. \A k : IsFiniteSet(Newer(k)) /\ Cardinality(Newer(k)) \in Nat
  BY <1>1, NamesAreFinite
<1>3. \A k : k \in Excess(names) <=> k \in names /\ Cardinality(Newer(k)) >= Retain
  BY DEF Excess
<1>4. names \subseteq Nat  BY DEF Times
<1>5. ASSUME NEW gone \in Excess(names), NEW kept \in names \ Excess(names)
      PROVE  gone < kept
  <2>1. gone \in Nat /\ kept \in Nat /\ gone # kept  BY <1>3, <1>4
  <2>2. SUFFICES ASSUME kept < gone PROVE FALSE  BY <2>1
  <2>3. ASSUME NEW m \in Newer(gone) PROVE m \in Newer(kept)
    <3>1. m \in Nat  BY <1>4
    <3>. QED  BY <2>1, <2>2, <3>1
  <2>. HIDE DEF Newer
  <2>4. Cardinality(Newer(gone)) <= Cardinality(Newer(kept))
    BY <1>2, <2>3, FS_Subset, Newer(gone) \in SUBSET Newer(kept)
  <2>. QED  BY <1>2, <1>3, <2>4
<1>6. ASSUME NEW newest \in names, Retain > 0, \A m \in names : m <= newest
      PROVE  newest \notin Excess(names)
  <2>1. ASSUME NEW m \in names PROVE ~ (m > newest)
    <3>1. m \in Nat /\ newest \in Nat  BY <1>4
    <3>. QED  BY <1>6, <3>1
  <2>3. Newer(newest) = {}  BY <2>1
  <2>2. Cardinality(Newer(newest)) = 0  BY <2>3, FS_EmptySet
  <2>. QED  BY <1>3, <1>6, <2>2
<1>. QED  BY <1>3, <1>5, <1>6

\* Rotate keeps no more names than it is to keep: all but the oldest of those
\* it keeps are newer than that one.
LEMMA KeptAreFew ==
    ASSUME NEW names \in SUBSET Times
    PROVE  Cardinality(names \ Excess(names)) <= Retain
<1>. DEFINE Kept == names \ Excess(names)
            Newer(k) == {m \in names : m > k}
<1>1. Kept \in SUBSET Times /\ Kept \subseteq Nat
  <2>1. Times \subseteq Nat  BY DEF Times
  <2>. QED  BY <2>1
<1>2. CASE Kept = {}
  BY <1>2, FS_EmptySet
<1>3. CASE Kept # {}
  <2>1. PICK oldest \in Kept : \A k \in Kept : ~ (<<k, oldest>> \in OpToRel(<, Nat))
    <3>. HIDE DEF Kept
    <3>. QED  BY <1>1, <1>3, WFMin, NatLessThanWellFounded
  <2>2. ASSUME NEW k \in Kept \ {oldest} PROVE k \in Newer(oldest)
    <3>1. k \in Nat /\ oldest \in Nat /\ k # oldest  BY <1>1
    <3>2. ~ (k < oldest)  BY <2>1, <3>1 DEF OpToRel
    <3>. QED  BY <3>1, <3>2
  <2>3. IsFiniteSet(Newer(oldest)) /\ Cardinality(Newer(oldest)) < Retain
    <3>1. Newer(oldest) \in SUBSET Times  OBVIOUS
    <3>2. IsFiniteSet(Newer(oldest)) /\ Cardinality(Newer(oldest)) \in Nat
      BY <3>1, NamesAreFinite
    <3>. QED  BY <3>2 DEF Excess
  <2>4. IsFiniteSet(Kept) /\ Cardinality(Kept) \in Nat  BY <1>1, NamesAreFinite
  <2>. HIDE DEF Kept, Newer
  <2>5. Cardinality(Kept \ {oldest}) <= Cardinality(Newer(oldest))
    BY <2>2, <2>3, FS_Subset, Kept \ {oldest} \in SUBSET Newer(oldest)
  <2>6. Cardinality(Kept \ {oldest}) = Cardinality(Kept) - 1
    BY <2>1, <2>4, FS_RemoveElement
  <2>7. Cardinality(Newer(oldest)) \in Nat  BY <2>3, FS_CardinalityType
  <2>8. Cardinality(Kept) <= Retain  BY <2>3, <2>4, <2>5, <2>6, <2>7
  <2>. QED  BY <2>8 DEF Kept
<1>. QED  BY <1>2, <1>3

-----------------------------------------------------------------------------
(* Types. *)

\* Types, and the local state of a cycle at each of its statements.
Typed ==
    /\ TypeOK
    /\ phase = "down" => pc = "idle"
    /\ pc # "idle" => cycle.number > 0
    /\ pc \in {"snapshot", "vacuum"} =>
          /\ ~ cycle.stored /\ ~ cycle.rotated /\ ~ cycle.snapErr /\ ~ cycle.rotateErr
          /\ cycle.doomed = {}
    /\ pc \in {"rotate", "remove"} =>
          cycle.stored /\ ~ cycle.rotated /\ ~ cycle.snapErr /\ ~ cycle.rotateErr
    /\ pc = "record" =>
          /\ cycle.doomed = {}
          /\ cycle.snapErr <=> ~ cycle.stored
          /\ cycle.rotated <=> ~ cycle.snapErr /\ ~ cycle.rotateErr
    /\ pc = "vacuum" => cycle.started \in DOMAIN files
    /\ cycle.covers <= commits
    /\ writing => commits < MaxCommits

\* What the id of the last success is.
LEMMA LastSuccessIs ==
    ASSUME Typed
    PROVE  /\ LastSuccess \in Nat
           /\ \A i \in Successes : i <= LastSuccess
           /\ LastSuccess # 0 => LastSuccess \in Successes
<1>1. /\ Successes \in SUBSET Nat /\ Len(runs) \in Nat
      /\ \A i \in Successes : i <= Len(runs) /\ i # 0
  BY DEF Typed, TypeOK, Successes
<1>2. CASE Successes = {}
  BY <1>2 DEF LastSuccess, Successes
<1>3. CASE Successes # {}
  <2>1. LastSuccess = Max(Successes)  BY <1>3 DEF LastSuccess, Successes
  <2>. QED  BY <1>1, <1>3, <2>1, MaxOfSet
<1>. QED  BY <1>2, <1>3

\* A snapshot file that a cycle writes or completes.
LEMMA WithFileType ==
    ASSUME Typed, cycle.number > 0, NEW content \in {"nothing", "part", "all"},
           NEW version \in Versions,
           files' = WithFile(cycle.started, content, version)
    PROVE  /\ DOMAIN files' = DOMAIN files \cup {cycle.started}
           /\ DOMAIN files' \subseteq Times
           /\ \A t \in DOMAIN files' : files'[t] \in File
BY DEF Typed, TypeOK, WithFile, File

\* The row of a cycle.
LEMMA RowType == ASSUME Typed, cycle.number > 0 PROVE Row \in Run
<1>1. Status \in {"success", "failed"}  BY DEF Status
<1>2. (Status = "success" /\ cycle.started \in DOMAIN files) \in BOOLEAN  OBVIOUS
<1>. QED  BY <1>1, <1>2 DEF Typed, TypeOK, Row, Run

\* Every step keeps the types.
LEMMA TypedStep == ASSUME Typed, [Next]_vars PROVE Typed'
<1>. USE DEF Typed, TypeOK
<1>. DEFINE Local == [number : 0 .. MaxCycles, started : Times, covers : Versions,
                      doomed : SUBSET Times, snapErr : BOOLEAN, rotateErr : BOOLEAN,
                      stored : BOOLEAN, rotated : BOOLEAN]
            Answer == [at : {"last", "success", "count", "answered"}, last : Nat,
                       success : Nat, count : Nat]
<1>0. cycle \in Local /\ poll \in Answer  OBVIOUS
<1>1. ASSUME StartCycle, phase' \in {"starting", "serving"} PROVE Typed'
  <2>1. /\ cycle'.number = cycle.number + 1 /\ cycle'.covers = commits
        /\ cycle'.stored = FALSE /\ cycle'.rotated = FALSE
        /\ cycle'.snapErr = FALSE /\ cycle'.rotateErr = FALSE /\ cycle'.doomed = {}
    BY <1>1 DEF StartCycle, NewCycle
  <2>2. cycle' \in Local
    <3>1. cycle.number + 1 \in 0 .. MaxCycles /\ clock \in Times /\ commits \in Versions
      BY <1>1 DEF StartCycle
    <3>2. {} \in SUBSET Times /\ FALSE \in BOOLEAN  OBVIOUS
    <3>. QED  BY <1>1, <3>1, <3>2 DEF StartCycle, NewCycle
  <2>3. /\ pc' = "snapshot" /\ cycle'.number > 0 /\ cycle'.covers <= commits
    BY <1>1, <2>1 DEF StartCycle, Versions
  <2>. QED  BY <1>1, <2>1, <2>2, <2>3 DEF StartCycle, dbVars
<1>2. CASE Boot  BY <1>1, <1>2 DEF Boot
<1>3. CASE Tick  BY <1>1, <1>3 DEF Tick
<1>4. CASE OpenSnapshot
  BY <1>4, WithFileType DEF OpenSnapshot, dbVars
<1>5. CASE SpillPages
  <2>1. files[cycle.started].version \in Versions  BY <1>5 DEF SpillPages, File
  <2>. QED  BY <1>5, <2>1, WithFileType DEF SpillPages, dbVars
<1>6. CASE CloseSnapshot
  <2>1. files[cycle.started].version \in Versions  BY <1>6 DEF CloseSnapshot, File
  <2>. QED  BY <1>6, <2>1, WithFileType DEF CloseSnapshot, CompleteFile, dbVars
<1>7. CASE FailSnapshot
  <2>1. cycle' \in Local  BY <1>0, <1>7 DEF FailSnapshot
  <2>2. /\ cycle'.doomed = {} /\ cycle'.snapErr = TRUE
        /\ cycle'.stored = FALSE /\ cycle'.rotated = FALSE
        /\ cycle'.number = cycle.number /\ cycle'.covers = cycle.covers
    BY <1>7 DEF FailSnapshot
  <2>3. DOMAIN files' \subseteq Times /\ \A t \in DOMAIN files' : files'[t] \in File
    <3>1. CASE UNCHANGED files  BY <3>1
    <3>2. CASE pc = "vacuum" /\ CompleteFile
      <4>1. files[cycle.started].version \in Versions  BY <3>2 DEF File
      <4>. QED  BY <3>2, <4>1, WithFileType DEF CompleteFile
    <3>. QED  BY <1>7, <3>1, <3>2 DEF FailSnapshot
  <2>. QED  BY <1>7, <2>1, <2>2, <2>3 DEF FailSnapshot, dbVars
<1>8. CASE ListSnapshots
  BY <1>8, ExcessIsOld DEF ListSnapshots, AfterRemoving, dbVars
<1>9. CASE RemoveSnapshot
  <2>1. PICK name \in cycle.doomed :
           /\ files' = Restrict(files, DOMAIN files \ {name})
           /\ cycle' = [cycle EXCEPT !.doomed = cycle.doomed \ {name},
                                     !.rotated = (cycle.doomed \ {name} = {})]
           /\ pc' = AfterRemoving(cycle.doomed \ {name})
    BY <1>9 DEF RemoveSnapshot
  <2>2. /\ DOMAIN files' \subseteq Times
        /\ \A t \in DOMAIN files' : files'[t] \in File
    BY <2>1 DEF Restrict
  <2>3. (cycle.doomed \ {name} = {}) \in BOOLEAN  OBVIOUS
  <2>4. cycle' \in Local  BY <1>0, <2>1, <2>3
  <2>5. /\ cycle'.doomed = cycle.doomed \ {name}
        /\ cycle'.rotated <=> cycle'.doomed = {}
        /\ cycle'.stored = cycle.stored /\ cycle'.snapErr = cycle.snapErr
        /\ cycle'.rotateErr = cycle.rotateErr
        /\ cycle'.number = cycle.number /\ cycle'.covers = cycle.covers
    BY <2>1
  <2>6. pc' = IF cycle'.doomed = {} THEN "record" ELSE "remove"
    BY <2>1, <2>5 DEF AfterRemoving
  <2>. QED  BY <1>9, <2>2, <2>4, <2>5, <2>6 DEF RemoveSnapshot, dbVars
<1>10. CASE FailRotate  BY <1>10 DEF FailRotate, dbVars
<1>11. CASE Record
  <2>1. runs' \in Seq(Run)  BY <1>11, RowType DEF Record
  <2>. QED  BY <1>11, <2>1 DEF Record, EndCycle, dbVars
<1>12. CASE FailRecord  BY <1>12 DEF FailRecord, EndCycle, dbVars
<1>13. CASE ReadLastRun
  <2>1. poll' = [at |-> "success", last |-> Len(runs), success |-> 0, count |-> 0]
    BY <1>13 DEF ReadLastRun, NoPoll
  <2>2. poll' \in Answer  BY <2>1
  <2>. QED  BY <1>13, <2>2 DEF ReadLastRun, dbVars
<1>14. CASE ReadLastSuccess  BY <1>14, LastSuccessIs DEF ReadLastSuccess, dbVars
<1>15. CASE CountSnapshots  BY <1>15, NamesAreFinite DEF CountSnapshots, dbVars
<1>16. CASE EndPoll  BY <1>16 DEF EndPoll, NoPoll, dbVars
<1>17. CASE BeginWrite  BY <1>17 DEF BeginWrite
<1>18. CASE EndWrite
  <2>1. commits \in Nat /\ commits < MaxCommits /\ cycle.covers \in Nat
    BY <1>0, <1>18 DEF EndWrite, Versions
  <2>2. commits' \in Versions /\ cycle.covers <= commits'
    BY <1>18, <2>1 DEF EndWrite, Versions
  <2>. QED  BY <1>18, <2>2 DEF EndWrite
<1>19. CASE PassTime  BY <1>19 DEF PassTime, dbVars
<1>20. CASE Crash  BY <1>20 DEF Crash, NoPoll
<1>21. CASE UNCHANGED vars  BY <1>21 DEF vars, dbVars
<1>. QED
  BY <1>2, <1>3, <1>4, <1>5, <1>6, <1>7, <1>8, <1>9, <1>10, <1>11, <1>12, <1>13,
     <1>14, <1>15, <1>16, <1>17, <1>18, <1>19, <1>20, <1>21 DEF Next, Cycle, Poll

\* They hold of a server without snapshots.
LEMMA TypedInit == Init => Typed
<1>. SUFFICES ASSUME Init PROVE Typed  OBVIOUS
<1>1. 1 \in Times /\ 0 \in Versions /\ 0 \in 0 .. MaxCycles /\ {} \in SUBSET Times
  BY DEF Times, Versions
<1>2. cycle \in [number : 0 .. MaxCycles, started : Times, covers : Versions,
                doomed : SUBSET Times, snapErr : BOOLEAN, rotateErr : BOOLEAN,
                stored : BOOLEAN, rotated : BOOLEAN]
  BY <1>1 DEF Init, NewCycle
<1>3. files = << >> /\ DOMAIN files = {} /\ runs = << >> /\ runs \in Seq(Run)
  BY DEF Init
<1>4. poll \in [at : {"last", "success", "count", "answered"}, last : Nat,
                success : Nat, count : Nat]
  BY DEF Init, NoPoll
<1>5. TypeOK  BY <1>1, <1>2, <1>3, <1>4 DEF Init, TypeOK
<1>6. cycle.covers <= commits  BY DEF Init, NewCycle
<1>. QED  BY <1>5, <1>6 DEF Init, Typed

\* Every variable keeps its type, whatever fails and whenever the server dies.
THEOREM BackupIsTyped == Spec => []TypeOK
<1>1. Spec => []Typed  BY TypedInit, TypedStep, PTL DEF Spec
<1>2. Typed => TypeOK  BY DEF Typed
<1>. QED  BY <1>1, <1>2, PTL

-----------------------------------------------------------------------------
(* Snapshots. *)

\* A complete snapshot that has the transactions it must have.
Covers(file, covers) == file.content = "all" /\ file.version >= covers

\* Names are in the order of the cycles that wrote them, none is later than the
\* cycle under way, and what that cycle has written is its own. The names it
\* deletes are older than those it keeps, and its own snapshot is kept.
SnapInv ==
    /\ \A t \in DOMAIN files : t <= clock /\ files[t].cycle <= cycle.number
    /\ \A t, u \in DOMAIN files : t < u => files[t].cycle < files[u].cycle
    /\ pc = "snapshot" => \A t \in DOMAIN files : files[t].cycle < cycle.number
    /\ pc # "idle" => /\ cycle.started <= clock
                      /\ \A t \in DOMAIN files : t <= cycle.started
    /\ pc = "vacuum" => /\ files[cycle.started].content # "all"
                        /\ files[cycle.started].version >= cycle.covers
                        /\ files[cycle.started].cycle = cycle.number
    /\ pc # "idle" /\ cycle.stored => /\ cycle.started \in DOMAIN files
                                      /\ Covers(files[cycle.started], cycle.covers)
                                      /\ files[cycle.started].cycle = cycle.number
    /\ pc = "remove" => /\ cycle.started \notin cycle.doomed
                        /\ \A gone \in cycle.doomed, kept \in DOMAIN files \ cycle.doomed :
                              gone < kept

\* The file of a recorded success is complete until it is deleted, after which
\* its name is not used again; and some file is as good as it.
RunInv ==
    /\ \A i \in DOMAIN runs : runs[i].covers <= cycle.covers
    /\ \A i \in Successes : \E t \in DOMAIN files : Covers(files[t], runs[i].covers)
    /\ \A i \in Successes :
          LET t == runs[i].started
          IN  IF t \in DOMAIN files
              THEN Covers(files[t], runs[i].covers) /\ files[t].cycle = runs[i].number
              ELSE t < clock /\ (pc # "idle" => t < cycle.started)

\* The success that a status request has read is the last one of the runs it
\* has read, and a snapshot was there when it counted.
PollInv ==
    /\ poll.last <= Len(runs)
    /\ poll.at \in {"count", "answered"} =>
          /\ \A i \in Successes : i <= poll.last => i <= poll.success
          /\ poll.success # 0 => poll.success \in Successes
    /\ poll.at = "answered" /\ poll.success # 0 => poll.count > 0

\* Steps that are not of a snapshot or a rotation leave the files alone.
LEMMA OtherSteps ==
    ASSUME Typed, ~ ClockStepsBack, [Next]_vars
    PROVE  \/ StartCycle
           \/ OpenSnapshot \/ SpillPages \/ CloseSnapshot \/ FailSnapshot
           \/ ListSnapshots \/ RemoveSnapshot \/ FailRotate
           \/ /\ UNCHANGED <<files, cycle>>
              /\ pc' \in {pc, "idle"}
              /\ clock' >= clock
              /\ UNCHANGED runs \/ Record
<1>0. clock \in Nat  BY DEF Typed, TypeOK, Times
<1>1. CASE Boot \/ Tick  BY <1>1 DEF Boot, Tick
<1>2. CASE Record \/ FailRecord  BY <1>0, <1>2 DEF Record, FailRecord, EndCycle
<1>3. CASE Poll
  BY <1>0, <1>3 DEF Poll, ReadLastRun, ReadLastSuccess, CountSnapshots, EndPoll
<1>4. CASE BeginWrite \/ EndWrite \/ Crash
  BY <1>0, <1>4 DEF BeginWrite, EndWrite, Crash
<1>5. CASE PassTime  BY <1>0, <1>5 DEF PassTime
<1>6. CASE UNCHANGED vars  BY <1>0, <1>6 DEF vars
<1>. QED  BY <1>1, <1>2, <1>3, <1>4, <1>5, <1>6 DEF Next, Cycle

\* What writing the file of the cycle does to the others: nothing.
LEMMA FileWritten ==
    ASSUME Typed, NEW content, NEW version,
           files' = WithFile(cycle.started, content, version)
    PROVE  /\ DOMAIN files' = DOMAIN files \cup {cycle.started}
           /\ files'[cycle.started] = [content |-> content, version |-> version,
                                       cycle |-> cycle.number]
           /\ \A t \in DOMAIN files \ {cycle.started} : files'[t] = files[t]
BY DEF WithFile

\* Every step keeps the invariant of the files, whether Rotate is to keep one
\* snapshot or many, as long as it is to keep one.
LEMMA SnapStep ==
    ASSUME Typed, SnapInv, Retain > 0, ~ ClockStepsBack, [Next]_vars
    PROVE  SnapInv'
<1>0. /\ clock \in Nat /\ cycle.started \in Nat /\ cycle.number \in Nat
      /\ cycle.covers \in Nat /\ commits \in Nat /\ cycle.covers <= commits
      /\ DOMAIN files \in SUBSET Times
      /\ \A t \in DOMAIN files : /\ t \in Nat /\ files[t].cycle \in Nat
                                 /\ files[t].version \in Nat
  BY DEF Typed, TypeOK, Times, Versions, File
<1>1. CASE StartCycle
  <2>1. /\ clock' = clock /\ files' = files /\ pc = "idle" /\ pc' = "snapshot"
        /\ cycle'.started = clock /\ cycle'.number = cycle.number + 1
        /\ cycle'.stored = FALSE
    BY <1>1 DEF StartCycle, NewCycle
  <2>. QED  BY <1>0, <2>1 DEF SnapInv
<1>2. ASSUME NEW content \in {"nothing", "part", "all"}, NEW version \in Nat,
             files' = WithFile(cycle.started, content, version), version >= cycle.covers,
             pc \in {"snapshot", "vacuum"}
      PROVE  /\ \A t \in DOMAIN files' : /\ t <= cycle.started /\ t <= clock
                                         /\ files'[t].cycle <= cycle.number
             /\ \A t, u \in DOMAIN files' : t < u => files'[t].cycle < files'[u].cycle
             /\ cycle.started \in DOMAIN files' /\ cycle.started <= clock
             /\ files'[cycle.started].content = content
             /\ files'[cycle.started].version >= cycle.covers
             /\ files'[cycle.started].cycle = cycle.number
  <2>1. /\ DOMAIN files' = DOMAIN files \cup {cycle.started}
        /\ files'[cycle.started].content = content
        /\ files'[cycle.started].version = version
        /\ files'[cycle.started].cycle = cycle.number
        /\ \A t \in DOMAIN files \ {cycle.started} : files'[t] = files[t]
    <3>1. /\ DOMAIN files' = DOMAIN files \cup {cycle.started}
          /\ files'[cycle.started] = [content |-> content, version |-> version,
                                      cycle |-> cycle.number]
          /\ \A t \in DOMAIN files \ {cycle.started} : files'[t] = files[t]
      BY <1>2, FileWritten
    <3>. QED  BY <3>1
  <2>2. /\ cycle.started <= clock
        /\ \A t \in DOMAIN files : t <= cycle.started /\ t <= clock
        /\ \A t \in DOMAIN files : files[t].cycle <= cycle.number
        /\ \A t, u \in DOMAIN files : t < u => files[t].cycle < files[u].cycle
    BY <1>2 DEF SnapInv
  <2>3. \A t \in DOMAIN files : t < cycle.started => files[t].cycle < cycle.number
    BY <1>0, <1>2 DEF SnapInv, Typed
  <2>4. ASSUME NEW t \in DOMAIN files', NEW u \in DOMAIN files', t < u
        PROVE  files'[t].cycle < files'[u].cycle
    BY <1>0, <2>1, <2>2, <2>3, <2>4
  <2>. QED  BY <1>0, <1>2, <2>1, <2>2, <2>4
<1>3. CASE OpenSnapshot
  BY <1>0, <1>2, <1>3 DEF OpenSnapshot, SnapInv, Typed
<1>4. CASE SpillPages
  <2>1. files[cycle.started].version \in Nat /\ files[cycle.started].version >= cycle.covers
    BY <1>0, <1>4 DEF SpillPages, SnapInv, Typed
  <2>. QED  BY <1>0, <1>2, <1>4, <2>1 DEF SpillPages, SnapInv, Typed
<1>5. CASE CloseSnapshot
  <2>1. files[cycle.started].version \in Nat /\ files[cycle.started].version >= cycle.covers
    BY <1>0, <1>5 DEF CloseSnapshot, SnapInv, Typed
  <2>2. /\ cycle'.started = cycle.started /\ cycle'.number = cycle.number
        /\ cycle'.covers = cycle.covers
    BY <1>5 DEF CloseSnapshot, Typed, TypeOK
  <2>. QED  BY <1>0, <1>2, <1>5, <2>1, <2>2 DEF CloseSnapshot, CompleteFile, SnapInv, Covers
<1>10. CASE FailSnapshot /\ CompleteFile /\ pc = "vacuum"
  <2>1. files[cycle.started].version \in Nat /\ files[cycle.started].version >= cycle.covers
    BY <1>0, <1>10 DEF SnapInv, Typed
  <2>2. /\ cycle'.started = cycle.started /\ cycle'.number = cycle.number
        /\ cycle'.covers = cycle.covers /\ cycle'.stored = FALSE
        /\ clock' = clock /\ pc' = "record"
    BY <1>10 DEF FailSnapshot, Typed, TypeOK
  <2>. QED  BY <1>0, <1>2, <1>10, <2>1, <2>2 DEF CompleteFile, SnapInv
<1>6. CASE (FailSnapshot /\ UNCHANGED files) \/ FailRotate
  <2>1. /\ cycle'.started = cycle.started /\ cycle'.number = cycle.number
        /\ cycle'.covers = cycle.covers /\ cycle'.stored = cycle.stored
    BY <1>6 DEF FailSnapshot, FailRotate, Typed, TypeOK
  <2>2. clock' = clock /\ files' = files /\ pc # "idle" /\ pc' = "record"
    BY <1>6 DEF FailSnapshot, FailRotate
  <2>. QED  BY <2>1, <2>2 DEF SnapInv
<1>7. CASE ListSnapshots
  <2>1. /\ cycle'.started = cycle.started /\ cycle'.number = cycle.number
        /\ cycle'.covers = cycle.covers /\ cycle'.stored = cycle.stored
        /\ cycle'.doomed = Excess(DOMAIN files)
    BY <1>7 DEF ListSnapshots, Typed, TypeOK
  <2>2. clock' = clock /\ files' = files /\ pc = "rotate" /\ pc' \in {"record", "remove"}
    BY <1>7 DEF ListSnapshots, AfterRemoving
  <2>3. /\ cycle.started \in DOMAIN files
        /\ \A t \in DOMAIN files : t <= cycle.started
    BY <2>2 DEF SnapInv, Typed
  <2>4. /\ cycle.started \notin Excess(DOMAIN files)
        /\ \A gone \in Excess(DOMAIN files), kept \in DOMAIN files \ Excess(DOMAIN files) :
              gone < kept
    BY <1>0, <2>3, ExcessIsOld
  <2>. QED  BY <2>1, <2>2, <2>4 DEF SnapInv
<1>8. CASE RemoveSnapshot
  <2>1. PICK name \in cycle.doomed :
           /\ files' = Restrict(files, DOMAIN files \ {name})
           /\ cycle' = [cycle EXCEPT !.doomed = cycle.doomed \ {name},
                                     !.rotated = (cycle.doomed \ {name} = {})]
    BY <1>8 DEF RemoveSnapshot
  <2>2. /\ cycle'.started = cycle.started /\ cycle'.number = cycle.number
        /\ cycle'.covers = cycle.covers /\ cycle'.stored = cycle.stored
        /\ cycle'.doomed = cycle.doomed \ {name}
    BY <2>1 DEF Typed, TypeOK
  <2>3. clock' = clock /\ pc = "remove" /\ pc' \in {"record", "remove"}
    BY <1>8 DEF RemoveSnapshot, AfterRemoving
  <2>4. /\ DOMAIN files' = DOMAIN files \ {name}
        /\ \A t \in DOMAIN files' : files'[t] = files[t]
    BY <2>1 DEF Restrict
  <2>5. cycle.started # name /\ DOMAIN files' \ cycle'.doomed \subseteq DOMAIN files \ cycle.doomed
    BY <2>1, <2>2, <2>3, <2>4 DEF SnapInv
  <2>. QED  BY <1>0, <2>2, <2>3, <2>4, <2>5 DEF SnapInv
<1>9. CASE /\ UNCHANGED <<files, cycle>>
           /\ pc' \in {pc, "idle"}
           /\ clock' >= clock
  <2>1. clock' \in Nat  BY TypedStep DEF Typed, TypeOK, Times
  <2>. QED  BY <1>0, <1>9, <2>1 DEF SnapInv
<1>. QED
  BY <1>1, <1>3, <1>4, <1>5, <1>6, <1>7, <1>8, <1>9, <1>10, OtherSteps DEF FailSnapshot

\* The rows after a step: those before it, and that of the cycle if it records.
LEMMA RecordedRow ==
    ASSUME Typed, Record
    PROVE  /\ Len(runs') = Len(runs) + 1 /\ DOMAIN runs' = DOMAIN runs \cup {Len(runs) + 1}
           /\ \A i \in DOMAIN runs : runs'[i] = runs[i] /\ i <= Len(runs)
           /\ runs'[Len(runs) + 1] = Row /\ Last(runs') = Row
           /\ Row.status \in {"success", "failed"}
           /\ Row.status = "success" <=> cycle.rotated
           /\ Row.status = "success" => cycle.stored
           /\ Row.path \in BOOLEAN /\ (Row.path <=> cycle.stored)
           /\ Row.started = cycle.started /\ Row.covers = cycle.covers
           /\ Row.number = cycle.number
<1>1. runs' = Append(runs, Row)  BY DEF Record
<1>2. runs \in Seq(Run)  BY DEF Typed, TypeOK
<1>3. /\ Row.status = Status /\ Row.path = ~ cycle.snapErr
      /\ Row.started = cycle.started /\ Row.covers = cycle.covers
      /\ Row.number = cycle.number
  BY DEF Row
<1>4. /\ Status = "success" \/ Status = "failed"
      /\ Status = "success" <=> cycle.rotated
      /\ Status = "success" => cycle.stored
      /\ ~ cycle.snapErr <=> cycle.stored
  BY DEF Status, Record, Typed
<1>5. /\ Len(runs') = Len(runs) + 1 /\ DOMAIN runs' = DOMAIN runs \cup {Len(runs) + 1}
      /\ \A i \in DOMAIN runs : runs'[i] = runs[i] /\ i <= Len(runs)
      /\ runs'[Len(runs) + 1] = Row
  BY <1>1, <1>2
<1>6. Last(runs') = Row  BY <1>5 DEF Last
<1>. QED  BY <1>3, <1>4, <1>5, <1>6

\* A step that records nothing, spares every complete snapshot, and takes no
\* name that a run has had before, keeps the promise of each row.
LEMMA RunsKept ==
    ASSUME Typed, Typed', RunInv, UNCHANGED runs, clock' >= clock,
           cycle'.covers >= cycle.covers,
           \A t \in DOMAIN files : files[t].content = "all" =>
              t \in DOMAIN files' /\ files'[t] = files[t],
           \A t \in DOMAIN files' \ DOMAIN files : pc # "idle" /\ t = cycle.started,
           pc' # "idle" => \/ pc = "idle" /\ cycle'.started = clock
                           \/ pc # "idle" /\ cycle'.started = cycle.started
    PROVE  RunInv'
<1>0. /\ clock \in Nat /\ clock' \in Nat /\ cycle.covers \in Nat /\ cycle'.covers \in Nat
      /\ cycle.started \in Nat /\ cycle'.started \in Nat
      /\ \A i \in DOMAIN runs : runs[i].covers \in Nat /\ runs[i].started \in Nat
  <2>1. \A i \in DOMAIN runs : runs[i] \in Run  BY DEF Typed, TypeOK
  <2>2. \A i \in DOMAIN runs : runs[i].covers \in Nat /\ runs[i].started \in Nat
    BY <2>1 DEF Run, Times, Versions
  <2>3. cycle.started \in Times /\ cycle.covers \in Versions
    BY DEF Typed, TypeOK
  <2>4. cycle'.started \in Times /\ cycle'.covers \in Versions
    BY DEF Typed, TypeOK
  <2>5. clock \in Times /\ clock' \in Times
    BY DEF Typed, TypeOK
  <2>. QED  BY <2>2, <2>3, <2>4, <2>5 DEF Times, Versions
<1>1. Successes' = Successes /\ Successes \subseteq DOMAIN runs  BY DEF Successes
<1>2. \A i \in DOMAIN runs' : runs'[i].covers <= cycle'.covers
  BY <1>0 DEF RunInv
<1>3. ASSUME NEW i \in Successes
      PROVE  \E t \in DOMAIN files' : Covers(files'[t], runs[i].covers)
  BY <1>3 DEF RunInv, Covers
<1>4. ASSUME NEW i \in Successes
      PROVE  LET t == runs[i].started
             IN  IF t \in DOMAIN files'
                 THEN Covers(files'[t], runs[i].covers) /\ files'[t].cycle = runs[i].number
                 ELSE t < clock' /\ (pc' # "idle" => t < cycle'.started)
  <2>. DEFINE t == runs[i].started
  <2>0. t \in Nat  BY <1>0, <1>1
  <2>1. CASE t \in DOMAIN files
    <3>1. Covers(files[t], runs[i].covers) /\ files[t].cycle = runs[i].number
      BY <2>1 DEF RunInv
    <3>2. t \in DOMAIN files' /\ files'[t] = files[t]
      BY <2>1, <3>1 DEF Covers
    <3>. QED  BY <3>1, <3>2
  <2>2. CASE t \notin DOMAIN files
    <3>1. t < clock /\ (pc # "idle" => t < cycle.started)
      BY <2>2 DEF RunInv
    <3>2. t \notin DOMAIN files'
      BY <1>0, <2>0, <2>2, <3>1
    <3>3. t < clock' /\ (pc' # "idle" => t < cycle'.started)
      BY <1>0, <2>0, <3>1
    <3>. QED  BY <3>2, <3>3
  <2>. QED  BY <2>1, <2>2
<1>. QED  BY <1>1, <1>2, <1>3, <1>4 DEF RunInv, Covers

\* Every step keeps the promises of the rows.
LEMMA RunStep ==
    ASSUME Typed, SnapInv, RunInv, Retain > 0, ~ ClockStepsBack, [Next]_vars
    PROVE  RunInv'
<1>0. /\ clock \in Nat /\ cycle.started \in Nat /\ cycle.covers \in Nat /\ commits \in Nat
      /\ cycle.covers <= commits /\ Typed'
      /\ \A i \in DOMAIN runs : runs[i].covers \in Nat /\ runs[i].started \in Nat
      /\ \A t \in DOMAIN files : t \in Nat /\ files[t].version \in Nat
  <2>1. \A i \in DOMAIN runs : runs[i] \in Run  BY DEF Typed, TypeOK
  <2>2. \A i \in DOMAIN runs : runs[i].covers \in Nat /\ runs[i].started \in Nat
    BY <2>1 DEF Run, Times, Versions
  <2>3. Typed'  BY TypedStep
  <2>4. /\ clock \in Nat /\ cycle.started \in Nat /\ cycle.covers \in Nat /\ commits \in Nat
        /\ cycle.covers <= commits
        /\ \A t \in DOMAIN files : t \in Nat /\ files[t].version \in Nat
    BY DEF Typed, TypeOK, Times, Versions, File
  <2>. QED  BY <2>2, <2>3, <2>4
<1>1. CASE StartCycle
  <2>1. /\ UNCHANGED <<runs, files, clock>> /\ pc = "idle"
        /\ cycle'.started = clock /\ cycle'.covers = commits
    BY <1>1 DEF StartCycle, NewCycle
  <2>. QED  BY <1>0, <2>1, RunsKept
<1>2. ASSUME NEW content, NEW version,
             files' = WithFile(cycle.started, content, version),
             UNCHANGED <<runs, clock>>, pc \in {"snapshot", "vacuum"},
             cycle'.started = cycle.started, cycle'.covers = cycle.covers,
             cycle.started \in DOMAIN files => files[cycle.started].content # "all"
      PROVE  RunInv'
  <2>1. /\ DOMAIN files' = DOMAIN files \cup {cycle.started}
        /\ \A t \in DOMAIN files \ {cycle.started} : files'[t] = files[t]
    BY <1>2, FileWritten
  <2>. QED  BY <1>0, <1>2, <2>1, RunsKept
<1>3. CASE OpenSnapshot
  BY <1>2, <1>3 DEF OpenSnapshot
<1>4. CASE SpillPages
  BY <1>2, <1>4 DEF SpillPages, SnapInv
<1>5. CASE CloseSnapshot
  <2>1. cycle'.started = cycle.started /\ cycle'.covers = cycle.covers
    BY <1>5 DEF CloseSnapshot, Typed, TypeOK
  <2>. QED  BY <1>2, <1>5, <2>1 DEF CloseSnapshot, CompleteFile, SnapInv
<1>10. CASE FailSnapshot /\ CompleteFile /\ pc = "vacuum"
  <2>1. /\ cycle'.started = cycle.started /\ cycle'.covers = cycle.covers
        /\ UNCHANGED <<runs, clock>>
    BY <1>10 DEF FailSnapshot, Typed, TypeOK
  <2>. QED  BY <1>2, <1>10, <2>1 DEF CompleteFile, SnapInv
<1>6. CASE (FailSnapshot /\ UNCHANGED files) \/ FailRotate \/ ListSnapshots
  <2>1. /\ UNCHANGED <<runs, files, clock>> /\ pc # "idle"
        /\ cycle'.started = cycle.started /\ cycle'.covers = cycle.covers
    BY <1>6 DEF FailSnapshot, FailRotate, ListSnapshots, Typed, TypeOK
  <2>. QED  BY <1>0, <2>1, RunsKept
<1>7. CASE RemoveSnapshot
  <2>1. PICK name \in cycle.doomed :
           /\ files' = Restrict(files, DOMAIN files \ {name})
           /\ cycle' = [cycle EXCEPT !.doomed = cycle.doomed \ {name},
                                     !.rotated = (cycle.doomed \ {name} = {})]
    BY <1>7 DEF RemoveSnapshot
  <2>2. /\ cycle'.started = cycle.started /\ cycle'.covers = cycle.covers
        /\ UNCHANGED <<runs, clock>> /\ pc = "remove"
    BY <1>7, <2>1 DEF RemoveSnapshot, Typed, TypeOK
  <2>3. /\ DOMAIN files' = DOMAIN files \ {name}
        /\ \A t \in DOMAIN files' : files'[t] = files[t]
    BY <2>1 DEF Restrict
  <2>4. /\ cycle.started \in DOMAIN files' /\ Covers(files'[cycle.started], cycle.covers)
        /\ \A t \in DOMAIN files : t <= cycle.started
        /\ cycle.started <= clock /\ cycle.started # name
    BY <2>1, <2>2, <2>3 DEF SnapInv, Typed
  <2>5. files'[cycle.started].version \in Nat
    BY <1>0, <2>3, <2>4
  <2>6. ASSUME NEW i \in DOMAIN runs
        PROVE  Covers(files'[cycle.started], runs[i].covers)
    BY <1>0, <2>4, <2>5 DEF RunInv, Covers
  <2>7. ASSUME NEW i \in Successes
        PROVE  LET t == runs[i].started
               IN  IF t \in DOMAIN files'
                   THEN Covers(files'[t], runs[i].covers) /\ files'[t].cycle = runs[i].number
                   ELSE t < clock /\ t < cycle.started
    <3>1. runs[i].started \in Nat  BY <1>0 DEF Successes
    <3>2. CASE runs[i].started = name
      <4>1. name \notin DOMAIN files'  BY <2>3
      <4>2. CASE name \in DOMAIN files  BY <1>0, <2>4, <3>1, <3>2, <4>1, <4>2
      <4>3. CASE name \notin DOMAIN files
        BY <2>2, <3>2, <4>1, <4>3 DEF RunInv
      <4>. QED  BY <4>2, <4>3
    <3>3. CASE runs[i].started # name
      BY <2>2, <2>3, <3>3 DEF RunInv
    <3>. QED  BY <3>2, <3>3
  <2>8. Successes' = Successes /\ Successes \subseteq DOMAIN runs
    BY <2>2 DEF Successes
  <2>. QED  BY <2>2, <2>4, <2>6, <2>7, <2>8 DEF RunInv, Covers
<1>8. CASE /\ UNCHANGED <<files, cycle>>
           /\ pc' \in {pc, "idle"}
           /\ clock' >= clock
           /\ UNCHANGED runs
  BY <1>0, <1>8, RunsKept
<1>9. CASE Record
  <2>1. UNCHANGED <<files, cycle, clock>> /\ pc = "record" /\ pc' = "idle"
    BY <1>9 DEF Record, EndCycle
  <2>2. \A i \in Successes' : \/ i \in Successes /\ runs'[i] = runs[i]
                              \/ runs'[i] = Row /\ cycle.stored
    BY <1>9, RecordedRow DEF Successes
  <2>3. /\ Row.covers = cycle.covers /\ Row.started = cycle.started
        /\ Row.number = cycle.number
    BY <1>9, RecordedRow
  <2>4. \A i \in DOMAIN runs' : runs'[i].covers <= cycle'.covers
    BY <1>0, <1>9, <2>1, <2>3, RecordedRow DEF RunInv
  <2>5. cycle.stored => /\ cycle.started \in DOMAIN files
                        /\ Covers(files[cycle.started], cycle.covers)
                        /\ files[cycle.started].cycle = cycle.number
    BY <2>1 DEF SnapInv
  <2>6. \A i \in Successes' : \E t \in DOMAIN files : Covers(files[t], runs'[i].covers)
    BY <2>2, <2>3, <2>5 DEF RunInv
  <2>7. ASSUME NEW i \in Successes'
        PROVE  LET t == runs'[i].started
               IN  IF t \in DOMAIN files
                   THEN Covers(files[t], runs'[i].covers) /\ files[t].cycle = runs'[i].number
                   ELSE t < clock
    BY <2>2, <2>3, <2>5 DEF RunInv
  <2>. QED  BY <2>1, <2>4, <2>6, <2>7 DEF RunInv, Covers
<1>. QED
  BY <1>1, <1>3, <1>4, <1>5, <1>6, <1>7, <1>8, <1>9, <1>10, OtherSteps DEF FailSnapshot

\* All three, of every reachable state of such a server.
LEMMA RecoveryInvariant ==
    ASSUME Retain > 0, ~ ClockStepsBack
    PROVE  Spec => [](Typed /\ SnapInv /\ RunInv)
<1>1. Init => Typed /\ SnapInv /\ RunInv
  <2>1. Init => SnapInv  BY DEF Init, SnapInv
  <2>2. Init => RunInv  BY DEF Init, RunInv, Successes
  <2>. QED  BY <2>1, <2>2, TypedInit
<1>2. Typed /\ SnapInv /\ RunInv /\ [Next]_vars => (Typed /\ SnapInv /\ RunInv)'
  BY TypedStep, SnapStep, RunStep
<1>. QED  BY <1>1, <1>2, PTL DEF Spec

-----------------------------------------------------------------------------
(* What follows. *)

\* A server that keeps a snapshot and whose clock is not set back can always
\* be restored to what any recorded success had.
THEOREM RecoveryPointIsKept ==
    ASSUME Retain > 0, ~ ClockStepsBack
    PROVE  Spec => []RecoveryPointKept
<1>1. Typed /\ RunInv => RecoveryPointKept
  BY DEF Typed, TypeOK, RunInv, RecoveryPointKept, Covers, Restored, IntegrityOk
<1>. QED  BY <1>1, RecoveryInvariant, PTL

\* The file of a recorded success is, while it exists, the whole snapshot that
\* run took.
THEOREM RecordedFilesDoRestore ==
    ASSUME Retain > 0, ~ ClockStepsBack
    PROVE  Spec => []RecordedFilesRestore
<1>1. Typed /\ RunInv => RecordedFilesRestore
  BY DEF Typed, TypeOK, RunInv, RecordedFilesRestore, Covers, Restored, IntegrityOk
<1>. QED  BY <1>1, RecoveryInvariant, PTL

\* Rotation deletes no snapshot while it keeps one of an earlier cycle.
THEOREM RotationKeepsTheNewest ==
    ASSUME Retain > 0, ~ ClockStepsBack
    PROVE  Spec => RotationKeepsNewest
<1>1. ASSUME Typed, SnapInv, [Next]_vars
      PROVE  \A gone \in DOMAIN files \ DOMAIN files', kept \in DOMAIN files' :
                files[gone].cycle < files[kept].cycle
  <2>. USE <1>1
  <2>1. CASE RemoveSnapshot
    <3>1. PICK name \in cycle.doomed :
             /\ \A other \in cycle.doomed : name <= other
             /\ files' = Restrict(files, DOMAIN files \ {name})
      BY <2>1 DEF RemoveSnapshot
    <3>2. DOMAIN files' = DOMAIN files \ {name} /\ pc = "remove"
      BY <2>1, <3>1 DEF RemoveSnapshot, Restrict
    <3>3. \A t \in DOMAIN files : t \in Nat  BY DEF Typed, TypeOK, Times
    <3>4. ASSUME NEW kept \in DOMAIN files', name \in DOMAIN files
          PROVE  files[name].cycle < files[kept].cycle
      <4>1. kept \in DOMAIN files /\ kept # name  BY <3>2
      <4>2. name < kept
        BY <3>1, <3>2, <3>3, <3>4, <4>1 DEF SnapInv
      <4>. QED  BY <3>4, <4>1, <4>2 DEF SnapInv
    <3>. QED  BY <3>2, <3>4
  <2>2. CASE OpenSnapshot \/ SpillPages \/ CloseSnapshot \/ FailSnapshot
    BY <2>2, FileWritten
       DEF OpenSnapshot, SpillPages, CloseSnapshot, FailSnapshot, CompleteFile
  <2>3. CASE StartCycle \/ ListSnapshots \/ FailRotate
    BY <2>3 DEF StartCycle, ListSnapshots, FailRotate
  <2>. QED  BY <2>1, <2>2, <2>3, OtherSteps
<1>. QED  BY <1>1, RecoveryInvariant, PTL DEF Spec, RotationKeepsNewest

\* While it is there, the file a cycle writes is its own, and complete once
\* VACUUM INTO has returned.
OwnInv ==
    /\ pc = "vacuum" => files[cycle.started].cycle = cycle.number
    /\ pc # "idle" /\ cycle.stored /\ cycle.started \in DOMAIN files =>
          /\ files[cycle.started].content = "all"
          /\ files[cycle.started].cycle = cycle.number

\* Every step keeps it, also when the clock is set back or none is retained.
LEMMA OwnStep == ASSUME Typed, OwnInv, [Next]_vars PROVE OwnInv'
<1>1. CASE StartCycle
  <2>1. pc' = "snapshot" /\ cycle'.stored = FALSE  BY <1>1 DEF StartCycle, NewCycle
  <2>. QED  BY <2>1 DEF OwnInv
<1>2. CASE OpenSnapshot \/ SpillPages
  <2>1. UNCHANGED cycle /\ ~ cycle.stored
    BY <1>2 DEF OpenSnapshot, SpillPages, Typed
  <2>2. files'[cycle.started].cycle = cycle.number
    BY <1>2 DEF OpenSnapshot, SpillPages, WithFile
  <2>. QED  BY <2>1, <2>2 DEF OwnInv
<1>3. CASE CloseSnapshot
  <2>1. cycle'.started = cycle.started /\ cycle'.number = cycle.number /\ pc' = "rotate"
    BY <1>3 DEF CloseSnapshot, Typed, TypeOK
  <2>2. /\ files'[cycle.started].content = "all"
        /\ files'[cycle.started].cycle = cycle.number
    BY <1>3 DEF CloseSnapshot, CompleteFile, WithFile
  <2>. QED  BY <2>1, <2>2 DEF OwnInv
<1>4. CASE FailSnapshot
  <2>1. pc' = "record" /\ cycle'.stored = FALSE
    BY <1>4 DEF FailSnapshot, Typed, TypeOK
  <2>. QED  BY <2>1 DEF OwnInv
<1>5. CASE ListSnapshots \/ FailRotate
  <2>1. /\ cycle'.started = cycle.started /\ cycle'.number = cycle.number
        /\ cycle'.stored = cycle.stored /\ UNCHANGED files
        /\ pc # "idle" /\ pc' \in {"remove", "record"}
    BY <1>5 DEF ListSnapshots, AfterRemoving, FailRotate, Typed, TypeOK
  <2>. QED  BY <2>1 DEF OwnInv
<1>6. CASE RemoveSnapshot
  <2>1. PICK name \in cycle.doomed : files' = Restrict(files, DOMAIN files \ {name})
    BY <1>6 DEF RemoveSnapshot
  <2>2. /\ DOMAIN files' = DOMAIN files \ {name}
        /\ \A t \in DOMAIN files' : files'[t] = files[t]
    BY <2>1 DEF Restrict
  <2>3. /\ cycle'.started = cycle.started /\ cycle'.number = cycle.number
        /\ cycle'.stored = cycle.stored
        /\ pc # "idle" /\ pc' \in {"remove", "record"}
    BY <1>6 DEF RemoveSnapshot, AfterRemoving, Typed, TypeOK
  <2>. QED  BY <2>2, <2>3 DEF OwnInv
<1>7. CASE UNCHANGED <<files, cycle>> /\ pc' \in {pc, "idle"}
  BY <1>7 DEF OwnInv
<1>. QED
  <2>1. CASE Poll
    BY <1>7, <2>1 DEF Poll, ReadLastRun, ReadLastSuccess, CountSnapshots, EndPoll
  <2>2. CASE Record \/ FailRecord
    BY <1>7, <2>2 DEF Record, FailRecord, EndCycle
  <2>3. CASE BeginWrite \/ EndWrite \/ PassTime \/ Crash \/ UNCHANGED vars
    BY <1>7, <2>3 DEF BeginWrite, EndWrite, PassTime, Crash, vars
  <2>4. CASE Boot \/ Tick
    BY <1>1, <2>4 DEF Boot, Tick
  <2>. QED
    BY <1>2, <1>3, <1>4, <1>5, <1>6, <2>1, <2>2, <2>3, <2>4 DEF Next, Cycle

\* The only step that writes a row is the INSERT.
LEMMA OnlyRecordAddsRows ==
    ASSUME Typed, [Next]_vars, Len(runs') > Len(runs) PROVE Record
<1>1. CASE ~ Record
  <2>1. UNCHANGED runs
    BY <1>1 DEF Next, Boot, Tick, StartCycle, Cycle, OpenSnapshot, SpillPages, CloseSnapshot,
       FailSnapshot, ListSnapshots, RemoveSnapshot, FailRotate, FailRecord, Poll,
       ReadLastRun, ReadLastSuccess, CountSnapshots, EndPoll, BeginWrite, EndWrite,
       PassTime, Crash, vars
  <2>2. Len(runs) \in Nat  BY DEF Typed, TypeOK
  <2>. QED  BY <2>1, <2>2
<1>. QED  BY <1>1

\* The row of a cycle tells what its snapshot and its rotation came to: a
\* completed rotation is a success, one that was begun and not completed a
\* failure with a path. The file at the path is this cycle's, complete, and
\* there, unless none is retained or the clock is set back.
THEOREM RowsDoTellTheTruth == Spec => RowsAreTrue
<1>. DEFINE Told ==
         Len(runs') > Len(runs) =>
            LET row == Last(runs')
            IN  /\ row.status = "success" <=> cycle.rotated
                /\ row.path <=> cycle.stored
                /\ row.status = "failed" /\ row.path <=> cycle.stored /\ ~ cycle.rotated
                /\ row.path =>
                      IF row.started \in DOMAIN files
                      THEN /\ files[row.started].content = "all"
                           /\ files[row.started].cycle = row.number
                      ELSE Retain = 0 \/ ClockStepsBack
<1>1. ASSUME Typed, OwnInv, [Next]_vars,
             Retain > 0 /\ ~ ClockStepsBack => SnapInv
      PROVE  Told
  <2>. SUFFICES ASSUME Len(runs') > Len(runs) PROVE Told
    OBVIOUS
  <2>1. Record  BY <1>1, OnlyRecordAddsRows
  <2>2. /\ Last(runs') = Row
        /\ Row.status \in {"success", "failed"}
        /\ Row.status = "success" <=> cycle.rotated
        /\ Row.path <=> cycle.stored
        /\ Row.started = cycle.started /\ Row.number = cycle.number
    BY <1>1, <2>1, RecordedRow
  <2>3. pc = "record"  BY <2>1 DEF Record
  <2>4. Row.status = "failed" /\ Row.path <=> cycle.stored /\ ~ cycle.rotated
    BY <2>2
  <2>5. cycle.stored /\ cycle.started \in DOMAIN files =>
           /\ files[cycle.started].content = "all"
           /\ files[cycle.started].cycle = cycle.number
    BY <1>1, <2>3 DEF OwnInv
  <2>6. cycle.stored /\ cycle.started \notin DOMAIN files => Retain = 0 \/ ClockStepsBack
    <3>1. SUFFICES ASSUME cycle.stored, cycle.started \notin DOMAIN files,
                          Retain # 0, ~ ClockStepsBack
                   PROVE  FALSE
      OBVIOUS
    <3>2. Retain > 0  BY <3>1
    <3>. QED  BY <1>1, <2>3, <3>1, <3>2 DEF SnapInv
  <2>. QED  BY <2>2, <2>4, <2>5, <2>6
<1>2. Init => OwnInv  BY DEF Init, NewCycle, OwnInv
<1>3. Typed /\ OwnInv /\ [Next]_vars => OwnInv'  BY OwnStep
<1>4. CASE Retain > 0 /\ ~ ClockStepsBack
  <2>1. Spec => []SnapInv  BY <1>4, RecoveryInvariant, PTL
  <2>2. Typed /\ OwnInv /\ SnapInv /\ [Next]_vars => Told  BY <1>1
  <2>. HIDE DEF Told
  <2>3. Spec => [][Told]_vars
    BY <1>2, <1>3, <2>1, <2>2, TypedInit, TypedStep, PTL DEF Spec
  <2>. QED  BY <2>3 DEF RowsAreTrue, Told
<1>5. CASE ~ (Retain > 0 /\ ~ ClockStepsBack)
  <2>1. Typed /\ OwnInv /\ [Next]_vars => Told  BY <1>1, <1>5
  <2>. HIDE DEF Told
  <2>2. Spec => [][Told]_vars
    BY <1>2, <1>3, <2>1, TypedInit, TypedStep, PTL DEF Spec
  <2>. QED  BY <2>2 DEF RowsAreTrue, Told
<1>. QED  BY <1>4, <1>5

-----------------------------------------------------------------------------
(* The status. *)

\* Every step keeps what a status request has read in step.
LEMMA PollStep ==
    ASSUME Typed, SnapInv, RunInv, PollInv, Retain > 0, ~ ClockStepsBack, [Next]_vars
    PROVE  PollInv'
<1>0. /\ Len(runs) \in Nat /\ poll.last \in Nat /\ poll.success \in Nat
      /\ DOMAIN files \in SUBSET Times
      /\ DOMAIN runs = 1 .. Len(runs)
  BY DEF Typed, TypeOK
<1>1. CASE UNCHANGED <<runs, poll>>
  BY <1>1 DEF PollInv, Successes
<1>2. CASE Record
  <2>1. UNCHANGED poll  BY <1>2 DEF Record
  <2>2. /\ Successes \subseteq Successes'
        /\ \A i \in Successes' : i \in Successes \/ i = Len(runs) + 1
        /\ Len(runs') = Len(runs) + 1
    BY <1>2, RecordedRow DEF Successes
  <2>. QED  BY <1>0, <2>1, <2>2 DEF PollInv
<1>3. CASE ReadLastRun
  <2>1. poll' = [at |-> "success", last |-> Len(runs), success |-> 0, count |-> 0]
    BY <1>3 DEF ReadLastRun, NoPoll
  <2>2. UNCHANGED runs  BY <1>3 DEF ReadLastRun
  <2>. QED  BY <1>0, <2>1, <2>2 DEF PollInv
<1>4. CASE ReadLastSuccess
  <2>1. /\ poll'.at = "count" /\ poll'.last = poll.last /\ poll'.success = LastSuccess
        /\ UNCHANGED runs
    BY <1>4 DEF ReadLastSuccess, Typed, TypeOK
  <2>2. Successes' = Successes  BY <2>1 DEF Successes
  <2>. QED  BY <2>1, <2>2, LastSuccessIs DEF PollInv
<1>5. CASE CountSnapshots
  <2>1. /\ poll.at = "count" /\ poll'.at = "answered" /\ poll'.last = poll.last
        /\ poll'.success = poll.success /\ poll'.count = Cardinality(DOMAIN files)
        /\ UNCHANGED runs
    BY <1>5 DEF CountSnapshots, Typed, TypeOK
  <2>2. Successes' = Successes  BY <2>1 DEF Successes
  <2>3. poll.success # 0 => Cardinality(DOMAIN files) > 0
    <3>1. poll.success # 0 => DOMAIN files # {}
      BY <2>1 DEF PollInv, RunInv
    <3>. QED  BY <1>0, <3>1, NamesAreFinite
  <2>. QED  BY <2>1, <2>2, <2>3 DEF PollInv
<1>6. CASE poll' = NoPoll /\ UNCHANGED runs
  BY <1>0, <1>6 DEF NoPoll, PollInv
<1>. QED
  <2>1. CASE Poll  BY <1>3, <1>4, <1>5, <1>6, <2>1 DEF Poll, EndPoll
  <2>2. CASE Crash  BY <1>6, <2>2 DEF Crash
  <2>3. CASE Boot \/ Tick  BY <1>1, <2>3 DEF Boot, Tick, StartCycle
  <2>4. CASE Cycle
    BY <1>1, <1>2, <2>4 DEF Cycle, OpenSnapshot, SpillPages, CloseSnapshot, FailSnapshot,
       ListSnapshots, RemoveSnapshot, FailRotate, FailRecord
  <2>5. CASE BeginWrite \/ EndWrite \/ PassTime \/ UNCHANGED vars
    BY <1>1, <2>5 DEF BeginWrite, EndWrite, PassTime, vars
  <2>. QED  BY <2>1, <2>2, <2>3, <2>4, <2>5 DEF Next

\* However many cycles end between the reads of a status answer, it shows the
\* last success of the runs it has seen, and never one with nothing retained.
THEOREM StatusStaysConsistent ==
    ASSUME Retain > 0, ~ ClockStepsBack
    PROVE  Spec => []StatusIsConsistent
<1>1. Init => PollInv  BY DEF Init, PollInv, NoPoll
<1>2. Typed /\ SnapInv /\ RunInv /\ PollInv /\ [Next]_vars => PollInv'  BY PollStep
<1>3. PollInv => StatusIsConsistent  BY DEF PollInv, StatusIsConsistent
<1>. QED  BY <1>1, <1>2, <1>3, RecoveryInvariant, PTL DEF Spec

\* The file of a run recorded as a success exists when its row is written, if
\* the clock is never set back: only then can rotation take the new file for
\* an old one.
THEOREM SuccessesHaveTheirFiles ==
    ASSUME Retain > 0, ~ ClockStepsBack
    PROVE  Spec => SuccessHasFile
<1>1. ASSUME Typed, SnapInv, [Next]_vars
      PROVE  Len(runs') > Len(runs) /\ Last(runs').status = "success"
                => Last(runs').started \in DOMAIN files
  <2>. SUFFICES ASSUME Len(runs') > Len(runs), Last(runs').status = "success"
                PROVE  Last(runs').started \in DOMAIN files
    OBVIOUS
  <2>1. Record  BY <1>1, OnlyRecordAddsRows
  <2>2. Last(runs').started = cycle.started /\ cycle.stored
    BY <1>1, <2>1, RecordedRow
  <2>. QED  BY <1>1, <2>1, <2>2 DEF Record, SnapInv
<1>. QED  BY <1>1, RecoveryInvariant, PTL DEF Spec, SuccessHasFile

-----------------------------------------------------------------------------
(* The number of snapshots. *)

\* Without the names Rotate is about to delete, and after a rotation that went
\* through, the directory holds no more than are to be kept.
BoundInv ==
    /\ pc = "remove" => Cardinality(DOMAIN files \ cycle.doomed) <= Retain
    /\ pc = "record" /\ cycle.rotated => Cardinality(DOMAIN files) <= Retain

\* Every step keeps it, also when the clock is set back or none is to be kept.
LEMMA BoundStep == ASSUME Typed, BoundInv, [Next]_vars PROVE BoundInv'
<1>1. CASE StartCycle
  BY <1>1 DEF StartCycle, BoundInv
<1>2. CASE OpenSnapshot \/ SpillPages \/ CloseSnapshot
  BY <1>2 DEF OpenSnapshot, SpillPages, CloseSnapshot, BoundInv, Typed
<1>3. CASE FailSnapshot \/ FailRotate
  <2>1. pc' = "record" /\ cycle'.rotated = FALSE
    BY <1>3 DEF FailSnapshot, FailRotate, Typed, TypeOK
  <2>. QED  BY <2>1 DEF BoundInv
<1>4. CASE ListSnapshots
  <2>1. /\ cycle'.doomed = Excess(DOMAIN files) /\ files' = files
        /\ pc' = AfterRemoving(Excess(DOMAIN files))
    BY <1>4 DEF ListSnapshots, Typed, TypeOK
  <2>2. Cardinality(DOMAIN files \ Excess(DOMAIN files)) <= Retain
    BY KeptAreFew DEF Typed, TypeOK
  <2>3. pc' = "record" => DOMAIN files \ Excess(DOMAIN files) = DOMAIN files
    BY <2>1 DEF AfterRemoving
  <2>. QED  BY <2>1, <2>2, <2>3 DEF BoundInv
<1>5. CASE RemoveSnapshot
  <2>1. PICK name \in cycle.doomed :
           /\ files' = Restrict(files, DOMAIN files \ {name})
           /\ cycle' = [cycle EXCEPT !.doomed = cycle.doomed \ {name},
                                     !.rotated = (cycle.doomed \ {name} = {})]
           /\ pc' = AfterRemoving(cycle.doomed \ {name})
    BY <1>5 DEF RemoveSnapshot
  <2>2. DOMAIN files' = DOMAIN files \ {name} /\ cycle'.doomed = cycle.doomed \ {name}
    BY <2>1 DEF Restrict, Typed, TypeOK
  <2>3. DOMAIN files' \ cycle'.doomed = DOMAIN files \ cycle.doomed
    BY <2>1, <2>2
  <2>4. Cardinality(DOMAIN files' \ cycle'.doomed) <= Retain
    BY <1>5, <2>3 DEF RemoveSnapshot, BoundInv
  <2>5. pc' = "record" => DOMAIN files' \ cycle'.doomed = DOMAIN files'
    BY <2>1, <2>2 DEF AfterRemoving
  <2>. QED  BY <2>4, <2>5 DEF BoundInv
<1>6. CASE UNCHANGED <<files, cycle>> /\ pc' \in {pc, "idle"}
  BY <1>6 DEF BoundInv
<1>. QED
  <2>1. CASE Poll
    BY <1>6, <2>1 DEF Poll, ReadLastRun, ReadLastSuccess, CountSnapshots, EndPoll
  <2>2. CASE Record \/ FailRecord
    BY <1>6, <2>2 DEF Record, FailRecord, EndCycle
  <2>3. CASE BeginWrite \/ EndWrite \/ PassTime \/ Crash \/ UNCHANGED vars
    BY <1>6, <2>3 DEF BeginWrite, EndWrite, PassTime, Crash, vars
  <2>4. CASE Boot \/ Tick
    BY <1>1, <2>4 DEF Boot, Tick
  <2>. QED  BY <1>2, <1>3, <1>4, <1>5, <2>1, <2>2, <2>3, <2>4 DEF Next, Cycle

\* A run recorded as a success leaves no more files than are to be kept, those
\* of failed and interrupted runs included, whatever the clock did and however
\* many are to be kept.
THEOREM RotationBoundsTheFiles == Spec => RotationBoundsFiles
<1>1. Init => BoundInv  BY DEF Init, BoundInv
<1>2. Typed /\ BoundInv /\ [Next]_vars => BoundInv'  BY BoundStep
<1>3. ASSUME Typed, BoundInv, [Next]_vars
      PROVE  Len(runs') > Len(runs) /\ Last(runs').status = "success"
                => Cardinality(DOMAIN files') <= Retain
  <2>. SUFFICES ASSUME Len(runs') > Len(runs), Last(runs').status = "success"
                PROVE  Cardinality(DOMAIN files') <= Retain
    OBVIOUS
  <2>1. Record  BY <1>3, OnlyRecordAddsRows
  <2>2. files' = files /\ pc = "record"  BY <2>1 DEF Record
  <2>3. cycle.rotated  BY <1>3, <2>1, RecordedRow
  <2>. QED  BY <1>3, <2>2, <2>3 DEF BoundInv
<1>. QED
  BY <1>1, <1>2, <1>3, TypedInit, TypedStep, PTL DEF Spec, RotationBoundsFiles
=============================================================================
