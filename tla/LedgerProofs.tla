---------------------------- MODULE LedgerProofs ----------------------------
(***************************************************************************)
(* Ledger implements AbstractLedger, whatever transactions interleave, fail*)
(* or die. The argument: TxInv says what a transaction has established at  *)
(* each statement. Before its first write that is about its own snapshot,  *)
(* which nobody changes; the first write needs the snapshot to be current, *)
(* so it then holds of the committed database, which nobody else can       *)
(* change until this writer is done.                                       *)
(***************************************************************************)
EXTENDS Ledger, BalanceProofs

Inv == TypeOK /\ TxInv

\* Nothing of process q has changed.
Same(q) == view'[q] = view[q] /\ req'[q] = req[q] /\ pc'[q] = pc[q]

-----------------------------------------------------------------------------
(* Sequences and stored entries. *)

\* The prefixes of a sequence of lines, as the loop of inserts builds them.
LEMMA LinePrefixes ==
    ASSUME NEW lines \in Seq(Line)
    PROVE  /\ SubSeq(lines, 1, 0) = << >>
           /\ SubSeq(lines, 1, Len(lines)) = lines
           /\ \A k \in 0 .. Len(lines) : /\ SubSeq(lines, 1, k) \in Seq(Line)
                                         /\ Len(SubSeq(lines, 1, k)) = k
           /\ \A k \in 0 .. Len(lines) - 1 :
                /\ lines[k + 1] \in Line
                /\ Append(SubSeq(lines, 1, k), lines[k + 1])
                       = SubSeq(lines, 1, k + 1)
<1>1. SubSeq(lines, 1, 0) = << >>
  OBVIOUS
<1>2. SubSeq(lines, 1, Len(lines)) = lines
  OBVIOUS
<1>3. \A k \in 0 .. Len(lines) : /\ SubSeq(lines, 1, k) \in Seq(Line)
                                 /\ Len(SubSeq(lines, 1, k)) = k
  OBVIOUS
<1>4. ASSUME NEW k \in 0 .. Len(lines) - 1
      PROVE  /\ lines[k + 1] \in Line
             /\ Append(SubSeq(lines, 1, k), lines[k + 1]) = SubSeq(lines, 1, k + 1)
  OBVIOUS
<1> QED
  BY <1>1, <1>2, <1>3, <1>4

\* Adding a line to the last entry is appending the entry with that line.
LEMMA WithLineOfAppend ==
    ASSUME NEW journal \in Seq(Entry), NEW entry \in Entry, NEW line \in Line
    PROVE  WithLine(Append(journal, entry), line)
              = Append(journal, [entry EXCEPT !.lines = Append(entry.lines, line)])
<1>1. /\ Append(journal, entry) \in Seq(Entry)
      /\ Len(Append(journal, entry)) = Len(journal) + 1
      /\ Append(journal, entry)[Len(journal) + 1] = entry
  OBVIOUS
<1>2. Last(Append(journal, entry)) = entry
  BY <1>1 DEF Last
<1>3. Front(Append(journal, entry)) = journal
  BY DEF Front
<1> QED
  BY <1>2, <1>3 DEF WithLine

-----------------------------------------------------------------------------
(* What a step leaves alone. *)

\* A process that has not moved keeps its invariant, provided that nobody
\* commits under a writer.
LEMMA OthersKeep ==
    ASSUME NEW q \in Procs, StatementInv(q), Same(q),
           pc[q] \in AfterFirstWrite => db' = db
    PROVE  StatementInv(q)'
<1>1. CASE pc[q] \in AfterFirstWrite
  <2>1. db' = db /\ view'[q] = view[q] /\ req'[q] = req[q] /\ pc'[q] = pc[q]
    BY <1>1 DEF Same
  <2>2. WrittenLock(q)' <=> WrittenLock(q)
    BY <2>1 DEF WrittenLock
  <2>3. WrittenEntry(q)' <=> WrittenEntry(q)
    BY <2>1 DEF WrittenEntry, EntryOf, Cleared, Admitted
  <2>4. Cleared(q, view[q])' <=> Cleared(q, view[q])
    BY <2>1 DEF Cleared, Admitted
  <2>5. Admitted(q, view[q])' <=> Admitted(q, view[q])
    BY <2>1 DEF Admitted
  <2> QED
    BY <2>1, <2>2, <2>3, <2>4, <2>5 DEF StatementInv
<1>2. CASE pc[q] \notin AfterFirstWrite
  <2>1. view'[q] = view[q] /\ req'[q] = req[q] /\ pc'[q] = pc[q]
    BY DEF Same
  <2>2. Cleared(q, view[q])' <=> Cleared(q, view[q])
    BY <2>1 DEF Cleared, Admitted
  <2>3. Admitted(q, view[q])' <=> Admitted(q, view[q])
    BY <2>1 DEF Admitted
  <2> QED
    BY <1>2, <2>1, <2>2, <2>3 DEF StatementInv
<1> QED
  BY <1>1, <1>2

\* A step of p keeps TxInv if it keeps it for p and, unless p is the writer,
\* commits nothing.
LEMMA StepOfOne ==
    ASSUME TxInv, NEW p \in Procs,
           \A q \in Procs \ {p} : Same(q) /\ (writer' = q <=> writer = q),
           db' = db \/ writer = p,
           writer' = p <=> pc'[p] \in AfterFirstWrite,
           StatementInv(p)'
    PROVE  TxInv'
<1> SUFFICES ASSUME NEW q \in Procs
             PROVE  /\ writer' = q <=> pc'[q] \in AfterFirstWrite
                    /\ StatementInv(q)'
  BY DEF TxInv
<1>1. CASE q = p
  BY <1>1
<1>2. CASE q # p
  <2>1. Same(q) /\ (writer' = q <=> writer = q)
    BY <1>2
  <2>2. StatementInv(q) /\ (writer = q <=> pc[q] \in AfterFirstWrite)
    BY DEF TxInv
  <2>3. pc[q] \in AfterFirstWrite => db' = db
    BY <1>2, <2>2
  <2> QED
    BY <2>1, <2>2, <2>3, OthersKeep DEF Same
<1> QED
  BY <1>1, <1>2

\* The facts about p that every step starts from.
LEMMA StartingPoint ==
    ASSUME Inv, NEW p \in Procs
    PROVE  /\ TypeOK /\ TxInv
           /\ writer = p <=> pc[p] \in AfterFirstWrite
           /\ StatementInv(p)
           /\ view[p] \in Database
           /\ db.journal \in Seq(Entry) /\ db.locked \in LockDates
           /\ db.audit \in Seq(AuditRow)
           /\ pc[p] # "idle" => /\ req[p] \in Request
                                /\ req[p] # NoRequest
<1>1. /\ TypeOK /\ TxInv
      /\ writer = p <=> pc[p] \in AfterFirstWrite
      /\ StatementInv(p)
  BY DEF Inv, TxInv
<1>2. /\ view[p] \in Database
      /\ db.journal \in Seq(Entry) /\ db.locked \in LockDates
      /\ db.audit \in Seq(AuditRow)
  BY <1>1 DEF TypeOK, Database
<1>3. pc[p] # "idle" => req[p] \in Request /\ req[p] # NoRequest
  BY <1>1 DEF TypeOK, StatementInv
<1> QED
  BY <1>1, <1>2, <1>3

\* A request differs from the absence of one.
LEMMA RequestIsOne == NoRequest \notin Request
BY DEF NoRequest, Request

-----------------------------------------------------------------------------
(* The end of a transaction. *)

\* Rolling back, failing and committing leave p idle and the rest as it was.
LEMMA FinishKeepsInv ==
    ASSUME Inv, NEW p \in Procs, NEW answer \in Reply, Finish(p, answer),
           db' \in Database, db' = db \/ writer = p
    PROVE  Inv'
<1> USE StartingPoint
<1>1. pool \in Seq(BOOLEAN) /\ Len(pool) <= MaxIdle /\ fk \in [Procs -> BOOLEAN]
  BY DEF TypeOK
<1>2. pool' \in Seq(BOOLEAN) /\ Len(pool') <= MaxIdle /\ fk' \in [Procs -> BOOLEAN]
  <2>1. fk[p] \in BOOLEAN
    BY <1>1
  <2>2. fk' = [fk EXCEPT ![p] = FALSE]
    BY DEF Finish, ReturnConnection
  <2>3. fk' \in [Procs -> BOOLEAN]
    BY <1>1, <2>2
  <2>4. CASE HoldsConnection(p) /\ Len(pool) < MaxIdle
    <3>1. pool' = Append(pool, fk[p])
      BY <2>4 DEF Finish, ReturnConnection
    <3>2. Append(pool, fk[p]) \in Seq(BOOLEAN) /\ Len(Append(pool, fk[p])) = Len(pool) + 1
      BY <1>1, <2>1, AppendedElements
    <3> QED
      BY <1>1, <2>3, <2>4, <3>1, <3>2, BoundsAssumption
  <2>5. CASE ~ (HoldsConnection(p) /\ Len(pool) < MaxIdle)
    BY <1>1, <2>3, <2>5 DEF Finish, ReturnConnection
  <2> QED
    BY <2>4, <2>5
<1>3. EmptyDB \in Database
  BY DEF EmptyDB, Database, LockDates
<1>4. TypeOK'
  BY <1>2, <1>3 DEF TypeOK, Finish, Statements
<1>5. pc'[p] = "idle" /\ req'[p] = NoRequest
  BY DEF TypeOK, Finish
<1>6. StatementInv(p)'
  BY <1>5 DEF StatementInv, AfterFirstWrite
<1>7. \A q \in Procs \ {p} : Same(q) /\ (writer' = q <=> writer = q)
  BY ProcsAssumption DEF TypeOK, Finish, Releases, Same
<1>8. writer' # p
  BY ProcsAssumption DEF Finish, Releases
<1>9. TxInv'
  BY <1>5, <1>6, <1>7, <1>8, StepOfOne DEF AfterFirstWrite
<1> QED
  BY <1>4, <1>9 DEF Inv

\* An error path rolls its transaction back and leaves the others as they are.
LEMMA RollbackKeepsInv ==
    ASSUME Inv, NEW p \in Procs, NEW status \in {"refused", "failed"},
           Rollback(p, status)
    PROVE  Inv'
<1>1. [status |-> status, id |-> 0] \in Reply
  BY DEF Reply
<1>2. db' = db /\ db' \in Database
  BY DEF Rollback, Inv, TypeOK
<1> QED
  BY <1>1, <1>2, FinishKeepsInv DEF Rollback

-----------------------------------------------------------------------------
(* Every action keeps the invariant. *)

\* The initial state satisfies the inductive invariant.
LEMMA InitInv == Init => Inv
<1> SUFFICES ASSUME Init PROVE Inv
  OBVIOUS
<1>1. EmptyDB \in Database
  BY DEF EmptyDB, Database, LockDates
<1>2. pool \in Seq(BOOLEAN) /\ Len(pool) <= MaxIdle
  BY BoundsAssumption DEF Init
<1>3. TypeOK
  BY <1>1, <1>2 DEF Init, TypeOK, Statements, NoReply, Reply
<1>4. TxInv
  BY ProcsAssumption DEF Init, TxInv, StatementInv, AfterFirstWrite
<1> QED
  BY <1>3, <1>4 DEF Inv

\* A request that is what its kind says it is waits to begin.
LEMMA StartKeepsInv ==
    ASSUME Inv, NEW p \in Procs, NEW request \in Request, Start(p, request),
           request.kind = "post" =>
              /\ request.date \in Dates /\ request.lines \in Postings
              /\ request.reverses = NoOriginal /\ WellFormed(request.lines),
           request.kind = "reverse" => request.reverses # NoOriginal,
           request.kind = "lock" => request.date \in Dates
    PROVE  Inv'
<1>1. TypeOK'
  BY DEF Inv, TypeOK, Start, Goto, Statements, NoReply, Reply, poolVars
<1>2. pc'[p] = "begin" /\ req'[p] = request /\ pc[p] = "idle"
  BY DEF Inv, TypeOK, Start, Goto
<1>3. StatementInv(p)'
  BY <1>2, RequestIsOne DEF StatementInv, AfterFirstWrite
<1>4. /\ \A q \in Procs \ {p} : Same(q) /\ (writer' = q <=> writer = q)
      /\ db' = db
  BY DEF Inv, TypeOK, Start, Goto, Same
<1>5. writer' # p
  BY <1>2, StartingPoint DEF Start, AfterFirstWrite
<1>6. TxInv'
  BY <1>2, <1>3, <1>4, <1>5, StepOfOne DEF Inv, AfterFirstWrite
<1> QED
  BY <1>1, <1>6 DEF Inv

\* An arriving request touches nothing but its own process.
LEMMA ReceiveKeepsInv ==
    ASSUME Inv, NEW p \in Procs, Receive(p)
    PROVE  Inv'
<1>1. CASE StartPost(p)
  <2>1. PICK user \in Users, date \in Dates, lines \in Postings :
           /\ WellFormed(lines)
           /\ Start(p, [kind |-> "post", by |-> user, date |-> date,
                        lines |-> lines, reverses |-> NoOriginal])
    BY <1>1 DEF StartPost
  <2>2. [kind |-> "post", by |-> user, date |-> date,
         lines |-> lines, reverses |-> NoOriginal] \in Request
    BY PostingsAssumption DEF Request, LockDates, NoOriginal
  <2> QED
    BY <2>1, <2>2, StartKeepsInv
<1>2. CASE RefusePost(p)
  <2>1. TypeOK'
    BY <1>2 DEF Inv, TypeOK, RefusePost, txVars, poolVars, Reply
  <2>2. /\ \A q \in Procs : Same(q)
        /\ db' = db /\ writer' = writer
    BY <1>2 DEF RefusePost, txVars, Same
  <2>3. StatementInv(p)'
    BY <2>2, OthersKeep, StartingPoint
  <2>4. TxInv'
    BY <2>2, <2>3, StepOfOne, StartingPoint DEF Same
  <2> QED
    BY <2>1, <2>4 DEF Inv
<1>3. CASE StartReverse(p)
  <2>1. PICK user \in Users, id \in 1 .. MaxCommits :
           Start(p, [kind |-> "reverse", by |-> user, date |-> NoLock,
                     lines |-> << >>, reverses |-> id])
    BY <1>3 DEF StartReverse
  <2>2. id \in Nat /\ id # NoOriginal
    BY BoundsAssumption DEF NoOriginal
  <2>3. [kind |-> "reverse", by |-> user, date |-> NoLock,
         lines |-> << >>, reverses |-> id] \in Request
    BY <2>2 DEF Request, LockDates
  <2> QED
    BY <2>1, <2>2, <2>3, StartKeepsInv
<1>4. CASE StartLock(p)
  <2>1. PICK user \in Users, date \in Dates :
           Start(p, [kind |-> "lock", by |-> user, date |-> date,
                     lines |-> << >>, reverses |-> NoOriginal])
    BY <1>4 DEF StartLock
  <2>2. [kind |-> "lock", by |-> user, date |-> date,
         lines |-> << >>, reverses |-> NoOriginal] \in Request
    BY DEF Request, LockDates, NoOriginal
  <2> QED
    BY <2>1, <2>2, StartKeepsInv
<1> QED
  BY <1>1, <1>2, <1>3, <1>4 DEF Receive

\* A connection is taken; nothing has been read yet.
LEMMA BeginKeepsInv ==
    ASSUME Inv, NEW p \in Procs, Begin(p)
    PROVE  Inv'
<1>1. /\ pc[p] = "begin" /\ StatementInv(p) /\ writer # p
      /\ req[p] \in Request /\ req[p] # NoRequest
  BY StartingPoint DEF Begin, AfterFirstWrite
<1>2. /\ pool' \in Seq(BOOLEAN) /\ Len(pool') <= MaxIdle
      /\ fk' \in [Procs -> BOOLEAN]
  <2>1. pool \in Seq(BOOLEAN) /\ Len(pool) <= MaxIdle /\ fk \in [Procs -> BOOLEAN]
    BY DEF Inv, TypeOK
  <2>2. CASE pool = << >>
    BY <2>1, <2>2 DEF Begin, TakeConnection
  <2>3. CASE pool # << >>
    <3>1. Last(pool) \in BOOLEAN
      BY <2>1, <2>3 DEF Last
    <3>2. Front(pool) \in Seq(BOOLEAN) /\ Len(Front(pool)) <= Len(pool)
      BY <2>1, <2>3 DEF Front
    <3>3. fk' = [fk EXCEPT ![p] = Last(pool)] /\ pool' = Front(pool)
      BY <2>3 DEF Begin, TakeConnection
    <3>4. fk' \in [Procs -> BOOLEAN]
      BY <2>1, <3>1, <3>3
    <3>5. Len(pool') <= MaxIdle
      BY <2>1, <3>2, <3>3, BoundsAssumption
    <3> QED
      BY <3>2, <3>3, <3>4, <3>5
  <2> QED
    BY <2>2, <2>3
<1>3. /\ req[p].kind = "post" => pc' = [pc EXCEPT ![p] = "lock"]
      /\ req[p].kind = "reverse" => pc' = [pc EXCEPT ![p] = "original"]
      /\ req[p].kind = "lock" => pc' = [pc EXCEPT ![p] = "upsert"]
      /\ req[p].kind \in {"post", "reverse", "lock"}
  BY <1>1 DEF Begin, Goto, Request
<1>4. TypeOK'
  <2>1. pc' \in [Procs -> Statements]
    BY <1>3 DEF Inv, TypeOK, Statements
  <2> QED
    BY <1>2, <2>1 DEF Inv, TypeOK, Begin
<1>5. req'[p] = req[p] /\ view'[p] = view[p] /\ db' = db /\ writer' = writer
  BY DEF Begin
<1>6. /\ pc'[p] \in {"lock", "original", "upsert"}
      /\ pc'[p] = "lock" => req[p].kind = "post"
      /\ pc'[p] = "original" => req[p].kind = "reverse"
      /\ pc'[p] = "upsert" => req[p].kind = "lock"
  BY <1>3 DEF Inv, TypeOK
<1>7. StatementInv(p)'
  BY <1>1, <1>5, <1>6 DEF StatementInv, AfterFirstWrite
<1>8. \A q \in Procs \ {p} : Same(q)
  BY DEF Inv, TypeOK, Begin, Goto, Same
<1>9. TxInv'
  BY <1>1, <1>5, <1>6, <1>7, <1>8, StepOfOne DEF Inv, AfterFirstWrite
<1> QED
  BY <1>4, <1>9 DEF Inv

\* The lock check fixes the snapshot and establishes Admitted on it.
LEMMA CheckLockKeepsInv ==
    ASSUME Inv, NEW p \in Procs, CheckLock(p)
    PROVE  Inv'
<1>1. CASE Rollback(p, "refused")
  BY <1>1, RollbackKeepsInv
<1>2. CASE /\ ~ InLockedPeriod(req[p].date, db.locked)
           /\ view' = [view EXCEPT ![p] = db]
           /\ Goto(p, "accounts")
           /\ UNCHANGED <<db, req, reply, writer, poolVars>>
  <2>1. /\ pc[p] = "lock" /\ StatementInv(p) /\ writer # p
        /\ req[p] # NoRequest /\ req[p].kind = "post"
    BY StartingPoint DEF CheckLock, AfterFirstWrite, StatementInv
  <2>2. TypeOK'
    BY <1>2 DEF Inv, TypeOK, Goto, Statements, poolVars
  <2>3. pc'[p] = "accounts" /\ view'[p] = db /\ req'[p] = req[p]
    BY <1>2 DEF Inv, TypeOK, Goto
  <2>4. req[p].lines # << >>
    BY <2>1 DEF StatementInv, WellFormed
  <2>5. Admitted(p, view[p])'
    BY <1>2, <2>1, <2>3, <2>4 DEF Admitted
  <2>6. StatementInv(p)'
    BY <2>1, <2>3, <2>5 DEF StatementInv, AfterFirstWrite
  <2>7. \A q \in Procs \ {p} : Same(q)
    BY <1>2 DEF Inv, TypeOK, Goto, Same
  <2>8. TxInv'
    BY <1>2, <2>1, <2>3, <2>6, <2>7, StepOfOne DEF Inv, AfterFirstWrite
  <2> QED
    BY <2>2, <2>8 DEF Inv
<1> QED
  BY <1>1, <1>2 DEF CheckLock

\* The look-up of the accounts turns Admitted into Cleared.
LEMMA CheckAccountsKeepsInv ==
    ASSUME Inv, NEW p \in Procs, CheckAccounts(p)
    PROVE  Inv'
<1>1. CASE Rollback(p, "refused")
  BY <1>1, RollbackKeepsInv
<1>2. CASE /\ AcceptableAccounts(req[p].lines)
           /\ Goto(p, "insert")
           /\ UNCHANGED <<db, view, req, reply, writer, poolVars>>
  <2>1. /\ pc[p] = "accounts" /\ StatementInv(p) /\ writer # p
        /\ req[p] # NoRequest /\ req[p].kind = "post" /\ Admitted(p, view[p])
    BY StartingPoint DEF CheckAccounts, AfterFirstWrite, StatementInv
  <2>2. TypeOK'
    BY <1>2 DEF Inv, TypeOK, Goto, Statements, poolVars
  <2>3. pc'[p] = "insert" /\ view'[p] = view[p] /\ req'[p] = req[p]
    BY <1>2 DEF Inv, TypeOK, Goto
  <2>4. Cleared(p, view[p])'
    BY <1>2, <2>1, <2>3 DEF Cleared, Admitted
  <2>5. StatementInv(p)'
    BY <2>1, <2>3, <2>4 DEF StatementInv, AfterFirstWrite
  <2>6. \A q \in Procs \ {p} : Same(q)
    BY <1>2 DEF Inv, TypeOK, Goto, Same
  <2>7. TxInv'
    BY <1>2, <2>1, <2>3, <2>5, <2>6, StepOfOne DEF Inv, AfterFirstWrite
  <2> QED
    BY <2>2, <2>7 DEF Inv
<1> QED
  BY <1>1, <1>2 DEF CheckAccounts

\* Reading the original establishes Cleared for a reversal.
LEMMA ReadOriginalKeepsInv ==
    ASSUME Inv, NEW p \in Procs, ReadOriginal(p)
    PROVE  Inv'
<1> DEFINE id == req[p].reverses
           original == db.journal[id]
<1>1. CASE Rollback(p, "refused")
  BY <1>1, RollbackKeepsInv
<1>2. CASE /\ id \in DOMAIN db.journal /\ original.lines # << >>
           /\ view' = [view EXCEPT ![p] = db]
           /\ req' = [req EXCEPT ![p].date = original.date,
                                 ![p].lines = Swapped(original.lines)]
           /\ Goto(p, "insert")
           /\ UNCHANGED <<db, reply, writer, poolVars>>
  <2>1. /\ pc[p] = "original" /\ StatementInv(p) /\ writer # p
        /\ req[p] \in Request /\ req[p] # NoRequest /\ req[p].kind = "reverse"
        /\ id # NoOriginal
    BY StartingPoint DEF ReadOriginal, AfterFirstWrite, StatementInv
  <2>2. original \in Entry
    BY <1>2, StartingPoint
  <2>3. original.date \in Dates /\ original.lines \in Seq(Line)
    BY <2>2 DEF Entry
  <2>4. /\ Swapped(original.lines) \in Seq(Line)
        /\ Swapped(original.lines) # << >>
    BY <1>2, <2>3, SwappedType
  <2>5. /\ req'[p].kind = "reverse" /\ req'[p].by = req[p].by
        /\ req'[p].reverses = id /\ req'[p].date = original.date
        /\ req'[p].lines = Swapped(original.lines)
        /\ req'[p] \in Request
    BY <1>2, <2>1, <2>3, <2>4 DEF Inv, TypeOK, Request, LockDates
  <2>6. pc'[p] = "insert" /\ view'[p] = db
    BY <1>2 DEF Inv, TypeOK, Goto
  <2>7. TypeOK'
    <3>1. req' \in [Procs -> Request \cup {NoRequest}]
      BY <1>2, <2>5 DEF Inv, TypeOK
    <3> QED
      BY <1>2, <3>1 DEF Inv, TypeOK, Goto, Statements, poolVars
  <2>8. Cleared(p, view[p])'
    BY <1>2, <2>4, <2>5, <2>6 DEF Cleared, Admitted
  <2>9. StatementInv(p)'
    BY <2>1, <2>5, <2>6, <2>8, RequestIsOne DEF StatementInv, AfterFirstWrite
  <2>10. \A q \in Procs \ {p} : Same(q)
    BY <1>2 DEF Inv, TypeOK, Goto, Same
  <2>11. TxInv'
    BY <1>2, <2>1, <2>6, <2>9, <2>10, StepOfOne DEF Inv, AfterFirstWrite
  <2> QED
    BY <2>7, <2>11 DEF Inv
<1> QED
  BY <1>1, <1>2 DEF ReadOriginal

\* The entry a request writes is an entry.
LEMMA EntryOfType ==
    ASSUME NEW p \in Procs, req[p] \in Request, req[p].date \in Dates,
           NEW lines \in Seq(Line)
    PROVE  EntryOf(p, lines) \in Entry
BY DEF EntryOf, Entry, Request

\* What a cleared request writes is dated with an entry date.
LEMMA ClearedDate ==
    ASSUME Inv, NEW p \in Procs, pc[p] # "idle", NEW base \in Database,
           Cleared(p, base)
    PROVE  req[p].date \in Dates /\ req[p].lines \in Seq(Line)
<1>1. req[p] \in Request /\ req[p] # NoRequest /\ StatementInv(p)
  BY StartingPoint
<1>2. req[p].lines \in Seq(Line)
  BY <1>1 DEF Request
<1>3. CASE req[p].kind = "post"
  BY <1>1, <1>2, <1>3 DEF StatementInv
<1>4. CASE /\ req[p].reverses \in DOMAIN base.journal
           /\ req[p].date = base.journal[req[p].reverses].date
  <2>1. base.journal \in Seq(Entry)
    BY DEF Database
  <2>2. base.journal[req[p].reverses] \in Entry
    BY <1>4, <2>1
  <2> QED
    BY <1>2, <1>4, <2>2 DEF Entry
<1> QED
  BY <1>3, <1>4 DEF Cleared, Admitted

\* The first write: the snapshot is the committed database, so what was
\* established of the one holds of the other.
LEMMA InsertEntryKeepsInv ==
    ASSUME Inv, NEW p \in Procs, InsertEntry(p)
    PROVE  Inv'
<1> DEFINE empty == EntryOf(p, << >>)
<1>1. /\ pc[p] = "insert" /\ StatementInv(p) /\ writer = Nobody
      /\ req[p] \in Request /\ req[p] # NoRequest
      /\ Cleared(p, view[p]) /\ view[p] = db
  BY StartingPoint DEF InsertEntry, StatementInv, Fresh
<1>2. db \in Database /\ db.journal \in Seq(Entry)
  BY StartingPoint, <1>1
<1>3. Cleared(p, db)
  BY <1>1
<1>4. req[p].date \in Dates /\ req[p].lines \in Seq(Line)
  BY <1>1, <1>2, <1>3, ClearedDate
<1>5. empty \in Entry
  <2>1. << >> \in Seq(Line)
    OBVIOUS
  <2> QED
    BY <1>1, <1>4, <2>1, EntryOfType
<1>6. view' = [view EXCEPT ![p].journal = Append(view[p].journal, empty)]
  BY DEF InsertEntry, EntryOf
<1>7. /\ view'[p].journal = Append(db.journal, empty)
      /\ view'[p].locked = db.locked
      /\ view'[p].audit = db.audit
      /\ view'[p] \in Database
  <2>1. Append(db.journal, empty) \in Seq(Entry)
    BY <1>2, <1>5
  <2>2. view[p] \in Database /\ view \in [Procs -> Database]
    BY DEF Inv, TypeOK
  <2> HIDE DEF empty
  <2> QED
    BY <1>1, <1>6, <2>1, <2>2 DEF Database
<1>8. TypeOK'
  <2>1. view' \in [Procs -> Database]
    BY <1>6, <1>7 DEF Inv, TypeOK
  <2> QED
    BY <2>1 DEF Inv, TypeOK, InsertEntry, Goto, Statements, poolVars
<1>9. pc'[p] = "lines" /\ req' = req /\ db' = db /\ writer' = p
  BY DEF Inv, TypeOK, InsertEntry, Goto
<1>10. Cleared(p, db)'
  BY <1>3, <1>9 DEF Cleared, Admitted
<1>11. WrittenEntry(p)'
  <2>1. SubSeq(req[p].lines, 1, 0) = << >>
    BY <1>4, LinePrefixes
  <2>2. Len(req[p].lines) \in Nat /\ 0 < Len(req[p].lines)
    BY <1>3, <1>4 DEF Cleared, Admitted
  <2>3. EntryOf(p, SubSeq(req[p].lines, 1, 0))' = empty
    BY <1>9, <2>1 DEF EntryOf
  <2>4. \E k \in 0 .. Len(req'[p].lines) :
           /\ view'[p].journal =
                 Append(db'.journal, EntryOf(p, SubSeq(req[p].lines, 1, k))')
           /\ \A i \in 1 .. k : SatisfiesChecks(req'[p].lines[i])
           /\ pc'[p] = "lines" <=> k < Len(req'[p].lines)
    <3>1. 0 \in 0 .. Len(req'[p].lines)
      BY <1>9, <2>2
    <3> QED
      BY <1>7, <1>9, <2>2, <2>3, <3>1
  <2> QED
    BY <1>7, <1>9, <1>10, <2>4 DEF WrittenEntry, EntryOf
<1>12. req[p].kind # "lock"
  BY <1>3 DEF Cleared, Admitted
<1>13. StatementInv(p)'
  BY <1>1, <1>9, <1>11, <1>12 DEF StatementInv, AfterFirstWrite
<1>14. \A q \in Procs \ {p} : Same(q) /\ (writer' = q <=> writer = q)
  BY <1>1, ProcsAssumption DEF Inv, TypeOK, InsertEntry, Goto, Same
<1>15. TxInv'
  BY <1>9, <1>13, <1>14, StepOfOne DEF Inv, AfterFirstWrite
<1> QED
  BY <1>8, <1>15 DEF Inv

\* LockPeriod becomes the writer on the current database.
LEMMA UpsertLockKeepsInv ==
    ASSUME Inv, NEW p \in Procs, UpsertLock(p)
    PROVE  Inv'
<1>1. /\ pc[p] = "upsert" /\ StatementInv(p) /\ writer = Nobody
      /\ req[p] \in Request /\ req[p] # NoRequest
      /\ req[p].kind = "lock" /\ req[p].date \in Dates
  BY StartingPoint DEF UpsertLock, StatementInv
<1>2. view' = [view EXCEPT ![p] = [db EXCEPT !.locked = req[p].date]]
  BY DEF UpsertLock
<1>3. /\ view'[p].journal = db.journal
      /\ view'[p].locked = req[p].date
      /\ view'[p].audit = db.audit
      /\ view'[p] \in Database
  BY <1>1, <1>2 DEF Inv, TypeOK, Database, LockDates
<1>4. TypeOK'
  <2>1. view' \in [Procs -> Database]
    BY <1>2, <1>3 DEF Inv, TypeOK
  <2> QED
    BY <2>1 DEF Inv, TypeOK, UpsertLock, Goto, Statements, poolVars
<1>5. pc'[p] = "audit" /\ req' = req /\ db' = db /\ writer' = p
  BY DEF Inv, TypeOK, UpsertLock, Goto
<1>6. WrittenLock(p)'
  BY <1>3, <1>5 DEF WrittenLock
<1>7. StatementInv(p)'
  BY <1>1, <1>5, <1>6 DEF StatementInv, AfterFirstWrite
<1>8. \A q \in Procs \ {p} : Same(q) /\ (writer' = q <=> writer = q)
  BY <1>1, ProcsAssumption DEF Inv, TypeOK, UpsertLock, Goto, Same
<1>9. TxInv'
  BY <1>5, <1>7, <1>8, StepOfOne DEF Inv, AfterFirstWrite
<1> QED
  BY <1>4, <1>9 DEF Inv

\* An entry changed in its lines only is the entry of the other lines.
LEMMA EntryWithLines ==
    ASSUME NEW p, NEW old, NEW new
    PROVE  [EntryOf(p, old) EXCEPT !.lines = new] = EntryOf(p, new)
BY DEF EntryOf

\* The entry under construction, seen from the invariant.
LEMMA PendingEntry ==
    ASSUME Inv, NEW p \in Procs, pc[p] # "idle", WrittenEntry(p),
           NEW k \in 0 .. Len(req[p].lines),
           view[p].journal = Append(db.journal, EntryOf(p, SubSeq(req[p].lines, 1, k)))
    PROVE  /\ Pending(p) = EntryOf(p, SubSeq(req[p].lines, 1, k))
           /\ Len(Pending(p).lines) = k
           /\ EntryOf(p, SubSeq(req[p].lines, 1, k)) \in Entry
           /\ Len(view[p].journal) = Len(db.journal) + 1
<1>1. /\ db \in Database /\ db.journal \in Seq(Entry)
      /\ req[p] \in Request /\ Cleared(p, db)
  BY StartingPoint DEF Inv, TypeOK, WrittenEntry
<1>2. req[p].date \in Dates /\ req[p].lines \in Seq(Line)
  BY <1>1, ClearedDate
<1>3. /\ SubSeq(req[p].lines, 1, k) \in Seq(Line)
      /\ Len(SubSeq(req[p].lines, 1, k)) = k
  BY <1>2, LinePrefixes
<1>4. EntryOf(p, SubSeq(req[p].lines, 1, k)) \in Entry
  BY <1>1, <1>2, <1>3, EntryOfType
<1> DEFINE entry == EntryOf(p, SubSeq(req[p].lines, 1, k))
<1>5. entry.lines = SubSeq(req[p].lines, 1, k)
  BY DEF EntryOf
<1> HIDE DEF entry
<1>6. /\ view[p].journal = Append(db.journal, entry) /\ entry \in Entry
  BY <1>4 DEF entry
<1>7. Last(view[p].journal) = entry /\ Len(view[p].journal) = Len(db.journal) + 1
  BY <1>1, <1>6 DEF Last
<1> QED
  BY <1>3, <1>4, <1>5, <1>7 DEF Pending, entry

\* One more line is stored; the last one completes the entry.
LEMMA InsertLineKeepsInv ==
    ASSUME Inv, NEW p \in Procs, InsertLine(p)
    PROVE  Inv'
<1> DEFINE lines == req[p].lines
           line == lines[NextLine(p)]
<1>1. CASE Rollback(p, "refused")
  BY <1>1, RollbackKeepsInv
<1>2. CASE /\ Storable(p, line)
           /\ view' = [view EXCEPT ![p].journal = WithLine(@, line)]
           /\ Goto(p, IF LastLine(p) THEN "audit" ELSE "lines")
           /\ UNCHANGED <<db, req, reply, writer, poolVars>>
  <2>1. /\ pc[p] = "lines" /\ StatementInv(p) /\ writer = p
        /\ req[p] \in Request /\ req[p] # NoRequest
        /\ db \in Database /\ db.journal \in Seq(Entry) /\ view[p] \in Database
    BY StartingPoint DEF InsertLine, AfterFirstWrite, Inv, TypeOK
  <2>2. WrittenEntry(p) /\ req[p].kind # "lock"
    BY <2>1 DEF StatementInv, AfterFirstWrite, WrittenLock
  <2>3. lines \in Seq(Line) /\ req[p].date \in Dates /\ Len(lines) \in Nat
    BY <2>1, <2>2, ClearedDate DEF WrittenEntry
  <2>4. PICK k \in 0 .. Len(lines) :
           /\ view[p].journal = Append(db.journal, EntryOf(p, SubSeq(lines, 1, k)))
           /\ \A i \in 1 .. k : SatisfiesChecks(lines[i])
           /\ pc[p] = "lines" <=> k < Len(lines)
    BY <2>2 DEF WrittenEntry
  <2>5. k \in 0 .. Len(lines) - 1
    BY <2>1, <2>3, <2>4
  <2>6. /\ Pending(p) = EntryOf(p, SubSeq(lines, 1, k))
        /\ NextLine(p) = k + 1
        /\ EntryOf(p, SubSeq(lines, 1, k)) \in Entry
    BY <2>1, <2>2, <2>4, PendingEntry DEF NextLine
  <2>7. /\ line = lines[k + 1] /\ line \in Line /\ SatisfiesChecks(line)
        /\ Append(SubSeq(lines, 1, k), line) = SubSeq(lines, 1, k + 1)
        /\ SubSeq(lines, 1, k + 1) \in Seq(Line)
    BY <1>2, <2>3, <2>5, <2>6, LinePrefixes DEF Storable
  <2>8. WithLine(view[p].journal, line)
           = Append(db.journal, EntryOf(p, SubSeq(lines, 1, k + 1)))
    <3> DEFINE entry == EntryOf(p, SubSeq(lines, 1, k))
    <3>1. entry \in Entry /\ view[p].journal = Append(db.journal, entry)
      BY <2>4, <2>6
    <3>2. line \in Line /\ Append(SubSeq(lines, 1, k), line) = SubSeq(lines, 1, k + 1)
      BY <2>7
    <3> HIDE DEF line, lines
    <3>3. [entry EXCEPT !.lines = Append(entry.lines, line)]
             = EntryOf(p, Append(SubSeq(lines, 1, k), line))
      <4>1. entry.lines = SubSeq(lines, 1, k)
        BY DEF EntryOf
      <4>2. [entry EXCEPT !.lines = Append(SubSeq(lines, 1, k), line)]
               = EntryOf(p, Append(SubSeq(lines, 1, k), line))
        BY EntryWithLines
      <4> QED
        BY <4>1, <4>2
    <3> HIDE DEF entry
    <3>4. WithLine(Append(db.journal, entry), line)
             = Append(db.journal, [entry EXCEPT !.lines = Append(entry.lines, line)])
      BY <2>1, <3>1, <3>2, WithLineOfAppend
    <3> QED
      BY <3>1, <3>2, <3>3, <3>4
  <2>9. EntryOf(p, SubSeq(lines, 1, k + 1)) \in Entry
    BY <2>1, <2>3, <2>7, EntryOfType
  <2>10. /\ view'[p].journal = Append(db.journal, EntryOf(p, SubSeq(lines, 1, k + 1)))
         /\ view'[p].locked = view[p].locked
         /\ view'[p].audit = view[p].audit
         /\ view'[p] \in Database
         /\ view' \in [Procs -> Database]
    <3>1. view' = [view EXCEPT ![p].journal =
                      Append(db.journal, EntryOf(p, SubSeq(lines, 1, k + 1)))]
      BY <1>2, <2>8
    <3>2. Append(db.journal, EntryOf(p, SubSeq(lines, 1, k + 1))) \in Seq(Entry)
      BY <2>1, <2>9
    <3>3. view \in [Procs -> Database]
      BY DEF Inv, TypeOK
    <3> DEFINE longer == Append(db.journal, EntryOf(p, SubSeq(lines, 1, k + 1)))
    <3> HIDE DEF longer
    <3>4. view' = [view EXCEPT ![p].journal = longer] /\ longer \in Seq(Entry)
      BY <3>1, <3>2 DEF longer
    <3>5. /\ view'[p].journal = longer /\ view'[p].locked = view[p].locked
          /\ view'[p].audit = view[p].audit /\ view' \in [Procs -> Database]
      BY <3>3, <3>4 DEF Database
    <3> QED
      BY <3>5 DEF longer
  <2>11. LastLine(p) <=> k + 1 = Len(lines)
    BY <2>6 DEF LastLine
  <2>12. /\ pc'[p] \in {"audit", "lines"}
         /\ pc'[p] = "lines" <=> k + 1 # Len(lines)
         /\ pc' = [pc EXCEPT ![p] = pc'[p]]
         /\ pc'[p] \in Statements
    BY <1>2, <2>11 DEF Inv, TypeOK, Goto, Statements
  <2>13. req' = req /\ db' = db /\ writer' = writer
    BY <1>2
  <2>14. TypeOK'
    BY <1>2, <2>10, <2>12 DEF Inv, TypeOK, poolVars
  <2>15. WrittenEntry(p)'
    <3>1. Cleared(p, db)'
      BY <2>2, <2>13 DEF WrittenEntry, Cleared, Admitted
    <3>2. \A i \in 1 .. k + 1 : SatisfiesChecks(lines[i])
      BY <2>4, <2>5, <2>7
    <3>3. k + 1 \in 0 .. Len(lines) /\ (k + 1 # Len(lines) <=> k + 1 < Len(lines))
      BY <2>3, <2>5
    <3>4. view'[p].locked = db.locked /\ view'[p].audit = db.audit
      BY <2>1, <2>2, <2>10 DEF WrittenEntry
    <3>5. \E j \in 0 .. Len(req'[p].lines) :
             /\ view'[p].journal =
                   Append(db'.journal, EntryOf(p, SubSeq(req[p].lines, 1, j))')
             /\ \A i \in 1 .. j : SatisfiesChecks(req'[p].lines[i])
             /\ pc'[p] = "lines" <=> j < Len(req'[p].lines)
      <4>1. EntryOf(p, SubSeq(req[p].lines, 1, k + 1))'
               = EntryOf(p, SubSeq(req[p].lines, 1, k + 1))
        BY <2>13 DEF EntryOf
      <4> QED
        BY <2>10, <2>12, <2>13, <3>2, <3>3, <4>1
    <3> QED
      BY <2>12, <2>13, <3>1, <3>4, <3>5 DEF WrittenEntry, EntryOf
  <2>16. StatementInv(p)'
    BY <2>1, <2>2, <2>12, <2>13, <2>15 DEF StatementInv, AfterFirstWrite
  <2>17. \A q \in Procs \ {p} : Same(q)
    BY <1>2 DEF Inv, TypeOK, Goto, Same
  <2>18. TxInv'
    BY <2>1, <2>12, <2>13, <2>16, <2>17, StepOfOne DEF Inv, AfterFirstWrite
  <2> QED
    BY <2>14, <2>18 DEF Inv
<1> QED
  BY <1>1, <1>2 DEF InsertLine

\* Past the loop the entry has all of its lines, and each passed its checks.
LEMMA CompleteEntry ==
    ASSUME Inv, NEW p \in Procs, pc[p] \in {"audit", "commit"}, req[p].kind # "lock"
    PROVE  /\ Cleared(p, db)
           /\ view[p].locked = db.locked
           /\ view[p].journal = Append(db.journal, EntryOf(p, req[p].lines))
           /\ EntryOf(p, req[p].lines) \in Entry
           /\ Pending(p) = EntryOf(p, req[p].lines)
           /\ Len(view[p].journal) = Len(db.journal) + 1
           /\ \A i \in DOMAIN req[p].lines : SatisfiesChecks(req[p].lines[i])
<1>1. /\ StatementInv(p) /\ req[p] \in Request /\ db \in Database
      /\ pc[p] # "idle" /\ pc[p] # "lines" /\ pc[p] \in AfterFirstWrite
  BY StartingPoint DEF AfterFirstWrite, Inv, TypeOK
<1>2. WrittenEntry(p)
  BY <1>1 DEF StatementInv
<1>3. Cleared(p, db) /\ view[p].locked = db.locked
  BY <1>2 DEF WrittenEntry
<1>4. req[p].lines \in Seq(Line) /\ Len(req[p].lines) \in Nat
  BY <1>1, <1>3, ClearedDate
<1>5. PICK k \in 0 .. Len(req[p].lines) :
         /\ view[p].journal =
               Append(db.journal, EntryOf(p, SubSeq(req[p].lines, 1, k)))
         /\ \A i \in 1 .. k : SatisfiesChecks(req[p].lines[i])
         /\ pc[p] = "lines" <=> k < Len(req[p].lines)
  BY <1>2 DEF WrittenEntry
<1>6. k = Len(req[p].lines)
  BY <1>1, <1>4, <1>5
<1>7. SubSeq(req[p].lines, 1, k) = req[p].lines
  BY <1>4, <1>6, LinePrefixes
<1>8. /\ Pending(p) = EntryOf(p, req[p].lines)
      /\ EntryOf(p, req[p].lines) \in Entry
      /\ Len(view[p].journal) = Len(db.journal) + 1
  BY <1>1, <1>2, <1>5, <1>7, PendingEntry
<1>9. \A i \in DOMAIN req[p].lines : SatisfiesChecks(req[p].lines[i])
  BY <1>4, <1>5, <1>6
<1>10. view[p].journal = Append(db.journal, EntryOf(p, req[p].lines))
  BY <1>5, <1>7
<1> QED
  BY <1>3, <1>8, <1>9, <1>10

\* The audit row completes what the transaction writes.
LEMMA WriteAuditKeepsInv ==
    ASSUME Inv, NEW p \in Procs, WriteAudit(p)
    PROVE  Inv'
<1>1. /\ pc[p] = "audit" /\ StatementInv(p) /\ writer = p
      /\ req[p] \in Request /\ req[p] # NoRequest
      /\ view[p] \in Database /\ db \in Database /\ db.journal \in Seq(Entry)
  BY StartingPoint DEF WriteAudit, AfterFirstWrite, Inv, TypeOK
<1>2. /\ RowOf(p) \in AuditRow
      /\ req[p].kind # "lock" =>
            RowOf(p) = EntryAuditRow(EntryOf(p, req[p].lines), Len(db.journal) + 1)
      /\ req[p].kind = "lock" => RowOf(p) = LockAuditRow(req[p].by, req[p].date)
  <2>1. CASE req[p].kind = "lock"
    <3>1. req[p].by \in Users /\ req[p].date \in LockDates
      BY <1>1 DEF Request
    <3> QED
      BY <2>1, <3>1 DEF RowOf, LockAuditRow, AuditRow
  <2>2. CASE req[p].kind # "lock"
    <3>1. /\ RowOf(p) = EntryAuditRow(EntryOf(p, req[p].lines), Len(db.journal) + 1)
          /\ EntryOf(p, req[p].lines) \in Entry
      BY <1>1, <2>2, CompleteEntry DEF RowOf
    <3>2. Len(db.journal) + 1 \in Nat
      BY <1>1
    <3>3. \A entry \in Entry, id \in Nat : EntryAuditRow(entry, id) \in AuditRow
      BY DEF EntryAuditRow, AuditRow, Entry, LockDates
    <3> QED
      BY <2>2, <3>1, <3>2, <3>3
  <2> QED
    BY <2>1, <2>2
<1>3. view' = [view EXCEPT ![p].audit = Append(view[p].audit, RowOf(p))]
  BY DEF WriteAudit
<1>4. /\ view'[p].journal = view[p].journal
      /\ view'[p].locked = view[p].locked
      /\ view'[p].audit = Append(view[p].audit, RowOf(p))
      /\ view' \in [Procs -> Database]
  <2> DEFINE rows == Append(view[p].audit, RowOf(p))
  <2>1. rows \in Seq(AuditRow)
    BY <1>1, <1>2 DEF Database
  <2> HIDE DEF rows
  <2>2. view' = [view EXCEPT ![p].audit = rows] /\ view \in [Procs -> Database]
    BY <1>3 DEF Inv, TypeOK, rows
  <2>3. /\ view'[p].journal = view[p].journal
        /\ view'[p].locked = view[p].locked
        /\ view'[p].audit = rows
        /\ view' \in [Procs -> Database]
    BY <2>1, <2>2 DEF Database
  <2> QED
    BY <2>3 DEF rows
<1>5. TypeOK'
  BY <1>4 DEF Inv, TypeOK, WriteAudit, Goto, Statements, poolVars
<1>6. pc'[p] = "commit" /\ req' = req /\ db' = db /\ writer' = writer
  BY DEF Inv, TypeOK, WriteAudit, Goto
<1>7. ASSUME req[p].kind = "lock"
      PROVE  WrittenLock(p)'
  <2>1. WrittenLock(p)
    BY <1>1, <1>7 DEF StatementInv, AfterFirstWrite
  <2> QED
    BY <1>1, <1>2, <1>4, <1>6, <1>7, <2>1 DEF WrittenLock
<1>8. ASSUME req[p].kind # "lock"
      PROVE  WrittenEntry(p)'
  <2>1. WrittenEntry(p)
    BY <1>1, <1>8 DEF StatementInv, AfterFirstWrite
  <2>2. view[p].audit = db.audit
    BY <1>1, <2>1 DEF WrittenEntry
  <2>3. /\ Cleared(p, db)'
        /\ EntryOf(p, req[p].lines)' = EntryOf(p, req[p].lines)
        /\ \A k : EntryOf(p, SubSeq(req[p].lines, 1, k))'
                     = EntryOf(p, SubSeq(req[p].lines, 1, k))
    BY <1>6, <2>1 DEF WrittenEntry, Cleared, Admitted, EntryOf
  <2>4. \E k \in 0 .. Len(req'[p].lines) :
           /\ view'[p].journal =
                 Append(db'.journal, EntryOf(p, SubSeq(req[p].lines, 1, k))')
           /\ \A i \in 1 .. k : SatisfiesChecks(req'[p].lines[i])
           /\ pc'[p] = "lines" <=> k < Len(req'[p].lines)
    BY <1>1, <1>4, <1>6, <2>1, <2>3 DEF WrittenEntry
  <2>5. view'[p].audit = Append(db'.audit, EntryAuditRow(EntryOf(p, req[p].lines)',
                                                         Len(db'.journal) + 1))
    BY <1>2, <1>4, <1>6, <1>8, <2>2, <2>3
  <2>6. view'[p].locked = db'.locked
    BY <1>4, <1>6, <2>1 DEF WrittenEntry
  <2> QED
    BY <1>6, <2>3, <2>4, <2>5, <2>6 DEF WrittenEntry, EntryOf
<1>9. StatementInv(p)'
  BY <1>1, <1>6, <1>7, <1>8 DEF StatementInv, AfterFirstWrite
<1>10. \A q \in Procs \ {p} : Same(q)
  BY DEF Inv, TypeOK, WriteAudit, Goto, Same
<1>11. TxInv'
  BY <1>1, <1>6, <1>9, <1>10, StepOfOne DEF Inv, AfterFirstWrite
<1> QED
  BY <1>5, <1>11 DEF Inv

\* A commit ends the one transaction whose facts rest on the old database;
\* the snapshots of the others are left alone.
LEMMA CommitKeepsInv ==
    ASSUME Inv, NEW p \in Procs, Commit(p)
    PROVE  Inv'
<1> DEFINE answer == [status |-> "ok",
                      id |-> IF req[p].kind = "lock" THEN 0 ELSE AnswerId(p)]
<1>1. /\ writer = p /\ db' = view[p] /\ view[p] \in Database
      /\ Finish(p, answer)
  BY StartingPoint DEF Commit, AfterFirstWrite
<1>2. AnswerId(p) \in Nat
  BY <1>1 DEF AnswerId, Database
<1>3. answer \in Reply
  BY <1>2 DEF Reply
<1> QED
  BY <1>1, <1>3, FinishKeepsInv

\* After a crash there is no transaction to say anything about.
LEMMA CrashKeepsInv ==
    ASSUME Inv, Crash
    PROVE  Inv'
<1>1. EmptyDB \in Database
  BY DEF EmptyDB, Database, LockDates
<1>2. pool' \in Seq(BOOLEAN) /\ Len(pool') <= MaxIdle
  BY BoundsAssumption DEF Crash
<1>3. TypeOK'
  BY <1>1, <1>2 DEF Inv, TypeOK, Crash, Statements, NoReply, Reply
<1>4. TxInv'
  BY ProcsAssumption DEF Crash, TxInv, StatementInv, AfterFirstWrite
<1> QED
  BY <1>3, <1>4 DEF Inv

\* Every step keeps the inductive invariant.
LEMMA NextKeepsInv == Inv /\ [Next]_vars => Inv'
<1> SUFFICES ASSUME Inv, [Next]_vars PROVE Inv'
  OBVIOUS
<1>1. ASSUME NEW p \in Procs, Receive(p) PROVE Inv'
  BY <1>1, ReceiveKeepsInv
<1>2. ASSUME NEW p \in Procs, Step(p) PROVE Inv'
  <2>1. CASE Begin(p)          BY <2>1, BeginKeepsInv
  <2>2. CASE CheckLock(p)      BY <2>2, CheckLockKeepsInv
  <2>3. CASE CheckAccounts(p)  BY <2>3, CheckAccountsKeepsInv
  <2>4. CASE ReadOriginal(p)   BY <2>4, ReadOriginalKeepsInv
  <2>5. CASE InsertEntry(p)    BY <2>5, InsertEntryKeepsInv
  <2>6. CASE UpsertLock(p)     BY <2>6, UpsertLockKeepsInv
  <2>7. CASE Busy(p)           BY <2>7, RollbackKeepsInv DEF Busy
  <2>8. CASE InsertLine(p)     BY <2>8, InsertLineKeepsInv
  <2>9. CASE WriteAudit(p)     BY <2>9, WriteAuditKeepsInv
  <2>10. CASE Commit(p)        BY <2>10, CommitKeepsInv
  <2> QED
    BY <1>2, <2>1, <2>2, <2>3, <2>4, <2>5, <2>6, <2>7, <2>8, <2>9, <2>10 DEF Step
<1>3. ASSUME NEW p \in Procs, Fail(p) PROVE Inv'
  BY <1>3, RollbackKeepsInv DEF Fail
<1>4. CASE Crash
  BY <1>4, CrashKeepsInv
<1>5. CASE UNCHANGED vars
  <2>1. TypeOK'
    BY <1>5 DEF vars, Inv, TypeOK
  <2>2. \A q \in Procs : Same(q) /\ writer' = writer /\ db' = db
    BY <1>5 DEF vars, Same
  <2>3. TxInv'
    BY <2>2, OthersKeep DEF Inv, TxInv, Same
  <2> QED
    BY <2>1, <2>3 DEF Inv
<1> QED
  BY <1>1, <1>2, <1>3, <1>4, <1>5 DEF Next

-----------------------------------------------------------------------------
(* Theorems. *)

\* Types, and what each transaction has established at each statement:
\* one writer at most, working on the committed database.
THEOREM TransactionsAreIsolated == Spec => [](TypeOK /\ TxInv)
<1>1. Inv => TypeOK /\ TxInv
  BY DEF Inv
<1> QED
  BY <1>1, InitInv, NextKeepsInv, PTL DEF Spec

\* Every variable keeps its type, snapshots and half-written transactions
\* included.
COROLLARY LedgerIsTyped == Spec => []TypeOK
BY TransactionsAreIsolated, PTL

\* The abstract ledger sees the same data: the operators of LedgerData mean
\* the same in the instance of AbstractLedger as they do here.
LEMMA SameData ==
    /\ Abstract!NoLock = NoLock /\ Abstract!NoOriginal = NoOriginal
    /\ \A lines : Abstract!Swapped(lines) = Swapped(lines)
    /\ \A lines : Abstract!WellFormed(lines) <=> WellFormed(lines)
    /\ \A lines : Abstract!AcceptableAccounts(lines) <=> AcceptableAccounts(lines)
    /\ \A line : Abstract!SatisfiesChecks(line) <=> SatisfiesChecks(line)
    /\ \A date, lock : Abstract!InLockedPeriod(date, lock) <=> InLockedPeriod(date, lock)
    /\ \A entry, id : Abstract!EntryAuditRow(entry, id) = EntryAuditRow(entry, id)
    /\ \A user, date : Abstract!LockAuditRow(user, date) = LockAuditRow(user, date)
<1>1. Abstract!NoLock = NoLock /\ Abstract!NoOriginal = NoOriginal
  BY DEF Abstract!NoLock, NoLock, Abstract!NoOriginal, NoOriginal
<1>2. \A lines : Abstract!Swapped(lines) = Swapped(lines)
  BY DEF Abstract!Swapped, Swapped
<1>3. \A lines : Abstract!WellFormed(lines) <=> WellFormed(lines)
  <2>1. \A column : Abstract!Total(column) = Total(column)
    BY DEF Abstract!Total, Total
  <2>2. \A x : Abstract!Wrap(x) = Wrap(x)
    BY DEF Abstract!Wrap, Wrap
  <2>3. \A lines : /\ Abstract!DebitColumn(lines) = DebitColumn(lines)
                   /\ Abstract!CreditColumn(lines) = CreditColumn(lines)
    BY DEF Abstract!DebitColumn, DebitColumn, Abstract!CreditColumn, CreditColumn
  <2> QED
    BY <2>1, <2>2, <2>3
       DEF Abstract!WellFormed, WellFormed, Abstract!Balances, Balances
<1>4. \A lines : Abstract!AcceptableAccounts(lines) <=> AcceptableAccounts(lines)
  BY DEF Abstract!AcceptableAccounts, AcceptableAccounts, Abstract!Accounts, Accounts,
         Abstract!NoCategory, NoCategory
<1>5. \A line : Abstract!SatisfiesChecks(line) <=> SatisfiesChecks(line)
  BY DEF Abstract!SatisfiesChecks, SatisfiesChecks, Abstract!Categories, Categories,
         Abstract!NoCategory, NoCategory
<1>6. \A date, lock : Abstract!InLockedPeriod(date, lock) <=> InLockedPeriod(date, lock)
  BY DEF Abstract!InLockedPeriod, InLockedPeriod
<1>7. \A entry, id : Abstract!EntryAuditRow(entry, id) = EntryAuditRow(entry, id)
  BY <1>1 DEF Abstract!EntryAuditRow, EntryAuditRow, Abstract!IsReversal, IsReversal
<1>8. \A user, date : Abstract!LockAuditRow(user, date) = LockAuditRow(user, date)
  BY DEF Abstract!LockAuditRow, LockAuditRow
<1> QED
  BY <1>1, <1>2, <1>3, <1>4, <1>5, <1>6, <1>7, <1>8

\* Only a commit changes the database, and what it commits is one operation
\* of the abstract ledger with every check true of the database replaced.
LEMMA CommitsRefine ==
    ASSUME Inv, NEW p \in Procs, Commit(p)
    PROVE  Abstract!Next
<1>1. /\ pc[p] = "commit" /\ StatementInv(p) /\ db' = view[p]
      /\ req[p] \in Request /\ req[p] # NoRequest
      /\ db \in Database /\ db.journal \in Seq(Entry)
  BY StartingPoint DEF Commit, Inv, TypeOK
<1>2. req[p].by \in Users
  BY <1>1 DEF Request
<1>3. CASE req[p].kind = "lock"
  <2>1. WrittenLock(p) /\ req[p].date \in Dates
    BY <1>1, <1>3 DEF StatementInv, AfterFirstWrite
  <2>2. Abstract!LockPeriod(req[p].by, req[p].date)
    BY <1>1, <2>1, SameData DEF WrittenLock, Abstract!LockPeriod
  <2> QED
    BY <1>2, <2>1, <2>2 DEF Abstract!Next
<1>4. CASE req[p].kind # "lock"
  <2> DEFINE entry == EntryOf(p, req[p].lines)
  <2>1. /\ Cleared(p, db) /\ view[p].locked = db.locked
        /\ view[p].journal = Append(db.journal, entry)
        /\ \A i \in DOMAIN req[p].lines : SatisfiesChecks(req[p].lines[i])
    BY <1>1, <1>4, CompleteEntry
  <2>2. WrittenEntry(p)
    BY <1>1, <1>4 DEF StatementInv, AfterFirstWrite
  <2>3. view[p].audit = Append(db.audit, EntryAuditRow(entry, Len(db.journal) + 1))
    BY <1>1, <2>2 DEF WrittenEntry
  <2>4. Abstract!AppendEntry(entry)
    BY <1>1, <2>1, <2>3, SameData DEF Abstract!AppendEntry
  <2>5. CASE req[p].kind = "post"
    <3>1. /\ req[p].date \in Dates /\ req[p].lines \in Postings
          /\ req[p].reverses = NoOriginal /\ WellFormed(req[p].lines)
      BY <1>1, <2>5 DEF StatementInv
    <3>2. /\ ~ InLockedPeriod(req[p].date, db.locked)
          /\ AcceptableAccounts(req[p].lines)
      BY <2>1, <2>5 DEF Cleared, Admitted
    <3>3. Abstract!PostJournalEntry(req[p].by, req[p].date, req[p].lines)
      BY <2>1, <2>4, <3>1, <3>2, SameData DEF EntryOf, Abstract!PostJournalEntry
    <3> QED
      BY <1>2, <3>1, <3>3 DEF Abstract!Next
  <2>6. CASE req[p].kind # "post"
    <3>1. /\ req[p].reverses \in DOMAIN db.journal
          /\ req[p].date = db.journal[req[p].reverses].date
          /\ req[p].lines = Swapped(db.journal[req[p].reverses].lines)
      BY <2>1, <2>6 DEF Cleared, Admitted
    <3>2. Abstract!ReverseJournalEntry(req[p].by, req[p].reverses)
      BY <2>4, <3>1, SameData DEF EntryOf, Abstract!ReverseJournalEntry
    <3> QED
      BY <1>2, <3>1, <3>2 DEF Abstract!Next
  <2> QED
    BY <2>5, <2>6
<1> QED
  BY <1>3, <1>4

\* Every other step leaves the database as it is.
LEMMA OnlyCommitsChange ==
    ASSUME Inv, Next, \A p \in Procs : ~ Commit(p)
    PROVE  db' = db
<1>1. ASSUME NEW p \in Procs, Receive(p) PROVE db' = db
  BY <1>1 DEF Receive, StartPost, RefusePost, StartReverse, StartLock, Start
<1>2. ASSUME NEW p \in Procs, Step(p) PROVE db' = db
  BY <1>2 DEF Step, Begin, CheckLock, CheckAccounts, ReadOriginal, InsertEntry,
              UpsertLock, Busy, InsertLine, WriteAudit, Rollback
<1>3. ASSUME NEW p \in Procs, Fail(p) PROVE db' = db
  BY <1>3 DEF Fail, Rollback
<1>4. CASE Crash
  BY <1>4 DEF Crash
<1> QED
  BY <1>1, <1>2, <1>3, <1>4 DEF Next

\* Every step is one operation of AbstractLedger, made by a commit, or none.
LEMMA StepsRefine == Inv /\ [Next]_vars => [Abstract!Next]_(Abstract!vars)
<1> SUFFICES ASSUME Inv, [Next]_vars
             PROVE  Abstract!Next \/ UNCHANGED Abstract!vars
  OBVIOUS
<1>1. CASE \E p \in Procs : Commit(p)
  BY <1>1, CommitsRefine
<1>2. CASE Next /\ \A p \in Procs : ~ Commit(p)
  BY <1>2, OnlyCommitsChange DEF Abstract!vars
<1>3. CASE UNCHANGED vars
  BY <1>3 DEF vars, Abstract!vars
<1> QED
  BY <1>1, <1>2, <1>3

\* The transactional ledger implements the atomic one.
THEOREM Refinement == Spec => ImplementsAbstractLedger
<1>1. Init => Abstract!Init
  BY SameData DEF Init, EmptyDB, Abstract!Init
<1> QED
  BY <1>1, InitInv, NextKeepsInv, StepsRefine, PTL
     DEF Spec, ImplementsAbstractLedger, Abstract!Spec

-----------------------------------------------------------------------------
(* What follows for the journal, the audit log and the answers. *)

\* What a commit adds, in the terms of this module.
LEMMA CommitAdds ==
    ASSUME Inv, NEW p \in Procs, Commit(p)
    PROVE  /\ req[p] # NoRequest
           /\ \/ /\ req[p].kind = "lock"
                 /\ req[p].by \in Users /\ req[p].date \in Dates
                 /\ db'.journal = db.journal /\ db'.locked = req[p].date
                 /\ db'.audit = Append(db.audit, LockAuditRow(req[p].by, req[p].date))
                 /\ LockAuditRow(req[p].by, req[p].date) \in AuditRow
              \/ /\ req[p].kind # "lock"
                 /\ EntryOf(p, req[p].lines) \in Entry
                 /\ Cleared(p, db) /\ StatementInv(p)
                 /\ db'.journal = Append(db.journal, EntryOf(p, req[p].lines))
                 /\ db'.locked = db.locked
                 /\ db'.audit = Append(db.audit, EntryAuditRow(EntryOf(p, req[p].lines),
                                                               Len(db.journal) + 1))
                 /\ EntryAuditRow(EntryOf(p, req[p].lines), Len(db.journal) + 1)
                       \in AuditRow
<1>1. /\ pc[p] = "commit" /\ StatementInv(p) /\ db' = view[p]
      /\ req[p] \in Request /\ req[p] # NoRequest /\ db.journal \in Seq(Entry)
  BY StartingPoint DEF Commit
<1>2. CASE req[p].kind = "lock"
  <2>1. WrittenLock(p) /\ req[p].date \in Dates
    BY <1>1, <1>2 DEF StatementInv, AfterFirstWrite
  <2>2. req[p].by \in Users /\ req[p].date \in LockDates
    BY <1>1 DEF Request
  <2>3. LockAuditRow(req[p].by, req[p].date) \in AuditRow
    BY <2>2 DEF LockAuditRow, AuditRow
  <2> QED
    BY <1>1, <1>2, <2>1, <2>2, <2>3 DEF WrittenLock
<1>3. CASE req[p].kind # "lock"
  <2>1. /\ EntryOf(p, req[p].lines) \in Entry /\ Cleared(p, db)
        /\ view[p].journal = Append(db.journal, EntryOf(p, req[p].lines))
        /\ view[p].locked = db.locked
    BY <1>1, <1>3, CompleteEntry
  <2>2. WrittenEntry(p)
    BY <1>1, <1>3 DEF StatementInv, AfterFirstWrite
  <2>3. \A entry \in Entry, id \in Nat : EntryAuditRow(entry, id) \in AuditRow
    BY DEF EntryAuditRow, AuditRow, Entry, LockDates
  <2>4. Len(db.journal) + 1 \in Nat
    BY <1>1
  <2> QED
    BY <1>1, <1>3, <2>1, <2>2, <2>3, <2>4 DEF WrittenEntry
<1> QED
  BY <1>2, <1>3

\* A step either changes nothing that is committed, or is one commit.
LEMMA StepCases ==
    ASSUME Inv, [Next]_vars
    PROVE  db' = db \/ \E p \in Procs : Commit(p)
<1>1. CASE UNCHANGED vars
  BY <1>1 DEF vars
<1>2. CASE Next
  BY <1>2, OnlyCommitsChange
<1> QED
  BY <1>1, <1>2

\* Nothing committed is ever taken back.
THEOREM CommittedForEver == Spec => CommittedIsKept
<1>1. ASSUME Inv, [Next]_vars
      PROVE  IsPrefix(db.journal, db'.journal) /\ IsPrefix(db.audit, db'.audit)
  <2>1. db.journal \in Seq(Entry) /\ db.audit \in Seq(AuditRow)
    BY <1>1 DEF Inv, TypeOK, Database
  <2>2. \A S : \A s \in Seq(S) : IsPrefix(s, s)
    BY DEF IsPrefix
  <2>3. ASSUME NEW S, NEW s \in Seq(S), NEW e \in S
        PROVE  IsPrefix(s, Append(s, e))
    BY DEF IsPrefix
  <2>4. CASE db' = db
    BY <2>1, <2>2, <2>4
  <2>5. ASSUME NEW p \in Procs, Commit(p)
        PROVE  IsPrefix(db.journal, db'.journal) /\ IsPrefix(db.audit, db'.audit)
    BY <1>1, <2>1, <2>2, <2>3, <2>5, CommitAdds
  <2> QED
    BY <1>1, <2>4, <2>5, StepCases
<1> QED
  BY <1>1, InitInv, NextKeepsInv, PTL DEF Spec, CommittedIsKept

\* No posting lands in the period that is locked when it commits.
THEOREM LockIsRespected == Spec => PostsRespectLock
<1>1. ASSUME Inv, [Next]_vars
      PROVE  \A n \in DOMAIN db'.journal \ DOMAIN db.journal :
                \/ IsReversal(db'.journal[n])
                \/ db'.journal[n].date > db.locked
  <2>1. db.journal \in Seq(Entry) /\ db.locked \in LockDates
    BY <1>1 DEF Inv, TypeOK, Database
  <2>2. CASE db' = db
    BY <2>2
  <2>3. ASSUME NEW p \in Procs, Commit(p),
               NEW n \in DOMAIN db'.journal \ DOMAIN db.journal
        PROVE  IsReversal(db'.journal[n]) \/ db'.journal[n].date > db.locked
    <3> DEFINE entry == EntryOf(p, req[p].lines)
    <3>1. /\ entry \in Entry /\ Cleared(p, db) /\ StatementInv(p) /\ req[p] # NoRequest
          /\ db'.journal = Append(db.journal, entry)
      BY <1>1, <2>3, CommitAdds
    <3>2. entry.date = req[p].date /\ entry.reverses = req[p].reverses
      BY DEF EntryOf
    <3> HIDE DEF entry
    <3>3. db'.journal[n] = entry
      BY <2>1, <2>3, <3>1, AppendedElements
    <3>4. CASE req[p].kind = "post"
      <4>1. ~ InLockedPeriod(req[p].date, db.locked) /\ req[p].date \in Dates
        BY <3>1, <3>4 DEF Cleared, Admitted, StatementInv
      <4>2. req[p].date \in Nat /\ db.locked \in Nat
        BY <2>1, <4>1, DatesAssumption DEF LockDates, NoLock
      <4>3. req[p].date > db.locked
        BY <4>1, <4>2 DEF InLockedPeriod
      <4> QED
        BY <3>2, <3>3, <4>3
    <3>5. CASE req[p].kind = "reverse"
      BY <3>1, <3>2, <3>3, <3>5 DEF StatementInv, IsReversal
    <3> QED
      BY <3>1, <3>4, <3>5 DEF Cleared, Admitted
  <2> QED
    BY <1>1, <2>2, <2>3, StepCases
<1> QED
  BY <1>1, InitInv, NextKeepsInv, PTL DEF Spec, PostsRespectLock

\* The database changes only together with an "ok" that tells the truth.
THEOREM AnswersAreTrue == Spec => RepliesAreTrue
<1>1. ASSUME Inv, [Next]_vars, db' # db
      PROVE  \E p \in Procs :
                /\ reply'[p].status = "ok" /\ req[p] # NoRequest
                /\ Len(db'.audit) = Len(db.audit) + 1
                /\ IF req[p].kind = "lock"
                   THEN db'.journal = db.journal /\ db'.locked = req[p].date
                   ELSE /\ db'.locked = db.locked
                        /\ Len(db'.journal) = Len(db.journal) + 1
                        /\ reply'[p].id \in DOMAIN db'.journal
                        /\ db'.journal[reply'[p].id] = EntryOf(p, req[p].lines)
  <2>1. PICK p \in Procs : Commit(p)
    BY <1>1, StepCases
  <2>2. db.journal \in Seq(Entry) /\ db.audit \in Seq(AuditRow)
    BY <1>1 DEF Inv, TypeOK, Database
  <2>3. /\ reply'[p].status = "ok"
        /\ req[p].kind # "lock" => reply'[p].id = Len(db'.journal)
    BY <1>1, <2>1 DEF Inv, TypeOK, Commit, Finish, AnswerId
  <2>4. Len(db'.audit) = Len(db.audit) + 1
    BY <1>1, <2>1, <2>2, CommitAdds, AppendedElements
  <2>5. CASE req[p].kind = "lock"
    BY <1>1, <2>1, <2>3, <2>4, <2>5, CommitAdds
  <2>6. CASE req[p].kind # "lock"
    <3> DEFINE entry == EntryOf(p, req[p].lines)
    <3>1. /\ entry \in Entry /\ req[p] # NoRequest /\ db'.locked = db.locked
          /\ db'.journal = Append(db.journal, entry)
      BY <1>1, <2>1, <2>6, CommitAdds
    <3> HIDE DEF entry
    <3>2. /\ Len(db'.journal) = Len(db.journal) + 1
          /\ Len(db'.journal) \in DOMAIN db'.journal
          /\ db'.journal[Len(db'.journal)] = entry
      BY <2>2, <3>1, AppendedElements
    <3> QED
      BY <2>3, <2>4, <2>6, <3>1, <3>2 DEF entry
  <2> QED
    BY <2>5, <2>6
<1> QED
  BY <1>1, InitInv, NextKeepsInv, PTL DEF Spec, RepliesAreTrue

\* The journal and its audit log are sound whatever interleaves, fails or dies.
THEOREM JournalAndAuditAreSound == Spec => [](JournalIsSound /\ AuditIsSound)
<1> DEFINE Sound == JournalIsSound /\ AuditIsSound
<1>1. Init => Sound
  BY DEF Init, EmptyDB, JournalIsSound, JournalSound, JournalBalanced,
         JournalCategorised, JournalReversalsNegate,
         AuditIsSound, AuditSound, AuditMatchesJournal, AuditMatchesLock
<1>2. ASSUME Inv, Sound, [Next]_vars
      PROVE  Sound'
  <2>1. /\ db.journal \in Seq(Entry) /\ db.audit \in Seq(AuditRow)
        /\ JournalSound(db.journal) /\ AuditSound(db.audit, db.journal, db.locked)
    BY <1>2 DEF Inv, TypeOK, Database, JournalIsSound, AuditIsSound
  <2>2. CASE db' = db
    BY <1>2, <2>2 DEF JournalIsSound, AuditIsSound
  <2>3. ASSUME NEW p \in Procs, Commit(p), req[p].kind = "lock"
        PROVE  Sound'
    <3>1. /\ req[p].by \in Users /\ req[p].date \in LockDates
          /\ db'.journal = db.journal /\ db'.locked = req[p].date
          /\ db'.audit = Append(db.audit, LockAuditRow(req[p].by, req[p].date))
      BY <1>2, <2>3, CommitAdds DEF LockDates
    <3>2. AuditSound(db'.audit, db'.journal, db'.locked)
      BY <2>1, <3>1, LockKeepsAuditSound
    <3> QED
      BY <2>1, <3>1, <3>2 DEF JournalIsSound, AuditIsSound
  <2>4. ASSUME NEW p \in Procs, Commit(p), req[p].kind # "lock"
        PROVE  Sound'
    <3> DEFINE entry == EntryOf(p, req[p].lines)
    <3>1. /\ entry \in Entry /\ Cleared(p, db) /\ StatementInv(p) /\ req[p] # NoRequest
          /\ db'.journal = Append(db.journal, entry) /\ db'.locked = db.locked
          /\ db'.audit = Append(db.audit, EntryAuditRow(entry, Len(db.journal) + 1))
      BY <1>2, <2>4, CommitAdds
    <3>2. /\ entry.date = req[p].date /\ entry.reverses = req[p].reverses
          /\ entry.lines = req[p].lines
      BY DEF EntryOf
    <3> HIDE DEF entry
    <3>3. AuditSound(db'.audit, db'.journal, db'.locked)
      BY <2>1, <3>1, EntryKeepsAuditSound
    <3>4. CASE req[p].kind = "post"
      <4>1. /\ ~ IsReversal(entry)
            /\ WellFormed(entry.lines) /\ AcceptableAccounts(entry.lines)
        BY <3>1, <3>2, <3>4 DEF StatementInv, Cleared, IsReversal
      <4>2. JournalSound(db'.journal)
        BY <2>1, <3>1, <4>1, PostingKeepsJournalSound
      <4> QED
        BY <3>3, <4>2 DEF JournalIsSound, AuditIsSound
    <3>5. CASE req[p].kind # "post"
      <4>1. /\ entry.reverses \in DOMAIN db.journal
            /\ entry.date = db.journal[entry.reverses].date
            /\ entry.lines = Swapped(db.journal[entry.reverses].lines)
        BY <3>1, <3>2, <3>5 DEF Cleared, Admitted
      <4>2. JournalSound(db'.journal)
        BY <2>1, <3>1, <4>1, ReversalKeepsJournalSound
      <4> QED
        BY <3>3, <4>2 DEF JournalIsSound, AuditIsSound
    <3> QED
      BY <3>4, <3>5
  <2> QED
    BY <1>2, <2>2, <2>3, <2>4, StepCases
<1> QED
  BY <1>1, <1>2, InitInv, NextKeepsInv, PTL DEF Spec

\* Every entry that transactions commit balances, is categorised, and, if a
\* reversal, negates an earlier one.
COROLLARY JournalStaysSound == Spec => []JournalIsSound
BY JournalAndAuditAreSound, PTL

\* Each committed entry and the lock in force are attributed in the log.
COROLLARY AuditStaysSound == Spec => []AuditIsSound
BY JournalAndAuditAreSound, PTL

-----------------------------------------------------------------------------
(* Balances. *)

\* The balances a report computes at any moment: every reversal cancels its
\* original in every fund, and the balances of all funds sum to zero as long
\* as no committed entry has a total beyond the machine integers.
THEOREM ConcurrentBalancesReconcile ==
    Spec => []/\ JournalReversalsCancel(db.journal)
              /\ JournalFits(db.journal) => JournalReconciles(db.journal)
<1>1. Inv /\ JournalIsSound => /\ JournalReversalsCancel(db.journal)
                               /\ JournalFits(db.journal) => JournalReconciles(db.journal)
  <2> SUFFICES ASSUME Inv, JournalIsSound
               PROVE  /\ JournalReversalsCancel(db.journal)
                      /\ JournalFits(db.journal) => JournalReconciles(db.journal)
    OBVIOUS
  <2>1. db.journal \in Seq(Entry)
    BY DEF Inv, TypeOK, Database
  <2>2. JournalBalanced(db.journal) /\ JournalReversalsNegate(db.journal)
    BY DEF JournalIsSound, JournalSound
  <2> QED
    BY <2>1, <2>2, ReversalsCancel, SoundJournalReconciles
<1> QED
  BY <1>1, InitInv, NextKeepsInv, JournalStaysSound, PTL DEF Spec

\* Committed totals stay within the machine integers when submitted ones do.
LEMMA NextKeepsFit ==
    ASSUME \A lines \in Postings : TotalsFit(lines)
    PROVE  Inv /\ JournalFits(db.journal) /\ [Next]_vars => JournalFits(db.journal)'
<1> SUFFICES ASSUME Inv, JournalFits(db.journal), [Next]_vars
             PROVE  JournalFits(db'.journal)
  OBVIOUS
<1>1. db.journal \in Seq(Entry)
  BY DEF Inv, TypeOK, Database
<1>2. CASE db' = db
  BY <1>2
<1>3. ASSUME NEW p \in Procs, Commit(p), req[p].kind = "lock"
      PROVE  JournalFits(db'.journal)
  BY <1>3, CommitAdds
<1>4. ASSUME NEW p \in Procs, Commit(p), req[p].kind # "lock"
      PROVE  JournalFits(db'.journal)
  <2> DEFINE entry == EntryOf(p, req[p].lines)
  <2>1. /\ entry \in Entry /\ Cleared(p, db) /\ StatementInv(p) /\ req[p] # NoRequest
        /\ db'.journal = Append(db.journal, entry)
    BY <1>4, CommitAdds
  <2>2. entry.lines = req[p].lines
    BY DEF EntryOf
  <2> HIDE DEF entry
  <2>3. TotalsFit(entry.lines)
    <3>1. CASE req[p].kind = "post"
      BY <2>1, <2>2, <3>1 DEF StatementInv
    <3>2. CASE req[p].kind # "post"
      <4>1. /\ req[p].reverses \in DOMAIN db.journal
            /\ entry.lines = Swapped(db.journal[req[p].reverses].lines)
        BY <2>1, <2>2, <3>2 DEF Cleared, Admitted
      <4>2. db.journal[req[p].reverses].lines \in Seq(Line)
        BY <1>1, <4>1, JournalColumnsAreInts
      <4> QED
        BY <4>1, <4>2, SwappedFits DEF JournalFits
    <3> QED
      BY <3>1, <3>2
  <2> QED
    BY <1>1, <2>1, <2>3, AppendedElements DEF JournalFits
<1> QED
  BY <1>2, <1>3, <1>4, StepCases

\* Debits equal credits as numbers in every committed entry, reversals
\* included, when no submission has a total beyond the machine integers: the
\* wrapping sums of balances() are the only way out of double entry
\* (posting.go:38-39, 123-130).
THEOREM EntriesBalanceWithinWidth ==
    ASSUME \A lines \in Postings : TotalsFit(lines)
    PROVE  Spec => []EntriesBalanceExactly
<1>1. Init => JournalFits(db.journal)
  BY DEF Init, EmptyDB, JournalFits
<1>2. Inv /\ JournalFits(db.journal) /\ [Next]_vars => JournalFits(db.journal)'
  BY NextKeepsFit
<1>3. JournalIsSound /\ JournalFits(db.journal) => EntriesBalanceExactly
  BY FittingEntriesBalance DEF JournalIsSound, JournalSound, EntriesBalanceExactly
<1> QED
  BY <1>1, <1>2, <1>3, InitInv, NextKeepsInv, JournalStaysSound, PTL DEF Spec
=============================================================================
