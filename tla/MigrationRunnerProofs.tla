----------------------- MODULE MigrationRunnerProofs -----------------------
(***************************************************************************)
(* For any number of runners, files and failures: the schema is what       *)
(* schema_migrations says, and the runners' reports are true.  Only the    *)
(* holder of the advisory lock is past its first statement, so what it     *)
(* read of the table is still so when it commits.                          *)
(***************************************************************************)
EXTENDS MigrationRunner, TLAPS

Inside == {"create", "read", "loop", "record", "commit", "unlock"}
InTx == {"record", "commit"}

\* Whoever is past its first statement holds the lock.
LockOwned == \A r \in Runners : pc[r] \in Inside <=> lock = r

InOrder ==
    /\ \A i \in 1..Len(schema) : schema[i] = i
    /\ recorded = 1..Len(schema)

\* The loop of a runner is about what the schema lacks, and its transaction
\* is about the first of it.
LoopIsCurrent(r) ==
    /\ pc[r] \in {"loop"} \cup InTx => todo[r] = (1..Ships[r]) \ recorded
    /\ pc[r] \notin InTx => tx[r] = NoTx
    /\ pc[r] \in InTx => tx[r].file = Len(schema) + 1 /\ tx[r].file <= Ships[r]
    /\ pc[r] = "commit" => tx[r].record

ReportIsTrue(r) ==
    /\ thrown[r] => failures[r] > 0
    /\ pc[r] \notin {"unlock", "failed"} => ~thrown[r]
    /\ pc[r] \in {"unlock", "ok"} /\ ~thrown[r] => 1..Ships[r] \subseteq recorded
    /\ pc[r] = "failed" => failures[r] > 0

RunnerInv ==
    /\ TypeOK
    /\ LockOwned
    /\ InOrder
    /\ \A r \in Runners : LoopIsCurrent(r) /\ ReportIsTrue(r)

----------------------------------------------------------------------------
LEMMA InitRunner == Init => RunnerInv
<1> SUFFICES ASSUME Init PROVE RunnerInv
  OBVIOUS
<1>1. TypeOK
  <2>1. <<>> \in Seq(Files)
    OBVIOUS
  <2>2. failures \in [Runners -> 0..MaxFailures]
    BY RunnerAssumption DEF Init
  <2> QED
    BY <2>1, <2>2 DEF Init, TypeOK, NoTx
<1>2. LockOwned
  BY RunnerAssumption DEF Init, LockOwned, Inside
<1>3. InOrder
  BY DEF Init, InOrder
<1>4. \A r \in Runners : LoopIsCurrent(r) /\ ReportIsTrue(r)
  BY DEF Init, LoopIsCurrent, ReportIsTrue, InTx
<1> QED
  BY <1>1, <1>2, <1>3, <1>4 DEF RunnerInv

\* Two runners are never both past their first statement.
LEMMA OneInside ==
    ASSUME LockOwned, NEW r \in Runners, NEW q \in Runners,
           pc[r] \in Inside, pc[q] \in Inside
    PROVE  q = r
BY DEF LockOwned

\* A step of the runner that leaves the tables alone keeps the invariant if
\* it keeps the runner's own part of it.
LEMMA OwnStep ==
    ASSUME RunnerInv, NEW r \in Runners, UNCHANGED tables,
           TypeOK', LockOwned', LoopIsCurrent(r)', ReportIsTrue(r)',
           \A q \in Runners \ {r} : /\ pc'[q] = pc[q] /\ todo'[q] = todo[q] /\ tx'[q] = tx[q]
                                    /\ thrown'[q] = thrown[q] /\ failures'[q] = failures[q]
    PROVE  RunnerInv'
<1>1. InOrder'
  BY DEF RunnerInv, InOrder, tables
<1>2. \A q \in Runners \ {r} : LoopIsCurrent(q)' /\ ReportIsTrue(q)'
  BY DEF RunnerInv, LoopIsCurrent, ReportIsTrue, tables
<1> QED
  BY <1>1, <1>2 DEF RunnerInv

LEMMA LockRunner ==
    ASSUME RunnerInv, NEW r \in Runners, Lock(r)
    PROVE  RunnerInv'
<1> USE DEF RunnerInv
<1>1. TypeOK'
  BY DEF Lock, Goto, TypeOK, tables
<1>2. LockOwned'
  BY RunnerAssumption DEF Lock, LockFree, Goto, LockOwned, Inside, TypeOK
<1>3. LoopIsCurrent(r)' /\ ReportIsTrue(r)'
  BY DEF Lock, Goto, LoopIsCurrent, ReportIsTrue, InTx, TypeOK, tables
<1> QED
  BY <1>1, <1>2, <1>3, OwnStep DEF Lock, Goto, TypeOK

LEMMA CreateTableRunner ==
    ASSUME RunnerInv, NEW r \in Runners, CreateTable(r)
    PROVE  RunnerInv'
<1> USE DEF RunnerInv
<1>1. TypeOK'
  BY DEF CreateTable, Goto, TypeOK
<1>2. LockOwned'
  BY DEF CreateTable, Goto, LockOwned, Inside, TypeOK
<1>3. \A q \in Runners : LoopIsCurrent(q)' /\ ReportIsTrue(q)'
  BY DEF CreateTable, Goto, LoopIsCurrent, ReportIsTrue, InTx, TypeOK
<1>4. InOrder'
  BY DEF CreateTable, InOrder
<1> QED
  BY <1>1, <1>2, <1>3, <1>4

LEMMA ReadAppliedRunner ==
    ASSUME RunnerInv, NEW r \in Runners, ReadApplied(r)
    PROVE  RunnerInv'
<1> USE DEF RunnerInv
<1>1. 1..Ships[r] \subseteq Files
  BY RunnerAssumption DEF Files
<1>2. TypeOK'
  BY <1>1 DEF ReadApplied, Missing, Goto, TypeOK, tables
<1>3. LockOwned'
  BY DEF ReadApplied, Goto, LockOwned, Inside, TypeOK
<1>4. LoopIsCurrent(r)' /\ ReportIsTrue(r)'
  BY DEF ReadApplied, Missing, Goto, LoopIsCurrent, ReportIsTrue, InTx, TypeOK, tables
<1> QED
  BY <1>2, <1>3, <1>4, OwnStep DEF ReadApplied, Goto, TypeOK

\* The first file the loop lacks is the one after the last that is applied:
\* its statements find none of what they make.
LEMMA RunSqlRunner ==
    ASSUME RunnerInv, NEW r \in Runners, RunSql(r)
    PROVE  RunnerInv'
<1> USE DEF RunnerInv
<1>1. PICK f \in todo[r] :
        /\ \A g \in todo[r] : f <= g
        /\ IF \E i \in DOMAIN schema : schema[i] = f
           THEN /\ thrown' = [thrown EXCEPT ![r] = TRUE]
                /\ Goto(r, "unlock")
                /\ UNCHANGED tx
           ELSE /\ tx' = [tx EXCEPT ![r] = [file |-> f, record |-> FALSE]]
                /\ Goto(r, "record")
                /\ UNCHANGED thrown
  BY DEF RunSql
<1>2. todo[r] = (1..Ships[r]) \ (1..Len(schema)) /\ tx[r] = NoTx
  BY DEF RunSql, InOrder, LoopIsCurrent, InTx
<1>3. Ships[r] \in Nat /\ Len(schema) \in Nat /\ f \in Files
  BY RunnerAssumption DEF TypeOK, Files
<1>4. f = Len(schema) + 1 /\ f <= Ships[r]
  <2>1. f \in Nat /\ Len(schema) < f /\ f <= Ships[r]
    BY <1>2, <1>3 DEF Files
  <2>2. Len(schema) + 1 \in todo[r]
    BY <1>2, <1>3, <2>1
  <2>3. f <= Len(schema) + 1
    BY <1>1, <2>2
  <2> QED
    BY <1>3, <2>1, <2>3
<1>5. ~ \E i \in DOMAIN schema : schema[i] = f
  <2>1. DOMAIN schema = 1..Len(schema)
    BY DEF TypeOK
  <2>2. \A i \in 1..Len(schema) : schema[i] = i
    BY DEF InOrder
  <2> QED
    BY <1>3, <1>4, <2>1, <2>2
<1>6. /\ tx' = [tx EXCEPT ![r] = [file |-> f, record |-> FALSE]]
      /\ pc' = [pc EXCEPT ![r] = "record"]
      /\ UNCHANGED <<tables, lock, todo, thrown, failures>>
  BY <1>1, <1>5 DEF RunSql, Goto
<1>7. TypeOK'
  BY <1>3, <1>6 DEF TypeOK, tables
<1>8. LockOwned'
  BY <1>6 DEF RunSql, LockOwned, Inside, TypeOK
<1>9. LoopIsCurrent(r)' /\ ReportIsTrue(r)'
  BY <1>2, <1>4, <1>6 DEF RunSql, LoopIsCurrent, ReportIsTrue, InTx, TypeOK, tables
<1> QED
  BY <1>6, <1>7, <1>8, <1>9, OwnStep DEF TypeOK

LEMMA RecordRunner ==
    ASSUME RunnerInv, NEW r \in Runners, Record(r)
    PROVE  RunnerInv'
<1> USE DEF RunnerInv
<1>1. TypeOK'
  BY DEF Record, Goto, TypeOK, tables
<1>2. LockOwned'
  BY DEF Record, Goto, LockOwned, Inside, TypeOK
<1>3. LoopIsCurrent(r)' /\ ReportIsTrue(r)'
  BY DEF Record, Goto, LoopIsCurrent, ReportIsTrue, InTx, TypeOK, tables
<1> QED
  BY <1>1, <1>2, <1>3, OwnStep DEF Record, Goto, TypeOK

\* A commit adds the next file to the schema and to the table.
LEMMA PublishAdds ==
    ASSUME RunnerInv, NEW r \in Runners, pc[r] = "commit", Publish(r)
    PROVE  /\ schema' \in Seq(Files)
           /\ Len(schema') = Len(schema) + 1
           /\ recorded' = recorded \cup {tx[r].file}
           /\ recorded' \subseteq Files
           /\ tx' \in [Runners -> [file: {0} \cup Files, record: BOOLEAN]]
           /\ tx'[r] = NoTx
           /\ \A q \in Runners \ {r} : tx'[q] = tx[q]
           /\ InOrder'
<1> USE DEF RunnerInv
<1>1. tx[r].record /\ tx[r].file = Len(schema) + 1 /\ tx[r].file \in Files
  <2>1. tx[r].record /\ tx[r].file = Len(schema) + 1 /\ tx[r].file \in {0} \cup Files
    BY DEF LoopIsCurrent, InTx, TypeOK
  <2>2. Len(schema) \in Nat
    BY DEF TypeOK
  <2> QED
    BY <2>1, <2>2 DEF Files
<1>2. schema' = Append(schema, tx[r].file) /\ schema \in Seq(Files)
  BY DEF Publish, TypeOK
<1>3. schema' \in Seq(Files) /\ Len(schema') = Len(schema) + 1
  BY <1>1, <1>2
<1>4. recorded' = recorded \cup {tx[r].file}
  BY <1>1 DEF Publish
<1>5. InOrder'
  <2>1. \A i \in 1..Len(schema') : schema'[i] = i
    BY <1>1, <1>2, <1>3 DEF InOrder
  <2>2. recorded' = 1..Len(schema')
    BY <1>1, <1>2, <1>3, <1>4 DEF InOrder
  <2> QED
    BY <2>1, <2>2 DEF InOrder
<1>6. tx' = [tx EXCEPT ![r] = NoTx] /\ NoTx \in [file: {0} \cup Files, record: BOOLEAN]
  BY DEF Publish, NoTx
<1> QED
  BY <1>1, <1>3, <1>4, <1>5, <1>6 DEF TypeOK

\* What the others keep when the tables grow: they are not past the lock.
LEMMA OthersKeep ==
    ASSUME RunnerInv, NEW r \in Runners, pc[r] = "commit",
           NEW q \in Runners \ {r},
           recorded \subseteq recorded',
           pc'[q] = pc[q], tx'[q] = tx[q], thrown'[q] = thrown[q], failures'[q] = failures[q]
    PROVE  LoopIsCurrent(q)' /\ ReportIsTrue(q)'
<1>1. pc[q] \notin Inside
  BY OneInside DEF RunnerInv, Inside
<1>2. LoopIsCurrent(q)'
  BY <1>1 DEF RunnerInv, LoopIsCurrent, Inside, InTx
<1>3. ReportIsTrue(q)'
  BY DEF RunnerInv, ReportIsTrue
<1> QED
  BY <1>2, <1>3

LEMMA CommitRunner ==
    ASSUME RunnerInv, NEW r \in Runners, Commit(r)
    PROVE  RunnerInv'
<1> USE DEF RunnerInv
<1>1. pc[r] = "commit" /\ Publish(r)
  BY DEF Commit
<1>2. /\ todo' = [todo EXCEPT ![r] = @ \ {tx[r].file}]
      /\ pc' = [pc EXCEPT ![r] = "loop"]
      /\ UNCHANGED <<lock, thrown, failures>>
  BY DEF Commit, Goto
<1>3. TypeOK'
  BY <1>1, <1>2, PublishAdds DEF Publish, TypeOK
<1>4. LockOwned'
  BY <1>1, <1>2 DEF LockOwned, Inside, TypeOK
<1>5. LoopIsCurrent(r)'
  <2>1. todo[r] = (1..Ships[r]) \ recorded
    BY <1>1 DEF LoopIsCurrent, InTx
  <2> QED
    BY <1>1, <1>2, <2>1, PublishAdds DEF LoopIsCurrent, InTx, TypeOK
<1>6. ReportIsTrue(r)'
  BY <1>1, <1>2 DEF ReportIsTrue, TypeOK
<1>7. \A q \in Runners \ {r} : LoopIsCurrent(q)' /\ ReportIsTrue(q)'
  <2> SUFFICES ASSUME NEW q \in Runners \ {r} PROVE LoopIsCurrent(q)' /\ ReportIsTrue(q)'
    OBVIOUS
  <2>1. /\ recorded \subseteq recorded'
        /\ pc'[q] = pc[q] /\ tx'[q] = tx[q] /\ thrown'[q] = thrown[q]
        /\ failures'[q] = failures[q]
    BY <1>1, <1>2, PublishAdds DEF TypeOK
  <2> QED
    BY <1>1, <2>1, OthersKeep
<1> QED
  BY <1>1, <1>3, <1>4, <1>5, <1>6, <1>7, PublishAdds

LEMMA EndLoopRunner ==
    ASSUME RunnerInv, NEW r \in Runners, EndLoop(r)
    PROVE  RunnerInv'
<1> USE DEF RunnerInv
<1>1. TypeOK'
  BY DEF EndLoop, Goto, TypeOK, tables
<1>2. LockOwned'
  BY DEF EndLoop, Goto, LockOwned, Inside, TypeOK
<1>3. 1..Ships[r] \subseteq recorded
  BY DEF EndLoop, LoopIsCurrent
<1>4. LoopIsCurrent(r)' /\ ReportIsTrue(r)'
  BY <1>3 DEF EndLoop, Goto, LoopIsCurrent, ReportIsTrue, InTx, TypeOK, tables
<1> QED
  BY <1>1, <1>2, <1>4, OwnStep DEF EndLoop, Goto, TypeOK

LEMMA UnlockRunner ==
    ASSUME RunnerInv, NEW r \in Runners, Unlock(r)
    PROVE  RunnerInv'
<1> USE DEF RunnerInv
<1>1. TypeOK'
  BY DEF Unlock, Goto, TypeOK, tables
<1>2. LockOwned'
  BY RunnerAssumption DEF Unlock, Goto, LockOwned, Inside, TypeOK
<1>3. LoopIsCurrent(r)' /\ ReportIsTrue(r)'
  BY DEF Unlock, Goto, LoopIsCurrent, ReportIsTrue, InTx, TypeOK, tables
<1> QED
  BY <1>1, <1>2, <1>3, OwnStep DEF Unlock, Goto, TypeOK

\* Nothing of an open transaction is left when a statement fails.
LEMMA StatementFailsRunner ==
    ASSUME RunnerInv, NEW r \in Runners, StatementFails(r)
    PROVE  RunnerInv'
<1> USE DEF RunnerInv
<1>1. TypeOK'
  BY RunnerAssumption DEF StatementFails, Hit, NoTx, Goto, TypeOK, tables
<1>2. LockOwned'
  BY DEF StatementFails, Goto, LockOwned, Inside, TypeOK
<1>3. LoopIsCurrent(r)'
  BY DEF StatementFails, Goto, LoopIsCurrent, InTx, TypeOK
<1>4. ReportIsTrue(r)'
  BY RunnerAssumption DEF StatementFails, Hit, Goto, ReportIsTrue, TypeOK
<1> QED
  BY <1>1, <1>2, <1>3, <1>4, OwnStep DEF StatementFails, Hit, Goto, TypeOK

\* A session that ends takes its lock with it.
LEMMA SessionEnds ==
    ASSUME RunnerInv, NEW r \in Runners, EndSession(r)
    PROVE  /\ lock' \in Runners \cup {None}
           /\ pc' = [pc EXCEPT ![r] = "failed"]
           /\ thrown' = [thrown EXCEPT ![r] = TRUE]
           /\ failures' \in [Runners -> 0..MaxFailures]
           /\ failures'[r] > 0
           /\ \A q \in Runners \ {r} : failures'[q] = failures[q]
           /\ LockOwned'
<1> USE DEF RunnerInv
<1>1. LockOwned'
  BY RunnerAssumption DEF EndSession, Goto, LockOwned, Inside, TypeOK
<1>2. failures' \in [Runners -> 0..MaxFailures] /\ failures'[r] > 0
  BY RunnerAssumption DEF EndSession, Hit, TypeOK
<1> QED
  BY <1>1, <1>2 DEF EndSession, Hit, Goto, TypeOK

LEMMA CrashRunner ==
    ASSUME RunnerInv, NEW r \in Runners, Crash(r)
    PROVE  RunnerInv'
<1> USE DEF RunnerInv
<1>1. EndSession(r) /\ tx' = [tx EXCEPT ![r] = NoTx] /\ UNCHANGED <<tables, todo>>
  BY DEF Crash, EndSession
<1>2. TypeOK'
  BY <1>1, SessionEnds DEF NoTx, TypeOK, tables
<1>3. LoopIsCurrent(r)'
  BY <1>1, SessionEnds DEF LoopIsCurrent, InTx, TypeOK
<1>4. ReportIsTrue(r)'
  BY <1>1, SessionEnds DEF ReportIsTrue, TypeOK
<1>5. \A q \in Runners \ {r} : /\ pc'[q] = pc[q] /\ todo'[q] = todo[q] /\ tx'[q] = tx[q]
                               /\ thrown'[q] = thrown[q] /\ failures'[q] = failures[q]
  BY <1>1, SessionEnds DEF TypeOK
<1> QED
  BY <1>1, <1>2, <1>3, <1>4, <1>5, SessionEnds, OwnStep

LEMMA CommitUnheardRunner ==
    ASSUME RunnerInv, NEW r \in Runners, CommitUnheard(r)
    PROVE  RunnerInv'
<1> USE DEF RunnerInv
<1>1. pc[r] = "commit" /\ EndSession(r) /\ Publish(r)
  BY DEF CommitUnheard
<1>2. todo' = todo
  BY <1>1 DEF EndSession
<1>3. TypeOK'
  <2>1. /\ schema' \in Seq(Files) /\ recorded' \subseteq Files /\ tracked' = tracked
        /\ tx' \in [Runners -> [file: {0} \cup Files, record: BOOLEAN]]
    BY <1>1, PublishAdds DEF Publish
  <2>2. /\ lock' \in Runners \cup {None} /\ pc' = [pc EXCEPT ![r] = "failed"]
        /\ thrown' = [thrown EXCEPT ![r] = TRUE]
        /\ failures' \in [Runners -> 0..MaxFailures]
    BY <1>1, SessionEnds
  <2> QED
    BY <1>2, <2>1, <2>2 DEF TypeOK
<1>4. LoopIsCurrent(r)'
  <2>1. pc' = [pc EXCEPT ![r] = "failed"]
    BY <1>1, SessionEnds
  <2>2. tx'[r] = NoTx
    BY <1>1, PublishAdds
  <2> QED
    BY <2>1, <2>2 DEF LoopIsCurrent, InTx, TypeOK
<1>5. ReportIsTrue(r)'
  BY <1>1, SessionEnds DEF ReportIsTrue, TypeOK
<1>6. \A q \in Runners \ {r} : LoopIsCurrent(q)' /\ ReportIsTrue(q)'
  <2> SUFFICES ASSUME NEW q \in Runners \ {r} PROVE LoopIsCurrent(q)' /\ ReportIsTrue(q)'
    OBVIOUS
  <2>1. /\ recorded \subseteq recorded'
        /\ pc'[q] = pc[q] /\ tx'[q] = tx[q] /\ thrown'[q] = thrown[q]
        /\ failures'[q] = failures[q]
    BY <1>1, SessionEnds, PublishAdds DEF TypeOK
  <2> QED
    BY <1>1, <2>1, OthersKeep
<1> QED
  BY <1>1, <1>3, <1>4, <1>5, <1>6, SessionEnds, PublishAdds

LEMMA RerunRunner ==
    ASSUME RunnerInv, NEW r \in Runners, Rerun(r)
    PROVE  RunnerInv'
<1> USE DEF RunnerInv
<1>1. TypeOK'
  BY DEF Rerun, Goto, TypeOK, tables
<1>2. LockOwned'
  BY DEF Rerun, Goto, LockOwned, Inside, TypeOK
<1>3. LoopIsCurrent(r)' /\ ReportIsTrue(r)'
  BY DEF Rerun, Goto, LoopIsCurrent, ReportIsTrue, InTx, TypeOK, tables
<1> QED
  BY <1>1, <1>2, <1>3, OwnStep DEF Rerun, Goto, TypeOK

LEMMA StepRunner == RunnerInv /\ [Next]_vars => RunnerInv'
<1> SUFFICES ASSUME RunnerInv, [Next]_vars PROVE RunnerInv'
  OBVIOUS
<1>1. ASSUME NEW r \in Runners, Proceed(r) PROVE RunnerInv'
  BY <1>1, LockRunner, CreateTableRunner, ReadAppliedRunner, RunSqlRunner, RecordRunner,
     CommitRunner, EndLoopRunner, UnlockRunner DEF Proceed
<1>2. ASSUME NEW r \in Runners,
             StatementFails(r) \/ Crash(r) \/ CommitUnheard(r) \/ Rerun(r)
      PROVE  RunnerInv'
  BY <1>2, StatementFailsRunner, CrashRunner, CommitUnheardRunner, RerunRunner
<1>3. CASE UNCHANGED vars
  BY <1>3 DEF vars, tables, RunnerInv, TypeOK, LockOwned, InOrder, LoopIsCurrent, ReportIsTrue
<1> QED
  BY <1>1, <1>2, <1>3 DEF Next

LEMMA RunnerAlways == Spec => []RunnerInv
<1>1. Init => RunnerInv
  BY InitRunner
<1>2. RunnerInv /\ [Next]_vars => RunnerInv'
  BY StepRunner
<1> QED
  BY <1>1, <1>2, PTL DEF Spec

\* The schema is its recorded files in name order, each once
\* (SchemaIsRecorded), wherever runners fail, die and are started again.
THEOREM SchemaAlwaysRecorded == Spec => []SchemaIsRecorded
<1>1. RunnerInv => SchemaIsRecorded
  <2> SUFFICES ASSUME RunnerInv PROVE SchemaIsRecorded
    OBVIOUS
  <2>1. DOMAIN schema = 1..Len(schema)
    BY DEF RunnerInv, TypeOK
  <2> QED
    BY <2>1 DEF RunnerInv, InOrder, SchemaIsRecorded
<1> QED
  BY <1>1, RunnerAlways, PTL

\* The advisory lock serializes concurrent runners (ReportsAreTrue): one that
\* reports success has its release applied, one that fails was itself hit.
THEOREM ReportsAlwaysTrue == Spec => []ReportsAreTrue
<1>1. RunnerInv => ReportsAreTrue
  <2> SUFFICES ASSUME RunnerInv, NEW r \in Runners
               PROVE  /\ pc[r] = "ok" => 1..Ships[r] \subseteq recorded
                      /\ pc[r] = "failed" => failures[r] > 0
    BY DEF ReportsAreTrue
  <2>1. pc[r] = "ok" => ~thrown[r]
    BY DEF RunnerInv, ReportIsTrue
  <2> QED
    BY <2>1 DEF RunnerInv, ReportIsTrue
<1> QED
  BY <1>1, RunnerAlways, PTL

\* The databases, runners and their lock keep their types (TypeOK).
THEOREM TypeCorrect == Spec => []TypeOK
<1>1. RunnerInv => TypeOK
  BY DEF RunnerInv
<1> QED
  BY <1>1, RunnerAlways, PTL

----------------------------------------------------------------------------
\* A step of one runner changes the tables only by the file that is next,
\* and only together with its record.
FileByFile ==
    \/ UNCHANGED <<schema, recorded>>
    \/ /\ Len(schema) < NumFiles
       /\ schema' = Append(schema, Len(schema) + 1)
       /\ recorded' = recorded \cup {Len(schema) + 1}

LEMMA PublishFile ==
    ASSUME RunnerInv, NEW r \in Runners, pc[r] = "commit", Publish(r)
    PROVE  FileByFile
<1>1. tx[r].file = Len(schema) + 1 /\ tx[r].file <= Ships[r] /\ tx[r].record
  BY DEF RunnerInv, LoopIsCurrent, InTx
<1>2. Ships[r] <= NumFiles /\ Ships[r] \in Nat /\ NumFiles \in Nat /\ Len(schema) \in Nat
  BY RunnerAssumption DEF RunnerInv, TypeOK
<1>3. Len(schema) < NumFiles
  BY <1>1, <1>2
<1> QED
  BY <1>1, <1>3 DEF Publish, FileByFile

\* A migration is applied once and recorded in the same instant, in name
\* order, and never undone: what SchemaIsRecorded says of the states, said of
\* the steps, whichever runner takes them (migrate.ts, BEGIN to COMMIT).
THEOREM MigratedFileByFile == Spec => [][FileByFile]_vars
<1>1. ASSUME RunnerInv, Next PROVE FileByFile
  <2>1. PICK r \in Runners : Proceed(r) \/ StatementFails(r) \/ Crash(r) \/ CommitUnheard(r)
                             \/ Rerun(r)
    BY <1>1 DEF Next
  <2>2. CASE Commit(r) \/ CommitUnheard(r)
    BY <1>1, <2>2, PublishFile DEF Commit, CommitUnheard
  <2>3. CASE ~(Commit(r) \/ CommitUnheard(r))
    <3>1. UNCHANGED <<schema, recorded>>
      BY <2>1, <2>3 DEF Proceed, Lock, CreateTable, ReadApplied, RunSql, Record, EndLoop, Unlock,
         StatementFails, Crash, Rerun, tables
    <3> QED
      BY <3>1 DEF FileByFile
  <2> QED
    BY <2>2, <2>3
<1>2. RunnerInv /\ [Next]_vars => [FileByFile]_vars
  BY <1>1
<1> QED
  BY <1>2, RunnerAlways, PTL DEF Spec

----------------------------------------------------------------------------
\* Nothing that r's next statement waits for is held: not the advisory lock,
\* and no open transaction makes the tables of the file it is about to run.
Ready(r) ==
    /\ r \in Runners
    /\ pc[r] \notin {"ok", "failed"}
    /\ pc[r] = "lock" => LockFree
    /\ pc[r] = "read" => tracked
    /\ pc[r] = "loop" /\ todo[r] # {} =>
          \E f \in todo[r] : /\ \A g \in todo[r] : f <= g
                             /\ \A q \in Runners : tx[q].file # f

NobodyStuck == \A r \in Runners : pc[r] \notin {"ok", "failed"} => Ready(r) \/ Ready(lock)

\* The table is there once the lock's holder is past its first statement.
Created == \A r \in Runners : pc[r] \in Inside \ {"create", "unlock"} => tracked

LEMMA CreatedAlways == Spec => []Created
<1>1. Init => Created
  BY DEF Init, Created, Inside
<1>2. ASSUME RunnerInv, Created, [Next]_vars PROVE Created'
  <2>1. tracked => tracked'
    BY <1>2 DEF Next, Proceed, Lock, CreateTable, ReadApplied, RunSql, Record, Commit, EndLoop,
       Unlock, StatementFails, Crash, CommitUnheard, Rerun, Publish, tables, vars
  <2>2. ASSUME NEW r \in Runners, pc'[r] \in Inside \ {"create", "unlock"} PROVE tracked'
    <3>1. CASE pc[r] \in Inside \ {"create", "unlock"}
      BY <1>2, <2>1, <3>1 DEF Created
    <3>2. CASE pc[r] \notin Inside \ {"create", "unlock"}
      BY <1>2, <2>2, <3>2 DEF RunnerInv, TypeOK, Inside, Next, Proceed, Lock, CreateTable,
         ReadApplied, RunSql, Record, Commit, EndLoop, Unlock, StatementFails, Crash,
         CommitUnheard, EndSession, Rerun, Goto, vars
    <3> QED
      BY <3>1, <3>2
  <2> QED
    BY <2>2 DEF Created
<1> QED
  BY <1>1, <1>2, RunnerAlways, PTL DEF Spec

\* The runner inside never waits.
LEMMA InsideReady ==
    ASSUME RunnerInv, Created, NEW r \in Runners, pc[r] \in Inside
    PROVE  Ready(r)
<1>1. \A q \in Runners : q # r => tx[q].file = 0
  <2>1. \A q \in Runners : q # r => pc[q] \notin Inside
    BY DEF RunnerInv, LockOwned
  <2> QED
    BY <2>1 DEF RunnerInv, LoopIsCurrent, Inside, InTx, NoTx
<1>2. ASSUME pc[r] = "loop", todo[r] # {}
      PROVE  \E f \in todo[r] : /\ \A g \in todo[r] : f <= g
                                /\ \A q \in Runners : tx[q].file # f
  <2>1. Len(schema) \in Nat /\ Ships[r] \in Nat
    BY RunnerAssumption DEF RunnerInv, TypeOK
  <2>2. todo[r] = (1..Ships[r]) \ (1..Len(schema)) /\ tx[r] = NoTx
    BY <1>2 DEF RunnerInv, InOrder, LoopIsCurrent, InTx
  <2>3. Len(schema) + 1 \in todo[r] /\ \A g \in todo[r] : Len(schema) + 1 <= g
    BY <1>2, <2>1, <2>2
  <2>4. \A q \in Runners : tx[q].file # Len(schema) + 1
    <3>1. tx[r].file = 0
      BY <2>2 DEF NoTx
    <3>2. \A q \in Runners : tx[q].file = 0
      BY <1>1, <3>1
    <3>3. Len(schema) + 1 # 0
      BY <2>1
    <3> QED
      BY <3>2, <3>3
  <2> QED
    BY <2>3, <2>4
<1>3. pc[r] = "read" => tracked
  BY DEF Created, Inside
<1> QED
  BY <1>2, <1>3 DEF Ready, Inside

\* A runner waits for nobody but the one that holds the advisory lock, and
\* that one waits for nobody: the safety half of EveryRunnerEnds, for any
\* number of runners and releases.
THEOREM NobodyWaitsInACircle == Spec => []NobodyStuck
<1>1. RunnerInv /\ Created => NobodyStuck
  <2> SUFFICES ASSUME RunnerInv, Created, NEW r \in Runners, pc[r] \notin {"ok", "failed"},
                      ~Ready(r)
               PROVE  Ready(lock)
    BY DEF NobodyStuck
  <2>1. pc[r] = "lock" /\ lock # None
    <3>1. pc[r] \notin Inside
      BY InsideReady
    <3>2. pc[r] = "lock"
      BY <3>1 DEF RunnerInv, TypeOK, Inside
    <3> QED
      BY <3>2 DEF Ready, LockFree
  <2>2. lock \in Runners /\ pc[lock] \in Inside
    BY <2>1 DEF RunnerInv, TypeOK, LockOwned
  <2> QED
    BY <2>2, InsideReady
<1> QED
  BY <1>1, CreatedAlways, RunnerAlways, PTL
=============================================================================
