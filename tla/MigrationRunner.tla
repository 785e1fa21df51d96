-------------------------- MODULE MigrationRunner --------------------------
(***************************************************************************)
(* scripts/migrate.ts, which Bank A, the Hub and (in Python) Bank B each   *)
(* have a copy of: apply the files of this release that schema_migrations  *)
(* does not list, in name order, each in a transaction with its record,    *)
(* under a session advisory lock.  Several instances, of an old and a new  *)
(* release, may be started at once, fail or die, and be started again.     *)
(***************************************************************************)
EXTENDS Naturals, Sequences

CONSTANTS
    Runners,
    NumFiles,    \* files 1..NumFiles, in name order
    Ships,       \* the release of runner r has the files 1..Ships[r]
    MaxFailures, \* bound on what goes wrong with one runner
    None

VARIABLES
    tracked,  \* does the table schema_migrations exist
    recorded, \* the names in it
    schema,   \* the files whose statements the schema is the result of
    lock,     \* the runner whose session holds the advisory lock
    pc,       \* the next statement of each runner, "ok" or "failed"
    todo,     \* what its loop has still to apply
    tx,       \* its open transaction: the file, and whether its record is in
    thrown,   \* an error is on its way through finally
    failures  \* how often each runner was hit by an error or a crash

tables == <<tracked, recorded, schema>>
vars == <<tables, lock, pc, todo, tx, thrown, failures>>

Files == 1..NumFiles

NoTx == [file |-> 0, record |-> FALSE]

ASSUME RunnerAssumption ==
    /\ NumFiles \in Nat
    /\ Ships \in [Runners -> 0..NumFiles]
    /\ MaxFailures \in Nat
    /\ None \notin Runners

Goto(r, l) == pc' = [pc EXCEPT ![r] = l]

----------------------------------------------------------------------------
Init ==
    /\ tracked = FALSE
    /\ recorded = {}
    /\ schema = <<>>
    /\ lock = None
    /\ pc = [r \in Runners |-> "lock"]
    /\ todo = [r \in Runners |-> {}]
    /\ tx = [r \in Runners |-> NoTx]
    /\ thrown = [r \in Runners |-> FALSE]
    /\ failures = [r \in Runners |-> 0]

\* Mutant of LockFree: pg_try_advisory_lock, its answer not looked at.
TryLock == TRUE

\* pg_advisory_lock waits for the session that holds the key.
LockFree == lock = None

Lock(r) ==
    /\ pc[r] = "lock"
    /\ LockFree
    /\ lock' = r
    /\ Goto(r, "create")
    /\ UNCHANGED <<tables, todo, tx, thrown, failures>>

CreateTable(r) ==
    /\ pc[r] = "create"
    /\ tracked' = TRUE
    /\ Goto(r, "read")
    /\ UNCHANGED <<recorded, schema, lock, todo, tx, thrown, failures>>

\* Mutant of Missing: readdir without the filter on .sql, in a directory with a
\* file that sorts first and is no migration.
MissingUnfiltered(r) == (0..Ships[r]) \ recorded

\* The files of the release that are not in the set read from the table.
Missing(r) == (1..Ships[r]) \ recorded

ReadApplied(r) ==
    /\ pc[r] = "read"
    /\ tracked
    /\ todo' = [todo EXCEPT ![r] = Missing(r)]
    /\ Goto(r, "loop")
    /\ UNCHANGED <<tables, lock, tx, thrown, failures>>

\* BEGIN and the file's statements.  They wait for an open transaction that
\* makes the same tables, and fail if the tables are there already.
RunSql(r) ==
    /\ pc[r] = "loop"
    /\ \E f \in todo[r] :
         /\ \A g \in todo[r] : f <= g
         /\ \A q \in Runners : tx[q].file # f
         /\ IF \E i \in DOMAIN schema : schema[i] = f
            THEN /\ thrown' = [thrown EXCEPT ![r] = TRUE]
                 /\ Goto(r, "unlock")
                 /\ UNCHANGED tx
            ELSE /\ tx' = [tx EXCEPT ![r] = [file |-> f, record |-> FALSE]]
                 /\ Goto(r, "record")
                 /\ UNCHANGED thrown
    /\ UNCHANGED <<tables, lock, todo, failures>>

\* Mutant of Record: the name is inserted outside the transaction.
RecordAtOnce(r) ==
    /\ pc[r] = "record"
    /\ recorded' = recorded \cup {tx[r].file}
    /\ Goto(r, "commit")
    /\ UNCHANGED <<tracked, schema, lock, todo, tx, thrown, failures>>

Record(r) ==
    /\ pc[r] = "record"
    /\ tx' = [tx EXCEPT ![r] = [file |-> tx[r].file, record |-> TRUE]]
    /\ Goto(r, "commit")
    /\ UNCHANGED <<tables, lock, todo, thrown, failures>>

\* What COMMIT makes visible.
Publish(r) ==
    /\ schema' = Append(schema, tx[r].file)
    /\ recorded' = IF tx[r].record THEN recorded \cup {tx[r].file} ELSE recorded
    /\ tx' = [tx EXCEPT ![r] = NoTx]
    /\ UNCHANGED tracked

Commit(r) ==
    /\ pc[r] = "commit"
    /\ Publish(r)
    /\ todo' = [todo EXCEPT ![r] = @ \ {tx[r].file}]
    /\ Goto(r, "loop")
    /\ UNCHANGED <<lock, thrown, failures>>

EndLoop(r) ==
    /\ pc[r] = "loop"
    /\ todo[r] = {}
    /\ Goto(r, "unlock")
    /\ UNCHANGED <<tables, lock, todo, tx, thrown, failures>>

\* Mutant of Unlock: only a run that went well gives the lock back, and the
\* session goes back to a pool.
UnlockIfWell(r) ==
    /\ pc[r] = "unlock"
    /\ lock' = IF lock = r /\ ~thrown[r] THEN None ELSE lock
    /\ Goto(r, IF thrown[r] THEN "failed" ELSE "ok")
    /\ UNCHANGED <<tables, todo, tx, thrown, failures>>

\* finally: unlock, end the session, report.
Unlock(r) ==
    /\ pc[r] = "unlock"
    /\ lock' = IF lock = r THEN None ELSE lock
    /\ Goto(r, IF thrown[r] THEN "failed" ELSE "ok")
    /\ UNCHANGED <<tables, todo, tx, thrown, failures>>

Hit(r) ==
    /\ failures[r] < MaxFailures
    /\ failures' = [failures EXCEPT ![r] = @ + 1]

\* A statement fails: ROLLBACK if a transaction is open, then finally.
StatementFails(r) ==
    /\ pc[r] \in {"create", "read", "loop", "record", "commit"}
    /\ Hit(r)
    /\ tx' = [tx EXCEPT ![r] = NoTx]
    /\ thrown' = [thrown EXCEPT ![r] = TRUE]
    /\ Goto(r, "unlock")
    /\ UNCHANGED <<tables, lock, todo>>

\* The process dies or its session is lost, and the lock with the session.
EndSession(r) ==
    /\ Hit(r)
    /\ lock' = IF lock = r THEN None ELSE lock
    /\ thrown' = [thrown EXCEPT ![r] = TRUE]
    /\ Goto(r, "failed")
    /\ UNCHANGED todo

Crash(r) ==
    /\ pc[r] \notin {"ok", "failed"}
    /\ EndSession(r)
    /\ tx' = [tx EXCEPT ![r] = NoTx]
    /\ UNCHANGED tables

\* COMMIT takes effect and the session is lost before its answer.
CommitUnheard(r) ==
    /\ pc[r] = "commit"
    /\ EndSession(r)
    /\ Publish(r)

\* A run that failed is started again.
Rerun(r) ==
    /\ pc[r] = "failed"
    /\ thrown' = [thrown EXCEPT ![r] = FALSE]
    /\ Goto(r, "lock")
    /\ UNCHANGED <<tables, lock, todo, tx, failures>>

Proceed(r) ==
    \/ Lock(r) \/ CreateTable(r) \/ ReadApplied(r) \/ RunSql(r) \/ Record(r)
    \/ Commit(r) \/ EndLoop(r) \/ Unlock(r)

Next ==
    \E r \in Runners :
        \/ Proceed(r)
        \/ StatementFails(r) \/ Crash(r) \/ CommitUnheard(r) \/ Rerun(r)

Spec == Init /\ [][Next]_vars

\* A runner that can go on does.  Nobody need start a failed one again.
FairSpec == Spec /\ \A r \in Runners : WF_vars(Proceed(r))

----------------------------------------------------------------------------
(***************************************************************************)
(* Properties                                                              *)
(***************************************************************************)

\* Tables, lock, loops and transactions hold what the scripts put there.
TypeOK ==
    /\ tracked \in BOOLEAN
    /\ recorded \subseteq Files
    /\ schema \in Seq(Files)
    /\ lock \in Runners \cup {None}
    /\ pc \in [Runners -> {"lock", "create", "read", "loop", "record", "commit", "unlock",
                           "ok", "failed"}]
    /\ todo \in [Runners -> SUBSET Files]
    /\ tx \in [Runners -> [file: {0} \cup Files, record: BOOLEAN]]
    /\ thrown \in [Runners -> BOOLEAN]
    /\ failures \in [Runners -> 0..MaxFailures]

\* The schema is the files applied in name order, each once, and the table
\* lists exactly those: whoever ran them, of whichever release, and wherever
\* it was stopped.
SchemaIsRecorded ==
    /\ \A i \in DOMAIN schema : schema[i] = i
    /\ recorded = DOMAIN schema

\* migrate.ts:8, the key "serializes concurrent runners (e.g. two instances
\* deploying at once)": a runner reports success only on a schema that has
\* all of its release, and none fails because another one is at work.
ReportsAreTrue ==
    \A r \in Runners :
        /\ pc[r] = "ok" => 1..Ships[r] \subseteq recorded
        /\ pc[r] = "failed" => failures[r] > 0

\* No runner waits for ever, on a lock or in its loop, whatever became of the
\* runners before it.
EveryRunnerEnds ==
    \A r \in Runners : pc[r] = "lock" ~> pc[r] \in {"ok", "failed"}
=============================================================================
