------------------------- MODULE BankALedgerProofs -------------------------
(***************************************************************************)
(* Bank A's ledger is type correct, the balance a handler checked stays    *)
(* the payer's balance until its entries are appended, and no customer is  *)
(* ever overdrawn: for any number of requests, accounts, connections and   *)
(* failures.                                                               *)
(***************************************************************************)
EXTENDS BankALedger, TLAPS


\* The rows of a well-typed handler are rows of the tables.
LEMMA RowTypes ==
    ASSUME TypeOK, NEW h \in Handlers
    PROVE  /\ TransferRow(h) \in TransferRows
           /\ EntryRows(h) \subseteq LedgerRows
           /\ req[h].kind = "interbank" => /\ InterbankRow(h) \in InterbankRows
                                           /\ OutboxRow(h) \in OutboxRows
<1>1. req[h] \in RequestType /\ WellFormed(req[h])
  BY RequestsAssumption DEF TypeOK
<1>2. KeyOf(h) \in Keys \cup Handlers
  BY <1>1 DEF KeyOf, RequestType, WellFormed, LocalRequest, InterbankRequest, SeedRequest
<1>3. /\ req[h].payer \in Accounts
      /\ req[h].payee \in Accounts
      /\ req[h].amount \in Nat \ {0}
      /\ req[h].to \in Destinations \cup {None}
  BY <1>1 DEF RequestType
<1>4. TransferRow(h) \in TransferRows
  BY <1>2, <1>3 DEF TransferRow, TransferRows
<1>5. EntryRows(h) \subseteq LedgerRows
  BY <1>3 DEF EntryRows, LedgerRows
<1>6. InterbankRow(h) \in InterbankRows /\ OutboxRow(h) \in OutboxRows
  BY <1>3 DEF InterbankRow, OutboxRow, InterbankRows, OutboxRows
<1> QED
  BY <1>4, <1>5, <1>6

\* The double entry takes the amount from the payer and gives it to the payee.
LEMMA DoubleEntry ==
    ASSUME NEW h \in Handlers, NEW a \in Accounts,
           req[h].payer # req[h].payee
    PROVE  NetEffect(EntryRows(h), a) =
             IF a = req[h].payer THEN -req[h].amount
             ELSE IF a = req[h].payee THEN req[h].amount ELSE 0
<1> DEFINE debit == [transfer |-> h, account |-> req[h].payer, amount |-> -req[h].amount]
           credit == [transfer |-> h, account |-> req[h].payee, amount |-> req[h].amount]
<1>1. EntryRows(h) = {debit, credit}
  BY DEF EntryRows
<1>2. debit.account = req[h].payer /\ debit.amount = -req[h].amount
  OBVIOUS
<1>3. credit.account = req[h].payee /\ credit.amount = req[h].amount
  OBVIOUS
<1> HIDE DEF debit, credit
<1>4. CASE a = req[h].payer
  <2>1. (CHOOSE e \in EntryRows(h) : e.account = a) = debit
    BY <1>1, <1>2, <1>3, <1>4
  <2>2. \E e \in EntryRows(h) : e.account = a
    BY <1>1, <1>2, <1>4
  <2> QED
    BY <1>2, <1>4, <2>1, <2>2 DEF NetEffect
<1>5. CASE a = req[h].payee
  <2>1. (CHOOSE e \in EntryRows(h) : e.account = a) = credit
    BY <1>1, <1>2, <1>3, <1>5
  <2>2. \E e \in EntryRows(h) : e.account = a
    BY <1>1, <1>3, <1>5
  <2> QED
    BY <1>3, <1>5, <2>1, <2>2 DEF NetEffect
<1>6. CASE a # req[h].payer /\ a # req[h].payee
  <2>1. ~ \E e \in EntryRows(h) : e.account = a
    BY <1>1, <1>2, <1>3, <1>6
  <2> QED
    BY <1>6, <2>1 DEF NetEffect
<1> QED
  BY <1>4, <1>5, <1>6

\* A transaction's entries change no account by anything but an integer.
LEMMA NetEffectType ==
    ASSUME NEW rows \in SUBSET LedgerRows, NEW a
    PROVE  NetEffect(rows, a) \in Int
<1>1. CASE \E e \in rows : e.account = a
  <2>1. (CHOOSE e \in rows : e.account = a) \in LedgerRows
    BY <1>1
  <2> QED
    BY <1>1, <2>1 DEF NetEffect, LedgerRows
<1>2. CASE ~ \E e \in rows : e.account = a
  BY <1>2 DEF NetEffect
<1> QED
  BY <1>1, <1>2

\* Ending a transaction keeps the lock tables and buffers well typed.
LEMMA EndTxTypes ==
    ASSUME TypeOK, NEW h \in Handlers, EndTx(h)
    PROVE  /\ xlock' \in [Accounts -> Handlers \cup {None}]
           /\ slock' \in [Accounts -> SUBSET Handlers]
           /\ tx' \in [Handlers -> [transfers: SUBSET TransferRows, entries: SUBSET LedgerRows,
                                    interbank: SUBSET InterbankRows, outbox: SUBSET OutboxRows]]
<1> DEFINE Tx == [transfers: SUBSET TransferRows, entries: SUBSET LedgerRows,
                  interbank: SUBSET InterbankRows, outbox: SUBSET OutboxRows]
<1>1. EmptyTx \in Tx
  BY DEF EmptyTx
<1> HIDE DEF Tx
<1>2. tx \in [Handlers -> Tx] /\ tx' = [tx EXCEPT ![h] = EmptyTx]
  BY DEF TypeOK, EndTx, Tx
<1>3. tx' \in [Handlers -> Tx]
  BY <1>1, <1>2
<1>4. xlock' \in [Accounts -> Handlers \cup {None}]
  BY DEF TypeOK, EndTx
<1>5. slock' \in [Accounts -> SUBSET Handlers]
  BY DEF TypeOK, EndTx
<1> QED
  BY <1>3, <1>4, <1>5 DEF Tx

\* A replay answers with a committed transfer's id or with a conflict.
LEMMA ReplayTypes ==
    ASSUME TypeOK, NEW h \in Handlers, Replay(h)
    PROVE  /\ pc' = [pc EXCEPT ![h] = "done"]
           /\ answer' \in [Handlers -> [status: Statuses, transfer: Handlers \cup {None}]]
<1>1. PICK t \in transfers : \/ Respond(h, "ok", t.id)
                             \/ Respond(h, "conflict", None)
  BY DEF Replay
<1>2. t.id \in Handlers
  BY DEF TypeOK, TransferRows
<1>3. PICK a \in [status: Statuses, transfer: Handlers \cup {None}] :
          answer' = [answer EXCEPT ![h] = a]
  BY <1>1, <1>2 DEF Respond, Statuses
<1>4. pc' = [pc EXCEPT ![h] = "done"]
  BY <1>1 DEF Respond, Goto
<1> QED
  BY <1>3, <1>4 DEF TypeOK

\* A transaction that takes effect adds well-typed rows and integer amounts.
LEMMA PublishTypes ==
    ASSUME TypeOK, NEW h \in Handlers, Publish(h)
    PROVE  /\ transfers' \subseteq TransferRows
           /\ entries' \subseteq LedgerRows
           /\ interbank' \subseteq InterbankRows
           /\ outbox' \subseteq OutboxRows
           /\ balance' \in [Accounts -> Int]
<1>1. /\ tx[h].transfers \in SUBSET TransferRows
      /\ tx[h].entries \in SUBSET LedgerRows
      /\ tx[h].interbank \in SUBSET InterbankRows
      /\ tx[h].outbox \in SUBSET OutboxRows
  BY DEF TypeOK
<1>2. balance' \in [Accounts -> Int]
  <2>1. \A a \in Accounts : balance[a] + NetEffect(tx[h].entries, a) \in Int
    BY <1>1, NetEffectType DEF TypeOK
  <2> QED
    BY <2>1 DEF Publish
<1> QED
  BY <1>1, <1>2 DEF TypeOK, Publish

\* Every step keeps every variable well typed.
LEMMA TypeStep == TypeOK /\ [Next]_vars => TypeOK'
<1> SUFFICES ASSUME TypeOK, [Next]_vars
             PROVE  TypeOK'
  OBVIOUS
<1>1. ASSUME NEW c \in Customers, CreateAccount(c)
      PROVE  TypeOK'
  BY <1>1 DEF TypeOK, CreateAccount, Accounts
<1>2. ASSUME NEW h \in Handlers, Arrive(h)
      PROVE  TypeOK'
  <2>1. CASE \E s \in {"invalid", "notfound"} : Respond(h, s, None)
    BY <1>2, <2>1 DEF TypeOK, Arrive, Respond, Goto, tables, Statuses
  <2>2. CASE \E l \in {"find", "connect"} : Goto(h, l) /\ UNCHANGED answer
    BY <1>2, <2>2 DEF TypeOK, Arrive, Goto, tables
  <2> QED
    BY <1>2, <2>1, <2>2 DEF Arrive
<1>3. ASSUME NEW h \in Handlers, FindByKey(h)
      PROVE  TypeOK'
  <2>1. CASE Replay(h)
    BY <1>3, <2>1, ReplayTypes DEF TypeOK, FindByKey, tables
  <2>2. CASE Goto(h, "connect") /\ UNCHANGED answer
    BY <1>3, <2>2 DEF TypeOK, FindByKey, Goto, tables
  <2> QED
    BY <1>3, <2>1, <2>2 DEF FindByKey
<1>4. ASSUME NEW h \in Handlers, Begin(h)
      PROVE  TypeOK'
  BY <1>4 DEF TypeOK, Begin, Goto, Open, tables
<1>5. ASSUME NEW h \in Handlers, LockAccount(h)
      PROVE  TypeOK'
  <2>1. PICK a \in Accounts :
          \/ RollbackWith(h, "notfound")
          \/ /\ xlock' = [xlock EXCEPT ![a] = h]
             /\ Goto(h, IF \A b \in LockSet(h) \ {a} : xlock[b] = h
                        THEN "insert" ELSE "lock")
             /\ UNCHANGED <<slock, tx, answer>>
    BY <1>5 DEF LockAccount
  <2>2. CASE RollbackWith(h, "notfound")
    BY <1>5, <2>2, EndTxTypes DEF TypeOK, LockAccount, RollbackWith, Respond, Goto, tables, Statuses
  <2>3. CASE /\ xlock' = [xlock EXCEPT ![a] = h]
             /\ Goto(h, IF \A b \in LockSet(h) \ {a} : xlock[b] = h
                        THEN "insert" ELSE "lock")
             /\ UNCHANGED <<slock, tx, answer>>
    BY <1>5, <2>3 DEF TypeOK, LockAccount, Goto, Open, tables
  <2> QED
    BY <2>1, <2>2, <2>3
<1>6. ASSUME NEW h \in Handlers, InsertTransfer(h)
      PROVE  TypeOK'
  <2>1. CASE RollbackWith(h, "error")
    BY <1>6, <2>1, EndTxTypes DEF TypeOK, InsertTransfer, RollbackWith, Respond, Goto, tables, Statuses
  <2>2. CASE EndTx(h) /\ Goto(h, "winner") /\ UNCHANGED answer
    BY <1>6, <2>2, EndTxTypes DEF TypeOK, InsertTransfer, Goto, tables
  <2>3. CASE /\ tx' = [tx EXCEPT ![h].transfers = {TransferRow(h)}]
             /\ Goto(h, "fk")
             /\ UNCHANGED <<xlock, slock, answer>>
    <3> DEFINE Tx == [transfers: SUBSET TransferRows, entries: SUBSET LedgerRows,
                      interbank: SUBSET InterbankRows, outbox: SUBSET OutboxRows]
    <3>1. tx[h] \in Tx /\ {TransferRow(h)} \subseteq TransferRows
      BY RowTypes DEF TypeOK
    <3>2. [tx[h] EXCEPT !.transfers = {TransferRow(h)}] \in Tx
      BY <3>1
    <3>3. tx' \in [Handlers -> Tx]
      BY <2>3, <3>2 DEF TypeOK
    <3> HIDE DEF Tx
    <3>4. pc' \in [Handlers -> {"idle", "find", "connect", "winner", "readback", "done"} \cup Open]
      BY <2>3 DEF TypeOK, Goto, Open
    <3>5. UNCHANGED <<tables, req, checked, failures, xlock, slock, answer>>
      BY <1>6, <2>3 DEF InsertTransfer
    <3> QED
      BY <3>3, <3>4, <3>5 DEF TypeOK, tables, Tx
  <2> QED
    BY <1>6, <2>1, <2>2, <2>3 DEF InsertTransfer
<1>7. ASSUME NEW h \in Handlers, CheckForeignKeys(h)
      PROVE  TypeOK'
  BY <1>7 DEF TypeOK, CheckForeignKeys, Goto, Open, tables
<1>8. ASSUME NEW h \in Handlers, CheckBalance(h)
      PROVE  TypeOK'
  <2>1. CASE \E s \in {"unreadable", "insufficient"} :
                RollbackWith(h, s) /\ UNCHANGED checked
    BY <1>8, <2>1, EndTxTypes DEF TypeOK, CheckBalance, RollbackWith, Respond, Goto, tables, Statuses
  <2>2. CASE /\ checked' = [checked EXCEPT ![h] = balance[req[h].payer]]
             /\ Goto(h, "write")
             /\ UNCHANGED <<tx, xlock, slock, answer>>
    <3>1. balance[req[h].payer] \in Int
      BY RequestsAssumption DEF TypeOK, RequestType
    <3> QED
      BY <1>8, <2>2, <3>1 DEF TypeOK, CheckBalance, Goto, Open, tables
  <2> QED
    BY <1>8, <2>1, <2>2 DEF CheckBalance
<1>9. ASSUME NEW h \in Handlers, WriteRows(h)
      PROVE  TypeOK'
  BY <1>9, RowTypes DEF TypeOK, WriteRows, Goto, Open, tables
<1>10. ASSUME NEW h \in Handlers, Commit(h) \/ CommitUnheard(h)
       PROVE  TypeOK'
  <2>1. Publish(h)
    BY <1>10 DEF Commit, CommitUnheard
  <2>2. EndTx(h)
    BY <2>1 DEF Publish
  <2>3. /\ pc' \in [Handlers -> {"idle", "find", "connect", "winner", "readback", "done"} \cup Open]
        /\ answer' \in [Handlers -> [status: Statuses, transfer: Handlers \cup {None}]]
    <3>1. CASE Goto(h, "readback") /\ UNCHANGED answer
      BY <3>1 DEF Goto, TypeOK
    <3>2. CASE \E s \in {"ok", "error"}, t \in {h, None} : Respond(h, s, t)
      BY <3>2 DEF Respond, Goto, TypeOK, Statuses
    <3> QED
      BY <1>10, <3>1, <3>2 DEF Commit, CommitUnheard
  <2>4. /\ accounts' \subseteq Accounts
        /\ req' \in [Handlers -> Requests]
        /\ checked' \in [Handlers -> Int]
        /\ failures' \in 0..MaxFailures
    BY <1>10, BoundsAssumption DEF Commit, CommitUnheard, TypeOK
  <2> QED
    BY <2>1, <2>2, <2>3, <2>4, EndTxTypes, PublishTypes DEF TypeOK
<1>11. ASSUME NEW h \in Handlers, Fail(h)
       PROVE  TypeOK'
  BY <1>11, EndTxTypes, BoundsAssumption
  DEF TypeOK, Fail, RollbackWith, Respond, Goto, tables, Statuses
<1>12. ASSUME NEW h \in Handlers, ReadWinner(h)
       PROVE  TypeOK'
  <2>1. CASE Replay(h)
    BY <1>12, <2>1, ReplayTypes DEF TypeOK, ReadWinner, tables
  <2>2. CASE Respond(h, "vanished", None)
    BY <1>12, <2>2 DEF TypeOK, ReadWinner, Respond, Goto, tables, Statuses
  <2> QED
    BY <1>12, <2>1, <2>2 DEF ReadWinner
<1>13. ASSUME NEW h \in Handlers, ReadBack(h)
       PROVE  TypeOK'
  <2>1. CASE Respond(h, "ok", h)
    BY <1>13, <2>1 DEF TypeOK, ReadBack, Respond, Goto, tables, Statuses
  <2>2. CASE Respond(h, "unreadable", None)
    BY <1>13, <2>2 DEF TypeOK, ReadBack, Respond, Goto, tables, Statuses
  <2> QED
    BY <1>13, <2>1, <2>2 DEF ReadBack
<1>14. CASE UNCHANGED vars
  BY <1>14 DEF TypeOK, vars
<1> QED
  BY <1>1, <1>2, <1>3, <1>4, <1>5, <1>6, <1>7, <1>8, <1>9, <1>10, <1>11, <1>12,
     <1>13, <1>14 DEF Next, Progress

\* The migrated, funded database and idle handlers are well typed.
LEMMA TypeInit == Init => TypeOK
BY OpeningAssumption, BoundsAssumption
DEF Init, TypeOK, EmptyTx, Accounts, Statuses, Open

\* Whatever Bank A's requests do, every table, lock and answer is well formed.
THEOREM TypeCorrect == Spec => []TypeOK
BY TypeInit, TypeStep, PTL DEF Spec

----------------------------------------------------------------------------
\* The lock protocol: everything in LedgerInv but types and money.
Protocol == LocksExclude /\ LocksHeld /\ SharesHeld /\ EntriesBuffered

\* A transaction that ends gives up its locks and its buffer, nobody else's.
LEMMA EndTxKeepsProtocol ==
    ASSUME TypeOK, Protocol, NEW h \in Handlers, EndTx(h), UNCHANGED req,
           NEW l \in {"done", "winner", "readback"}, Goto(h, l)
    PROVE  Protocol'
<1>1. \A g \in Handlers : /\ g # h => pc'[g] = pc[g] /\ tx'[g] = tx[g]
                         /\ tx'[h] = EmptyTx /\ pc'[h] = l
  BY DEF TypeOK, EndTx, Goto
<1>2. \A a \in Accounts : /\ xlock'[a] = IF xlock[a] = h THEN None ELSE xlock[a]
                         /\ slock'[a] = slock[a] \ {h}
  BY DEF EndTx
<1>3. \A g \in Handlers : /\ LockSet(g)' = LockSet(g)
                         /\ Parties(g)' = Parties(g)
                         /\ EntryRows(g)' = EntryRows(g)
  BY DEF LockSet, Parties, EntryRows
<1>4. \A g \in Handlers : LockSet(g) \subseteq Accounts /\ Parties(g) \subseteq Accounts
  BY RequestsAssumption DEF TypeOK, RequestType, LockSet, Parties
<1>5. LocksExclude'
  BY <1>2, NamesAssumption DEF Protocol, LocksExclude
<1>6. LocksHeld'
  BY <1>1, <1>2, <1>3, <1>4 DEF Protocol, LocksHeld
<1>7. SharesHeld'
  BY <1>1, <1>2, <1>3, <1>4 DEF Protocol, SharesHeld
<1>8. EntriesBuffered'
  BY <1>1, <1>3 DEF Protocol, EntriesBuffered, EmptyTx
<1> QED
  BY <1>5, <1>6, <1>7, <1>8 DEF Protocol

\* A step that leaves locks, buffers and requests alone, and moves a handler
\* nowhere that needs more locks than it has.
LEMMA MoveKeepsProtocol ==
    ASSUME TypeOK, Protocol, UNCHANGED <<tx, xlock, slock, req>>, NEW h \in Handlers,
           NEW l \in {"find", "connect", "lock", "insert", "done"}, Goto(h, l),
           pc[h] \in {"idle", "find", "connect", "winner", "readback"},
           l = "insert" => LockSet(h) = {}
    PROVE  Protocol'
<1>1. \A g \in Handlers : /\ pc'[g] = IF g = h THEN l ELSE pc[g]
                         /\ LockSet(g)' = LockSet(g)
                         /\ Parties(g)' = Parties(g)
                         /\ EntryRows(g)' = EntryRows(g)
  BY DEF TypeOK, Goto, LockSet, Parties, EntryRows
<1>2. LocksExclude'
  BY DEF Protocol, LocksExclude
<1>3. LocksHeld'
  BY <1>1 DEF Protocol, LocksHeld
<1>4. SharesHeld'
  BY <1>1 DEF Protocol, SharesHeld
<1>5. EntriesBuffered'
  BY <1>1 DEF Protocol, EntriesBuffered
<1> QED
  BY <1>2, <1>3, <1>4, <1>5 DEF Protocol

\* Only LockAccount takes rows FOR UPDATE, and it takes them free.
LEMMA LockKeepsProtocol ==
    ASSUME TypeOK, Protocol, NEW h \in Handlers, LockAccount(h)
    PROVE  Protocol'
<1>1. PICK a \in Accounts :
        /\ NextLock(h, a)
        /\ \/ RollbackWith(h, "notfound")
           \/ /\ FreeForUpdate(h, a)
              /\ xlock' = [xlock EXCEPT ![a] = h]
              /\ Goto(h, IF \A b \in LockSet(h) \ {a} : xlock[b] = h
                         THEN "insert" ELSE "lock")
              /\ UNCHANGED <<slock, tx, answer>>
  BY DEF LockAccount
<1>2. pc[h] = "lock" /\ UNCHANGED req
  BY DEF LockAccount
<1>3. CASE RollbackWith(h, "notfound")
  BY <1>2, <1>3, EndTxKeepsProtocol DEF RollbackWith, Respond
<1>4. CASE /\ FreeForUpdate(h, a)
           /\ xlock' = [xlock EXCEPT ![a] = h]
           /\ Goto(h, IF \A b \in LockSet(h) \ {a} : xlock[b] = h
                      THEN "insert" ELSE "lock")
           /\ UNCHANGED <<slock, tx, answer>>
  <2>1. \A g \in Handlers : /\ g # h => pc'[g] = pc[g]
                           /\ tx'[g] = tx[g]
                           /\ LockSet(g)' = LockSet(g)
                           /\ Parties(g)' = Parties(g)
                           /\ EntryRows(g)' = EntryRows(g)
    BY <1>2, <1>4 DEF TypeOK, Goto, LockSet, Parties, EntryRows
  <2>2. \A g \in Handlers : LockSet(g) \subseteq Accounts
    BY RequestsAssumption DEF TypeOK, RequestType, LockSet, Parties
  <2>3. /\ pc'[h] \in {"insert", "lock"}
        /\ pc'[h] = "insert" => \A b \in LockSet(h) \ {a} : xlock[b] = h
    BY <1>4 DEF TypeOK, Goto
  <2>4. xlock'[a] = h /\ \A b \in Accounts \ {a} : xlock'[b] = xlock[b]
    BY <1>4 DEF TypeOK
  <2>5. xlock[a] = None /\ slock[a] \subseteq {h} /\ slock' = slock
    BY <1>4 DEF FreeForUpdate
  <2>6. LocksExclude'
    BY <2>4, <2>5 DEF Protocol, LocksExclude
  <2>7. LocksHeld'
    BY <2>1, <2>2, <2>3, <2>4, <2>5, NamesAssumption DEF Protocol, LocksHeld
  <2>8. SharesHeld'
    BY <2>1, <2>3, <2>5 DEF Protocol, SharesHeld
  <2>9. EntriesBuffered'
    BY <1>2, <2>1, <2>3 DEF Protocol, EntriesBuffered
  <2> QED
    BY <2>6, <2>7, <2>8, <2>9 DEF Protocol
<1> QED
  BY <1>1, <1>3, <1>4

\* Foreign keys share a row only with transactions that do not hold it.
LEMMA ForeignKeysKeepProtocol ==
    ASSUME TypeOK, Protocol, NEW h \in Handlers, CheckForeignKeys(h)
    PROVE  Protocol'
<1>1. \A g \in Handlers : /\ g # h => pc'[g] = pc[g]
                         /\ tx'[g] = tx[g]
                         /\ LockSet(g)' = LockSet(g)
                         /\ Parties(g)' = Parties(g)
                         /\ EntryRows(g)' = EntryRows(g)
  BY DEF CheckForeignKeys, TypeOK, Goto, LockSet, Parties, EntryRows
<1>2. Parties(h) \subseteq Accounts
  BY RequestsAssumption DEF TypeOK, RequestType, Parties
<1>3. pc[h] = "fk" /\ pc'[h] \in {"write", "check"} /\ UNCHANGED <<xlock, req>>
  BY DEF CheckForeignKeys, TypeOK, Goto
<1>4. \A a \in Accounts :
        slock'[a] = IF a \in Parties(h) THEN slock[a] \cup {h} ELSE slock[a]
  BY DEF CheckForeignKeys
<1>5. \A a \in Parties(h) : xlock[a] \in {None, h}
  BY DEF CheckForeignKeys, FreeForShare
<1>6. LocksExclude'
  <2> SUFFICES ASSUME NEW a \in Accounts, NEW g \in Handlers, xlock'[a] = g
               PROVE  slock'[a] \subseteq {g}
    BY DEF LocksExclude
  <2>1. xlock[a] = g /\ slock[a] \subseteq {g}
    BY <1>3 DEF Protocol, LocksExclude
  <2>2. a \in Parties(h) => g = h
    BY <1>5, <2>1, NamesAssumption
  <2> QED
    BY <1>4, <2>1, <2>2
<1>7. LocksHeld'
  BY <1>1, <1>3 DEF Protocol, LocksHeld
<1>8. SharesHeld'
  <2>1. \A g \in Handlers : Parties(g) \subseteq Accounts
    BY RequestsAssumption DEF TypeOK, RequestType, Parties
  <2> QED
    BY <1>1, <1>2, <1>3, <1>4, <2>1 DEF Protocol, SharesHeld
<1>9. EntriesBuffered'
  BY <1>1, <1>3 DEF Protocol, EntriesBuffered
<1> QED
  BY <1>6, <1>7, <1>8, <1>9 DEF Protocol

\* The insert of the transfer row buffers no ledger entry yet.
LEMMA InsertKeepsProtocol ==
    ASSUME TypeOK, Protocol, NEW h \in Handlers, InsertTransfer(h)
    PROVE  Protocol'
<1>1. pc[h] = "insert" /\ UNCHANGED req
  BY DEF InsertTransfer
<1>2. CASE RollbackWith(h, "error")
  BY <1>1, <1>2, EndTxKeepsProtocol DEF RollbackWith, Respond
<1>3. CASE EndTx(h) /\ Goto(h, "winner")
  BY <1>1, <1>3, EndTxKeepsProtocol
<1>4. CASE /\ req[h].payer # req[h].payee
           /\ tx' = [tx EXCEPT ![h].transfers = {TransferRow(h)}]
           /\ Goto(h, "fk")
           /\ UNCHANGED <<xlock, slock, answer>>
  <2>1. \A g \in Handlers : /\ pc'[g] = IF g = h THEN "fk" ELSE pc[g]
                           /\ tx'[g].entries = tx[g].entries
                           /\ LockSet(g)' = LockSet(g)
                           /\ Parties(g)' = Parties(g)
                           /\ EntryRows(g)' = EntryRows(g)
    BY <1>1, <1>4 DEF TypeOK, Goto, LockSet, Parties, EntryRows
  <2>2. LocksExclude'
    BY <1>4 DEF Protocol, LocksExclude
  <2>3. LocksHeld'
    BY <1>1, <1>4, <2>1 DEF Protocol, LocksHeld
  <2>4. SharesHeld'
    BY <1>4, <2>1 DEF Protocol, SharesHeld
  <2>5. EntriesBuffered'
    BY <1>1, <1>4, <2>1 DEF Protocol, EntriesBuffered
  <2> QED
    BY <2>2, <2>3, <2>4, <2>5 DEF Protocol
<1> QED
  BY <1>2, <1>3, <1>4 DEF InsertTransfer

\* A handler that passed its foreign keys moves on with its locks and shares.
LEMMA WritesKeepProtocol ==
    ASSUME TypeOK, Protocol, NEW h \in Handlers, UNCHANGED <<xlock, slock, req>>,
           \/ pc[h] = "check" /\ Goto(h, "write") /\ UNCHANGED tx
           \/ WriteRows(h)
    PROVE  Protocol'
<1>1. \A g \in Handlers : /\ g # h => pc'[g] = pc[g] /\ tx'[g] = tx[g]
                         /\ LockSet(g)' = LockSet(g)
                         /\ Parties(g)' = Parties(g)
                         /\ EntryRows(g)' = EntryRows(g)
  BY DEF TypeOK, WriteRows, Goto, LockSet, Parties, EntryRows
<1>2. /\ pc[h] \in {"check", "write"}
      /\ pc'[h] \in {"write", "commit"}
      /\ tx'[h].entries = IF pc'[h] = "commit" THEN EntryRows(h) ELSE tx[h].entries
  BY DEF TypeOK, WriteRows, Goto
<1>3. LocksExclude'
  BY DEF Protocol, LocksExclude
<1>4. LocksHeld'
  BY <1>1, <1>2 DEF Protocol, LocksHeld
<1>5. SharesHeld'
  BY <1>1, <1>2 DEF Protocol, SharesHeld
<1>6. EntriesBuffered'
  BY <1>1, <1>2 DEF Protocol, EntriesBuffered
<1> QED
  BY <1>3, <1>4, <1>5, <1>6 DEF Protocol

\* Every step keeps the lock protocol.
LEMMA ProtocolStep == TypeOK /\ Protocol /\ [Next]_vars => Protocol'
<1> SUFFICES ASSUME TypeOK, Protocol, [Next]_vars
             PROVE  Protocol'
  OBVIOUS
<1>1. ASSUME NEW c \in Customers, CreateAccount(c)
      PROVE  Protocol'
  BY <1>1 DEF CreateAccount, Protocol, LocksExclude, LocksHeld, SharesHeld,
              EntriesBuffered, LockSet, Parties, EntryRows
<1>2. ASSUME NEW h \in Handlers, Arrive(h)
      PROVE  Protocol'
  <2>1. \E l \in {"find", "connect", "done"} : Goto(h, l)
    BY <1>2 DEF Arrive, Respond
  <2> QED
    BY <1>2, <2>1, MoveKeepsProtocol DEF Arrive
<1>3. ASSUME NEW h \in Handlers, FindByKey(h) \/ ReadWinner(h) \/ ReadBack(h)
      PROVE  Protocol'
  <2>1. \E l \in {"connect", "done"} : Goto(h, l)
    BY <1>3 DEF FindByKey, ReadWinner, ReadBack, Replay, Respond
  <2> QED
    BY <1>3, <2>1, MoveKeepsProtocol DEF FindByKey, ReadWinner, ReadBack
<1>4. ASSUME NEW h \in Handlers, Begin(h)
      PROVE  Protocol'
  <2>1. CASE LockSet(h) = {} /\ Goto(h, "insert")
    BY <1>4, <2>1, MoveKeepsProtocol DEF Begin
  <2>2. CASE Goto(h, "lock")
    BY <1>4, <2>2, MoveKeepsProtocol DEF Begin
  <2> QED
    BY <1>4, <2>1, <2>2 DEF Begin
<1>5. ASSUME NEW h \in Handlers, CheckBalance(h)
      PROVE  Protocol'
  <2>1. CASE \E s \in {"unreadable", "insufficient"} : RollbackWith(h, s)
    BY <1>5, <2>1, EndTxKeepsProtocol DEF CheckBalance, RollbackWith, Respond
  <2>2. CASE Goto(h, "write") /\ UNCHANGED <<tx, xlock, slock, answer>>
    BY <1>5, <2>2, WritesKeepProtocol DEF CheckBalance
  <2> QED
    BY <1>5, <2>1, <2>2 DEF CheckBalance
<1>6. ASSUME NEW h \in Handlers, Commit(h) \/ CommitUnheard(h) \/ Fail(h)
      PROVE  Protocol'
  <2>1. EndTx(h) /\ UNCHANGED req /\ \E l \in {"done", "readback"} : Goto(h, l)
    BY <1>6 DEF Commit, CommitUnheard, Fail, Publish, RollbackWith, Respond
  <2> QED
    BY <2>1, EndTxKeepsProtocol
<1>7. ASSUME NEW h \in Handlers, WriteRows(h)
      PROVE  Protocol'
  BY <1>7, WritesKeepProtocol DEF WriteRows
<1>8. CASE UNCHANGED vars
  BY <1>8 DEF vars, Protocol, LocksExclude, LocksHeld, SharesHeld,
              EntriesBuffered, LockSet, Parties, EntryRows
<1> QED
  BY <1>1, <1>2, <1>3, <1>4, <1>5, <1>6, <1>7, <1>8, LockKeepsProtocol,
     ForeignKeysKeepProtocol, InsertKeepsProtocol DEF Next, Progress

----------------------------------------------------------------------------
\* A committing transaction moves no money of a payer somebody else checked:
\* that payer is locked FOR UPDATE, and the foreign keys share locked rows
\* with nobody.
LEMMA OthersUntouched ==
    ASSUME LedgerInv, NEW h \in Handlers, NEW g \in Handlers, g # h,
           pc[h] = "commit", pc[g] \in {"write", "commit"}, req[g].kind # "seed"
    PROVE  NetEffect(tx[h].entries, req[g].payer) = 0
<1> DEFINE p == req[g].payer
<1>1. p \in Accounts /\ p \in LockSet(g)
  <2>1. req[g].kind \in {"local", "interbank", "seed"} /\ p \in Accounts
    BY RequestsAssumption DEF LedgerInv, TypeOK, RequestType
  <2>2. CASE req[g].kind = "local"
    BY <2>1, <2>2 DEF LockSet, Parties
  <2>3. CASE req[g].kind = "interbank"
    BY <2>1, <2>3 DEF LockSet
  <2> QED
    BY <2>1, <2>2, <2>3
<1>2. xlock[p] = g
  BY <1>1 DEF LedgerInv, LocksHeld
<1>3. slock[p] \subseteq {g}
  BY <1>1, <1>2 DEF LedgerInv, LocksExclude
<1>4. p \notin Parties(h)
  BY <1>3 DEF LedgerInv, SharesHeld
<1>5. tx[h].entries = EntryRows(h) /\ req[h].payer # req[h].payee
  BY DEF LedgerInv, EntriesBuffered
<1> QED
  BY <1>1, <1>4, <1>5, DoubleEntry DEF Parties

\* A commit keeps the balances others checked, and pays what the payer has.
LEMMA CommitKeepsMoney ==
    ASSUME LedgerInv, NEW h \in Handlers, pc[h] = "commit", Publish(h),
           UNCHANGED <<req, checked>>, NEW l \in {"done", "readback"}, Goto(h, l)
    PROVE  CheckedBalanceIsCurrent' /\ NoOverdraft'
<1>1. \A a \in Accounts : balance'[a] = balance[a] + NetEffect(tx[h].entries, a)
  BY DEF Publish
<1>2. balance \in [Accounts -> Int] /\ req[h] \in RequestType /\ WellFormed(req[h])
  BY RequestsAssumption DEF LedgerInv, TypeOK
<1>3. CheckedBalanceIsCurrent'
  <2> SUFFICES ASSUME NEW g \in Handlers, pc'[g] \in {"write", "commit"},
                      req[g].kind # "seed"
               PROVE  balance'[req[g].payer] = checked[g] /\ checked[g] >= req[g].amount
    BY DEF CheckedBalanceIsCurrent
  <2>1. g # h /\ pc[g] = pc'[g]
    BY DEF LedgerInv, TypeOK, Goto
  <2>2. req[g].payer \in Accounts
    BY RequestsAssumption DEF LedgerInv, TypeOK, RequestType
  <2>3. balance'[req[g].payer] = balance[req[g].payer]
    BY <1>1, <1>2, <2>1, <2>2, OthersUntouched
  <2> QED
    BY <2>1, <2>3 DEF LedgerInv, CheckedBalanceIsCurrent
<1>4. NoOverdraft'
  <2> SUFFICES ASSUME NEW c \in Customers
               PROVE  balance'[c] >= 0
    BY DEF NoOverdraft
  <2>1. c \in Accounts /\ balance[c] >= 0 /\ balance[c] \in Int
    BY <1>2 DEF Accounts, LedgerInv, NoOverdraft
  <2>2. req[h].amount \in Nat
    BY <1>2 DEF RequestType
  <2>3. balance'[c] = balance[c] + (IF c = req[h].payer THEN -req[h].amount
                                    ELSE IF c = req[h].payee THEN req[h].amount ELSE 0)
    BY <1>1, <2>1, DoubleEntry DEF LedgerInv, EntriesBuffered
  <2>4. CASE c = req[h].payer
    <3>1. req[h].kind # "seed"
      BY <1>2, <2>4, AccountsAssumption DEF WellFormed, LocalRequest, InterbankRequest, SeedRequest
    <3>2. balance[c] >= req[h].amount
      BY <2>4, <3>1 DEF LedgerInv, CheckedBalanceIsCurrent
    <3> QED
      BY <2>1, <2>2, <2>3, <2>4, <3>2
  <2>5. CASE c # req[h].payer
    BY <2>1, <2>2, <2>3, <2>5
  <2> QED
    BY <2>4, <2>5
<1> QED
  BY <1>3, <1>4

\* A step that moves no money and checks nothing keeps both.
LEMMA NoMoneyMoved ==
    ASSUME LedgerInv, UNCHANGED <<balance, checked, req>>,
           \A g \in Handlers : pc'[g] \in {"write", "commit"} /\ req[g].kind # "seed"
                                 => pc[g] \in {"write", "commit"}
    PROVE  CheckedBalanceIsCurrent' /\ NoOverdraft'
BY DEF LedgerInv, CheckedBalanceIsCurrent, NoOverdraft

\* Every step keeps checked balances current and customers solvent.
LEMMA MoneyStep == LedgerInv /\ [Next]_vars => CheckedBalanceIsCurrent' /\ NoOverdraft'
<1> SUFFICES ASSUME LedgerInv, [Next]_vars
             PROVE  CheckedBalanceIsCurrent' /\ NoOverdraft'
  OBVIOUS
<1> DEFINE Quiet == UNCHANGED <<balance, checked, req>>
<1>1. ASSUME NEW c \in Customers, CreateAccount(c)
      PROVE  CheckedBalanceIsCurrent' /\ NoOverdraft'
  BY <1>1, NoMoneyMoved DEF CreateAccount
<1>2. ASSUME NEW h \in Handlers, Quiet,
             NEW l \in {"find", "connect", "winner", "readback", "done", "lock",
                        "insert", "fk", "check"}, Goto(h, l)
      PROVE  CheckedBalanceIsCurrent' /\ NoOverdraft'
  BY <1>2, NoMoneyMoved DEF Goto, LedgerInv, TypeOK
<1>3. ASSUME NEW h \in Handlers, Arrive(h) \/ FindByKey(h) \/ ReadWinner(h) \/ ReadBack(h)
      PROVE  CheckedBalanceIsCurrent' /\ NoOverdraft'
  <2>1. \E l \in {"find", "connect", "done"} : Goto(h, l)
    BY <1>3 DEF Arrive, FindByKey, ReadWinner, ReadBack, Replay, Respond
  <2>2. Quiet
    BY <1>3 DEF Arrive, FindByKey, ReadWinner, ReadBack, tables
  <2> QED
    BY <1>2, <2>1, <2>2
<1>4. ASSUME NEW h \in Handlers, Begin(h) \/ LockAccount(h) \/ InsertTransfer(h) \/ Fail(h)
      PROVE  CheckedBalanceIsCurrent' /\ NoOverdraft'
  <2>1. \E l \in {"insert", "lock", "done", "winner", "fk"} : Goto(h, l)
    BY <1>4 DEF Begin, LockAccount, InsertTransfer, Fail, RollbackWith, Respond
  <2>2. Quiet
    BY <1>4 DEF Begin, LockAccount, InsertTransfer, Fail, tables
  <2> QED
    BY <1>2, <2>1, <2>2
<1>5. ASSUME NEW h \in Handlers, CheckForeignKeys(h)
      PROVE  CheckedBalanceIsCurrent' /\ NoOverdraft'
  BY <1>5, NoMoneyMoved DEF CheckForeignKeys, Goto, LedgerInv, TypeOK, tables
<1>6. ASSUME NEW h \in Handlers, CheckBalance(h)
      PROVE  CheckedBalanceIsCurrent' /\ NoOverdraft'
  <2>1. UNCHANGED <<balance, req>>
    BY <1>6 DEF CheckBalance, tables
  <2>2. CASE Goto(h, "done") /\ UNCHANGED checked
    BY <1>2, <2>1, <2>2
  <2>3. CASE /\ balance[req[h].payer] >= req[h].amount
             /\ checked' = [checked EXCEPT ![h] = balance[req[h].payer]]
             /\ Goto(h, "write")
    <3>1. \A g \in Handlers : g # h => checked'[g] = checked[g] /\ pc'[g] = pc[g]
      BY <2>3 DEF LedgerInv, TypeOK, Goto
    <3>2. checked'[h] = balance[req[h].payer]
      BY <2>3 DEF LedgerInv, TypeOK
    <3> QED
      BY <2>1, <2>3, <3>1, <3>2 DEF LedgerInv, CheckedBalanceIsCurrent, NoOverdraft
  <2> QED
    BY <1>6, <2>2, <2>3 DEF CheckBalance, RollbackWith, Respond
<1>7. ASSUME NEW h \in Handlers, WriteRows(h)
      PROVE  CheckedBalanceIsCurrent' /\ NoOverdraft'
  BY <1>7, NoMoneyMoved DEF WriteRows, Goto, LedgerInv, TypeOK, tables
<1>8. ASSUME NEW h \in Handlers, Commit(h) \/ CommitUnheard(h)
      PROVE  CheckedBalanceIsCurrent' /\ NoOverdraft'
  <2>1. \E l \in {"done", "readback"} : Goto(h, l)
    BY <1>8 DEF Commit, CommitUnheard, Respond
  <2>2. pc[h] = "commit" /\ Publish(h) /\ UNCHANGED <<req, checked>>
    BY <1>8 DEF Commit, CommitUnheard
  <2> QED
    BY <2>1, <2>2, CommitKeepsMoney
<1>9. CASE UNCHANGED vars
  BY <1>9, NoMoneyMoved DEF vars
<1> QED
  BY <1>1, <1>3, <1>4, <1>5, <1>6, <1>7, <1>8, <1>9 DEF Next, Progress

\* Idle handlers hold nothing, and customers start with what they have.
LEMMA LedgerInit == Init => LedgerInv
<1> SUFFICES ASSUME Init
             PROVE  LedgerInv
  OBVIOUS
<1>1. TypeOK
  BY TypeInit
<1>2. /\ \A h \in Handlers : pc[h] = "idle" /\ tx[h].entries = {}
      /\ \A a \in Accounts : xlock[a] = None
  BY DEF Init, EmptyTx
<1>3. LocksExclude /\ LocksHeld /\ SharesHeld /\ EntriesBuffered /\ CheckedBalanceIsCurrent
  BY <1>2, NamesAssumption
  DEF LocksExclude, LocksHeld, SharesHeld, EntriesBuffered, CheckedBalanceIsCurrent
<1>4. NoOverdraft
  BY OpeningAssumption DEF Init, NoOverdraft
<1> QED
  BY <1>1, <1>3, <1>4 DEF LedgerInv

\* The lock protocol and the money it protects hold throughout.
THEOREM LedgerInvariant == Spec => []LedgerInv
<1>1. LedgerInv /\ [Next]_vars => LedgerInv'
  BY TypeStep, ProtocolStep, MoneyStep DEF LedgerInv, Protocol
<1> QED
  BY <1>1, LedgerInit, PTL DEF Spec

\* transfers.service.ts:45-46: for any number of concurrent transfers,
\* interbank transfers and seeds, the checked balance is still the balance
\* when the entries are appended.
THEOREM CheckedBalanceStaysCurrent == Spec => []CheckedBalanceIsCurrent
<1>1. LedgerInv => CheckedBalanceIsCurrent
  BY DEF LedgerInv
<1> QED
  BY <1>1, LedgerInvariant, PTL

\* No interleaving of requests overdraws a customer (no double spend).
THEOREM NobodyOverdrawn == Spec => []NoOverdraft
<1>1. LedgerInv => NoOverdraft
  BY DEF LedgerInv
<1> QED
  BY <1>1, LedgerInvariant, PTL
=============================================================================
