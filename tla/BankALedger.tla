---------------------------- MODULE BankALedger ----------------------------
(***************************************************************************)
(* Bank A's money-moving requests, one SQL statement at a time:            *)
(*   POST /transfers               TransfersService.execute                *)
(*   POST /interbank-transfers     InterbankTransfersService.execute       *)
(*   POST /accounts/:id/dev-seed   AccountsService.devSeed                 *)
(*   POST /accounts                AccountsService.createAccount           *)
(*                                                                         *)
(* Each request is served by a handler that mints one transfer id, so the  *)
(* handler itself stands for that id.  A client's retry is another handler *)
(* with an equal request.  PostgreSQL is modelled at READ COMMITTED: a     *)
(* transaction's rows sit in tx[h] until it commits; SELECT .. FOR UPDATE  *)
(* and the FOR KEY SHARE of a foreign-key check exclude each other; the    *)
(* unique index on idempotency_key makes an insert wait for the open       *)
(* transaction that holds the key.                                         *)
(***************************************************************************)
EXTENDS Integers, FiniteSets

CONSTANTS
    Handlers,     \* the requests served, named by the transfer id each mints
    Customers,    \* accounts of customers; an account is the number its UUID sorts as
    Suspense,     \* SUSPENSE_ACCOUNT_ID
    Treasury,     \* DEV_TREASURY_ACCOUNT_ID
    Unopened,     \* customers whose account does not exist yet
    Opening,      \* balances that earlier, finished requests left behind
    Keys,         \* Idempotency-Key headers; no seed's, which is its random transfer id
    Destinations, \* the (payeeBankId, payeeAccountRef) pairs requests name
    Requests,     \* the requests clients send
    MaxSafe,      \* Number.MAX_SAFE_INTEGER, the largest balance Money accepts
    PoolSize,     \* connections in the pg Pool
    MaxFailures,  \* bound on statement failures and lost connections
    None

VARIABLES
    accounts,   \* table accounts
    transfers,  \* table transfers
    entries,    \* table ledger_entries
    interbank,  \* table interbank_transfers
    outbox,     \* table outbox_events
    balance,    \* SUM(amount) of each account's committed entries
    tx,         \* the uncommitted rows of each open transaction
    xlock,      \* the handler holding an account row FOR UPDATE
    slock,      \* the handlers holding an account row FOR KEY SHARE
    pc,         \* the statement each handler is about to run
    req,        \* the request each handler serves
    checked,    \* the balance a handler's assertPayerCanAfford was given
    answer,     \* the HTTP response
    failures    \* failures so far

tables == <<accounts, transfers, entries, interbank, outbox, balance>>
vars == <<accounts, transfers, entries, interbank, outbox, balance, tx,
          xlock, slock, pc, req, checked, answer, failures>>

Accounts == Customers \cup {Suspense, Treasury}

RequestType == [kind: {"local", "interbank", "seed"}, key: Keys \cup {None},
                payer: Accounts, payee: Accounts, amount: Nat \ {0},
                to: Destinations \cup {None}]

\* What the HTTP layer lets through: @IsUUID() of class-validator refuses the
\* ids of the suspense and treasury accounts, @IsPositive() other amounts.
LocalRequest(r) ==
    r.kind = "local" /\ r.payer \in Customers /\ r.payee \in Customers
        /\ r.key \in Keys /\ r.to = None
InterbankRequest(r) ==
    r.kind = "interbank" /\ r.payer \in Customers /\ r.payee = Suspense
        /\ r.key \in Keys /\ r.to \in Destinations

\* devSeed only parses a UUID: the treasury may be asked to fund itself.
SeedRequest(r) == r.kind = "seed" /\ r.payer = Treasury /\ r.key = None /\ r.to = None

WellFormed(r) == LocalRequest(r) \/ InterbankRequest(r) \/ SeedRequest(r)

ASSUME AccountsAssumption ==
    /\ Accounts \subseteq Nat
    /\ Suspense \notin Customers
    /\ Treasury \notin Customers
    /\ Suspense # Treasury
    /\ Unopened \subseteq Customers

ASSUME OpeningAssumption ==
    /\ Opening \in [Accounts -> Int]
    /\ \A c \in Customers : Opening[c] >= 0
    /\ \A c \in Unopened : Opening[c] = 0

ASSUME RequestsAssumption ==
    /\ Requests \subseteq RequestType
    /\ \A r \in Requests : WellFormed(r)

ASSUME NamesAssumption ==
    /\ None \notin Handlers \cup Keys \cup Destinations \cup Accounts
    /\ Handlers \cap Keys = {}

ASSUME BoundsAssumption ==
    /\ MaxSafe \in Nat
    /\ PoolSize \in Nat \ {0}
    /\ MaxFailures \in Nat

----------------------------------------------------------------------------
\* The rows a request writes.

\* devSeed's key is dev-seed-<transfer id>, which the handler stands for too.
KeyOf(h) == IF req[h].kind = "seed" THEN h ELSE req[h].key

Parties(h) == {req[h].payer, req[h].payee}

TransferRow(h) ==
    [id |-> h, key |-> KeyOf(h), payer |-> req[h].payer,
     payee |-> req[h].payee, amount |-> req[h].amount]

\* Mutant of EntryRows: a row without its transfer.
OrphanEntryRows(h) == {[transfer |-> None, account |-> req[h].payer, amount |-> -req[h].amount]}

\* Transfer.entries(): the double entry.
EntryRows(h) ==
    {[transfer |-> h, account |-> req[h].payer, amount |-> -req[h].amount],
     [transfer |-> h, account |-> req[h].payee, amount |-> req[h].amount]}

InterbankRow(h) == [transfer |-> h, to |-> req[h].to, status |-> "DEBITED"]

OutboxRow(h) == [settlement |-> h, to |-> req[h].to, amount |-> req[h].amount]

\* What one transfer's entries add to an account; payer and payee differ, so
\* an account has at most one of them.
NetEffect(rows, a) ==
    IF \E e \in rows : e.account = a
    THEN (CHOOSE e \in rows : e.account = a).amount
    ELSE 0

EmptyTx == [transfers |-> {}, entries |-> {}, interbank |-> {}, outbox |-> {}]

----------------------------------------------------------------------------
\* Connections, transactions and locks.

Open == {"lock", "insert", "fk", "check", "write", "commit"}

Connected == {h \in Handlers : pc[h] \in Open}
PoolFree == Cardinality(Connected) < PoolSize

\* The account rows a request takes FOR UPDATE: both of a local transfer, the
\* payer's of an interbank one, none of a seed.
LockSet(h) ==
    CASE req[h].kind = "local"     -> Parties(h)
      [] req[h].kind = "interbank" -> {req[h].payer}
      [] OTHER                     -> {}

\* Mutant of NextLock: no sort, each request locks its payer first.
PayerFirstLock(h, a) ==
    /\ a \in LockSet(h)
    /\ xlock[a] # h
    /\ xlock[req[h].payer] # h => a = req[h].payer

\* ids.sort(): the least account still to be locked comes first.
NextLock(h, a) ==
    /\ a \in LockSet(h)
    /\ xlock[a] # h
    /\ \A b \in LockSet(h) : xlock[b] # h => a <= b

\* Mutants: a plain SELECT takes no lock; no foreign key, no share lock.
PlainSelect(h, a) == TRUE
NoForeignKey(h, a) == TRUE

FreeForUpdate(h, a) == xlock[a] = None /\ slock[a] \subseteq {h}
FreeForShare(h, a) == xlock[a] \in {None, h}

\* Mutant of KeyPending: no unique index, nothing to wait for.
NeverPending(h) == FALSE

KeyTaken(h) == \E t \in transfers : t.key = KeyOf(h)
KeyPending(h) ==
    \E g \in Handlers \ {h} : \E t \in tx[g].transfers : t.key = KeyOf(h)

\* Mutant of EndTx: the locks outlive the transaction.
LeakLocks(h) ==
    /\ tx' = [tx EXCEPT ![h] = EmptyTx]
    /\ UNCHANGED <<xlock, slock>>

\* COMMIT and ROLLBACK drop the transaction's locks, rows and connection.
EndTx(h) ==
    /\ xlock' = [a \in Accounts |-> IF xlock[a] = h THEN None ELSE xlock[a]]
    /\ slock' = [a \in Accounts |-> slock[a] \ {h}]
    /\ tx' = [tx EXCEPT ![h] = EmptyTx]

Goto(h, l) == pc' = [pc EXCEPT ![h] = l]

Respond(h, s, t) ==
    /\ answer' = [answer EXCEPT ![h] = [status |-> s, transfer |-> t]]
    /\ Goto(h, "done")

\* catch { ROLLBACK; throw }
RollbackWith(h, s) == EndTx(h) /\ Respond(h, s, None)

\* Mutant of Matches: the amount is not compared.
MatchesParties(t, h) == t.payer = req[h].payer /\ t.payee = req[h].payee

\* replay(): the stored transfer must match the request exactly.
Matches(t, h) ==
    /\ t.payer = req[h].payer
    /\ t.payee = req[h].payee
    /\ t.amount = req[h].amount
    /\ req[h].kind = "interbank" =>
           \E i \in interbank : i.transfer = t.id /\ i.to = req[h].to

Replay(h) ==
    \E t \in transfers :
        /\ t.key = KeyOf(h)
        /\ IF Matches(t, h) THEN Respond(h, "ok", t.id)
                            ELSE Respond(h, "conflict", None)

----------------------------------------------------------------------------
Init ==
    /\ accounts = Accounts \ Unopened
    /\ transfers = {}
    /\ entries = {}
    /\ interbank = {}
    /\ outbox = {}
    /\ balance = Opening
    /\ tx = [h \in Handlers |-> EmptyTx]
    /\ xlock = [a \in Accounts |-> None]
    /\ slock = [a \in Accounts |-> {}]
    /\ pc = [h \in Handlers |-> "idle"]
    /\ req \in [Handlers -> Requests]
    /\ checked = [h \in Handlers |-> 0]
    /\ answer = [h \in Handlers |-> [status |-> "none", transfer |-> None]]
    /\ failures = 0

CreateAccount(c) ==
    /\ c \notin accounts
    /\ accounts' = accounts \cup {c}
    /\ UNCHANGED <<transfers, entries, interbank, outbox, balance, tx, xlock,
                   slock, pc, req, checked, answer, failures>>

\* The request arrives.  Transfer.create refuses a transfer to oneself;
\* devSeed first looks its account up.
Arrive(h) ==
    /\ pc[h] = "idle"
    /\ \/ /\ req[h].kind # "seed"
          /\ IF req[h].payer = req[h].payee
             THEN Respond(h, "invalid", None)
             ELSE Goto(h, "find") /\ UNCHANGED answer
       \/ /\ req[h].kind = "seed"
          /\ PoolFree
          /\ IF req[h].payee \in accounts
             THEN Goto(h, "connect") /\ UNCHANGED answer
             ELSE Respond(h, "notfound", None)
    /\ UNCHANGED <<tables, tx, xlock, slock, req, checked, failures>>

\* findByIdempotencyKey, through the pool and outside any transaction.
FindByKey(h) ==
    /\ pc[h] = "find"
    /\ PoolFree
    /\ \/ KeyTaken(h) /\ Replay(h)
       \/ ~KeyTaken(h) /\ Goto(h, "connect") /\ UNCHANGED answer
    /\ UNCHANGED <<tables, tx, xlock, slock, req, checked, failures>>

\* pool.connect() and BEGIN.
Begin(h) ==
    /\ pc[h] = "connect"
    /\ PoolFree
    /\ Goto(h, IF LockSet(h) = {} THEN "insert" ELSE "lock")
    /\ UNCHANGED <<tables, tx, xlock, slock, req, checked, answer, failures>>

\* One SELECT .. FOR UPDATE; an account that does not exist ends the request.
LockAccount(h) ==
    /\ pc[h] = "lock"
    /\ \E a \in Accounts :
        /\ NextLock(h, a)
        /\ \/ /\ a \notin accounts
              /\ RollbackWith(h, "notfound")
           \/ /\ a \in accounts
              /\ FreeForUpdate(h, a)
              /\ xlock' = [xlock EXCEPT ![a] = h]
              /\ Goto(h, IF \A b \in LockSet(h) \ {a} : xlock[b] = h
                         THEN "insert" ELSE "lock")
              /\ UNCHANGED <<slock, tx, answer>>
    /\ UNCHANGED <<tables, req, checked, failures>>

\* Mutant of InsertTransfer: it gives up on a key that is still uncommitted.
InsertWithoutWaiting(h) ==
    /\ pc[h] = "insert"
    /\ IF KeyTaken(h) \/ KeyPending(h)
       THEN EndTx(h) /\ Goto(h, "winner")
       ELSE /\ tx' = [tx EXCEPT ![h].transfers = {TransferRow(h)}]
            /\ Goto(h, "fk")
            /\ UNCHANGED <<xlock, slock>>
    /\ UNCHANGED <<tables, req, checked, answer, failures>>

\* INSERT .. ON CONFLICT (idempotency_key) DO NOTHING.  It waits for an open
\* transaction holding the key.  A committed row with the key makes it return
\* nothing: ROLLBACK, then read the winner.  CHECK (payer <> payee) fails a
\* seed of the treasury by itself.
InsertTransfer(h) ==
    /\ pc[h] = "insert"
    /\ ~KeyPending(h)
    /\ \/ /\ req[h].payer = req[h].payee
          /\ RollbackWith(h, "error")
       \/ /\ req[h].payer # req[h].payee
          /\ KeyTaken(h)
          /\ EndTx(h)
          /\ Goto(h, "winner")
          /\ UNCHANGED answer
       \/ /\ req[h].payer # req[h].payee
          /\ ~KeyTaken(h)
          /\ tx' = [tx EXCEPT ![h].transfers = {TransferRow(h)}]
          /\ Goto(h, "fk")
          /\ UNCHANGED <<xlock, slock, answer>>
    /\ UNCHANGED <<tables, req, checked, failures>>

\* The end of the same statement: the foreign keys take FOR KEY SHARE on both
\* accounts.  Nobody takes the suspense or treasury row FOR UPDATE, so waiting
\* for both at once is waiting for the one that can be locked.
CheckForeignKeys(h) ==
    /\ pc[h] = "fk"
    /\ \A a \in Parties(h) : FreeForShare(h, a)
    /\ slock' = [a \in Accounts |->
                    IF a \in Parties(h) THEN slock[a] \cup {h} ELSE slock[a]]
    /\ Goto(h, IF req[h].kind = "seed" THEN "write" ELSE "check")
    /\ UNCHANGED <<tables, tx, xlock, req, checked, answer, failures>>

\* Mutant of CheckBalance: it checks after writing, and answers without rolling back.
CheckTooLate(h) ==
    /\ pc[h] = "check"
    /\ IF balance[req[h].payer] < req[h].amount
       THEN /\ transfers' = transfers \cup tx[h].transfers
            /\ EndTx(h)
            /\ Respond(h, "insufficient", None)
       ELSE Goto(h, "write") /\ UNCHANGED <<transfers, tx, xlock, slock, answer>>
    /\ UNCHANGED <<accounts, entries, interbank, outbox, balance, req, checked, failures>>

\* Money.fromCents throws on a sum that is not a safe integer.
Readable(b) == b <= MaxSafe

\* assertPayerCanAfford(balanceOf(payer)).
CheckBalance(h) ==
    LET b == balance[req[h].payer] IN
    /\ pc[h] = "check"
    /\ \/ /\ ~Readable(b)
          /\ RollbackWith(h, "unreadable")
          /\ UNCHANGED checked
       \/ /\ Readable(b)
          /\ b < req[h].amount
          /\ RollbackWith(h, "insufficient")
          /\ UNCHANGED checked
       \/ /\ Readable(b)
          /\ b >= req[h].amount
          /\ checked' = [checked EXCEPT ![h] = b]
          /\ Goto(h, "write")
          /\ UNCHANGED <<tx, xlock, slock, answer>>
    /\ UNCHANGED <<tables, req, failures>>

\* Mutant of WriteRows: outbox.insert runs on the pool, not on the transaction's client.
OutboxOutsideTx(h) ==
    /\ pc[h] = "write"
    /\ tx' = [tx EXCEPT ![h].entries = EntryRows(h),
                        ![h].interbank = IF req[h].kind = "interbank" THEN {InterbankRow(h)} ELSE {}]
    /\ outbox' = IF req[h].kind = "interbank" THEN outbox \cup {OutboxRow(h)} ELSE outbox
    /\ Goto(h, "commit")
    /\ UNCHANGED <<accounts, transfers, entries, interbank, balance, xlock, slock,
                   req, checked, answer, failures>>

\* The inserts that follow: both ledger entries, and for an interbank transfer
\* its DEBITED row and the settlement.requested event.
WriteRows(h) ==
    /\ pc[h] = "write"
    /\ tx' = [tx EXCEPT ![h] =
                 [transfers |-> tx[h].transfers,
                  entries   |-> EntryRows(h),
                  interbank |-> IF req[h].kind = "interbank" THEN {InterbankRow(h)} ELSE {},
                  outbox    |-> IF req[h].kind = "interbank" THEN {OutboxRow(h)} ELSE {}]]
    /\ Goto(h, "commit")
    /\ UNCHANGED <<tables, xlock, slock, req, checked, answer, failures>>

\* COMMIT takes effect: the transaction's rows become visible.
Publish(h) ==
    /\ transfers' = transfers \cup tx[h].transfers
    /\ entries' = entries \cup tx[h].entries
    /\ interbank' = interbank \cup tx[h].interbank
    /\ outbox' = outbox \cup tx[h].outbox
    /\ balance' = [a \in Accounts |-> balance[a] + NetEffect(tx[h].entries, a)]
    /\ EndTx(h)

\* A seed still has to read the balance it returns.
Commit(h) ==
    /\ pc[h] = "commit"
    /\ Publish(h)
    /\ IF req[h].kind = "seed" THEN Goto(h, "readback") /\ UNCHANGED answer
                               ELSE Respond(h, "ok", h)
    /\ UNCHANGED <<accounts, req, checked, failures>>

\* The connection is lost after the server committed: execute throws.
CommitUnheard(h) ==
    /\ pc[h] = "commit"
    /\ failures < MaxFailures
    /\ failures' = failures + 1
    /\ Publish(h)
    /\ Respond(h, "error", None)
    /\ UNCHANGED <<accounts, req, checked>>

\* A statement fails, the connection drops or the process dies: PostgreSQL
\* rolls the open transaction back and the client gets an error or nothing.
Fail(h) ==
    /\ pc[h] \notin {"idle", "done"}
    /\ failures < MaxFailures
    /\ failures' = failures + 1
    /\ RollbackWith(h, "error")
    /\ UNCHANGED <<tables, req, checked>>

\* The loser of the race on a key reads the winner and replays it.
ReadWinner(h) ==
    /\ pc[h] = "winner"
    /\ PoolFree
    /\ \/ KeyTaken(h) /\ Replay(h)
       \/ ~KeyTaken(h) /\ Respond(h, "vanished", None)
    /\ UNCHANGED <<tables, tx, xlock, slock, req, checked, failures>>

\* devSeed ends in getBalance, which throws on an unsafe sum.
ReadBack(h) ==
    /\ pc[h] = "readback"
    /\ PoolFree
    /\ IF Readable(balance[req[h].payee]) THEN Respond(h, "ok", h)
                                          ELSE Respond(h, "unreadable", None)
    /\ UNCHANGED <<tables, tx, xlock, slock, req, checked, failures>>

Progress(h) ==
    \/ FindByKey(h) \/ Begin(h) \/ LockAccount(h) \/ InsertTransfer(h)
    \/ CheckForeignKeys(h) \/ CheckBalance(h) \/ WriteRows(h) \/ Commit(h)
    \/ ReadWinner(h) \/ ReadBack(h)

Next ==
    \/ \E c \in Customers : CreateAccount(c)
    \/ \E h \in Handlers : Arrive(h) \/ Progress(h) \/ CommitUnheard(h) \/ Fail(h)

Spec == Init /\ [][Next]_vars

\* A handler that can run its next statement eventually does: the event loop
\* and the server schedule it, and PostgreSQL and the pool serve waiters in
\* order.  Nothing makes a request arrive or a connection fail.
FairSpec == Spec /\ \A h \in Handlers : WF_vars(Progress(h))

----------------------------------------------------------------------------
(***************************************************************************)
(* Properties                                                              *)
(***************************************************************************)

Statuses == {"none", "ok", "invalid", "notfound", "conflict", "insufficient",
             "unreadable", "vanished", "error"}

TransferRows == [id: Handlers, key: Keys \cup Handlers, payer: Accounts,
                 payee: Accounts, amount: Nat \ {0}]
LedgerRows == [transfer: Handlers, account: Accounts, amount: Int]
InterbankRows == [transfer: Handlers, to: Destinations \cup {None}, status: {"DEBITED"}]
OutboxRows == [settlement: Handlers, to: Destinations \cup {None}, amount: Nat \ {0}]

\* Every table, buffer, lock and response holds what the schema and the
\* services put there (the rows of migrations 001-007).
TypeOK ==
    /\ accounts \subseteq Accounts
    /\ transfers \subseteq TransferRows
    /\ entries \subseteq LedgerRows
    /\ interbank \subseteq InterbankRows
    /\ outbox \subseteq OutboxRows
    /\ balance \in [Accounts -> Int]
    /\ tx \in [Handlers -> [transfers: SUBSET TransferRows, entries: SUBSET LedgerRows,
                            interbank: SUBSET InterbankRows, outbox: SUBSET OutboxRows]]
    /\ xlock \in [Accounts -> Handlers \cup {None}]
    /\ slock \in [Accounts -> SUBSET Handlers]
    /\ pc \in [Handlers -> {"idle", "find", "connect", "winner", "readback", "done"} \cup Open]
    /\ req \in [Handlers -> Requests]
    /\ checked \in [Handlers -> Int]
    /\ answer \in [Handlers -> [status: Statuses, transfer: Handlers \cup {None}]]
    /\ failures \in 0..MaxFailures

\* No interleaving of transfers, interbank transfers and seeds overdraws a
\* customer (assertPayerCanAfford; "concurrent double-spend" in README.md).
NoOverdraft == \A c \in Customers : balance[c] >= 0

\* transfers.service.ts:45-46: the balance a handler checked is still the
\* payer's balance when its entries are appended.  Seeds write without
\* locking any account, so this rests on the foreign-key share lock too.
CheckedBalanceIsCurrent ==
    \A h \in Handlers :
        pc[h] \in {"write", "commit"} /\ req[h].kind # "seed"
            => balance[req[h].payer] = checked[h] /\ checked[h] >= req[h].amount

\* What makes the two inductive.  An account locked FOR UPDATE is shared by
\* nobody else; past its SELECTs a handler holds its locks, past its insert
\* its shares; entries wait in the buffer only between write and commit.
LocksExclude ==
    \A a \in Accounts, h \in Handlers : xlock[a] = h => slock[a] \subseteq {h}

LocksHeld ==
    \A h \in Handlers : pc[h] \in {"insert", "fk", "check", "write", "commit"} =>
        \A a \in LockSet(h) : xlock[a] = h

SharesHeld ==
    \A h \in Handlers : pc[h] \in {"check", "write", "commit"} =>
        \A a \in Parties(h) : h \in slock[a]

EntriesBuffered ==
    \A h \in Handlers :
        /\ tx[h].entries = IF pc[h] = "commit" THEN EntryRows(h) ELSE {}
        /\ pc[h] \in {"fk", "check", "write", "commit"} => req[h].payer # req[h].payee

\* The inductive invariant of the two above: the lock protocol of lockAccounts
\* and of the foreign keys, and what it protects.
LedgerInv ==
    /\ TypeOK
    /\ LocksExclude
    /\ LocksHeld
    /\ SharesHeld
    /\ EntriesBuffered
    /\ CheckedBalanceIsCurrent
    /\ NoOverdraft

\* Bank A's "exactly once": two clients told "ok" under the same key are told
\* the same transfer, one that is committed and is exactly what they asked.
OkAnswersAgree ==
    \A h \in Handlers : answer[h].status = "ok" =>
        /\ \E t \in transfers :
              /\ t = [TransferRow(h) EXCEPT !.id = answer[h].transfer]
              /\ req[h].kind = "interbank" =>
                     [InterbankRow(h) EXCEPT !.transfer = t.id] \in interbank
        /\ \A g \in Handlers : answer[g].status = "ok" /\ KeyOf(g) = KeyOf(h)
                                => answer[g].transfer = answer[h].transfer

\* A transfer is committed with both its entries, and it is interbank exactly
\* when its DEBITED row and its settlement.requested event are there, naming
\* the same destination and amount.
BookedWhole ==
    /\ \A t \in transfers :
        /\ {[account |-> e.account, amount |-> e.amount] :
                e \in {x \in entries : x.transfer = t.id}}
               = {[account |-> t.payer, amount |-> -t.amount],
                  [account |-> t.payee, amount |-> t.amount]}
        /\ IF t.payee = Suspense /\ t.payer # Treasury
           THEN \E i \in interbank :
                  /\ i.transfer = t.id
                  /\ {o \in outbox : o.settlement = t.id}
                         = {[settlement |-> t.id, to |-> i.to, amount |-> t.amount]}
           ELSE /\ \A i \in interbank : i.transfer # t.id
                /\ \A o \in outbox : o.settlement # t.id
    /\ \A id \in {e.transfer : e \in entries} \cup {i.transfer : i \in interbank}
                 \cup {o.settlement : o \in outbox} : \E t \in transfers : t.id = id

\* A client told its request was refused can rely on it: nothing of that
\* request is in the books.  Only "error" (and a seed whose balance cannot be
\* read back) leaves doubt.
RefusalsLeaveNoTrace ==
    \A h \in Handlers :
        \/ answer[h].status \in {"invalid", "notfound", "conflict", "insufficient"}
        \/ answer[h].status = "unreadable" /\ req[h].kind # "seed"
        => \A t \in transfers : t.id # h

\* transfers.service.ts:61-62: the loser of a race on a key always finds the
\* winner, so the "vanished" error never happens.
WinnerIsThere == \A h \in Handlers : answer[h].status # "vanished"

\* transfers.service.ts:74 and interbank-transfers.service.ts:65-67: no set of
\* handlers wait for one another, on account rows, on a key or for the
\* connections of the pool.
Blockers(h) ==
    CASE pc[h] = "lock"   -> (UNION {{xlock[a]} \cup slock[a] :
                                        a \in {b \in accounts : NextLock(h, b)}}) \ {h, None}
      [] pc[h] = "insert" -> {g \in Handlers \ {h} :
                                 \E t \in tx[g].transfers : t.key = KeyOf(h)}
      [] pc[h] = "fk"     -> {xlock[a] : a \in Parties(h)} \ {h, None}
      [] OTHER            -> {}

StarvesFor(h, S) ==
    /\ pc[h] \in {"find", "connect", "winner", "readback"}
    /\ ~PoolFree
    /\ Connected \subseteq S

NoWaitCycle ==
    \A S \in (SUBSET Handlers) \ {{}} :
        \E h \in S : Blockers(h) \cap S = {} /\ ~StarvesFor(h, S)

\* Every request that arrives is answered, however often its statements wait
\* or fail.
EveryRequestAnswered ==
    \A h \in Handlers : pc[h] # "idle" ~> pc[h] = "done"

\* The whole of it: statement by statement, with locks, races and failures,
\* the services do no more than AtomicLedger.
Destination(id) ==
    IF \E i \in interbank : i.transfer = id
    THEN (CHOOSE i \in interbank : i.transfer = id).to
    ELSE None

Bookings ==
    {[id |-> t.id, key |-> t.key, payer |-> t.payer, payee |-> t.payee,
      amount |-> t.amount, to |-> Destination(t.id)] : t \in transfers}

Atomic == INSTANCE AtomicLedger WITH booked <- Bookings, sent <- outbox

AtomicSpec == Atomic!Spec
=============================================================================
