# The payment ledger in TLA+

A verification development for `distributed-payment-ledger`: TLA+ modules of
the services that move money, of the protocol between them and of the scripts
that migrate their databases, model-checked with TLC on small instances, with
proofs checked by TLAPS for every size of them. Paths below are relative to the
repository's root.

## The system

| Component | State it keeps | Operations | Code |
|---|---|---|---|
| Bank A, money requests | `accounts`, `transfers`, `ledger_entries`, `interbank_transfers`, `outbox_events` in PostgreSQL; row locks; a `pg` pool | local transfer, interbank transfer, dev seed, create account | `src/transfers`, `src/interbank-transfers`, `src/accounts`, `src/ledger`, `src/domain` |
| Bank A, settlement | `interbank_transfers.status`, the reversal transfer and its idempotency key | `InterbankReplyService.handle`, called by the outcome consumer and by the reconciliation sweep | `src/interbank-transfers/interbank-reply.*`, `reconciliation.service.ts` |
| Hub | `banks`, `settlements`, `hub_ledger_entries`, its outbox | `handleRequested`, `handleReply`, register a bank | `hub/src` |
| Bank B, inbound | `incoming_transfers`, ledger, an `asyncpg` pool | `InboundTransfersService.handle` behind its consumer, create account | `bank-b/app` |
| Outbox relays | `outbox_events.published_at`, an AMQP channel | `tick`, once a second | `src/outbox`, the same in `hub/src/outbox` |
| Migration runners | `schema_migrations`, an advisory lock | apply new files in order | `scripts`, `hub/scripts`, `bank-b/scripts` |
| Frontend | tracked accounts and transfers | send a transfer, poll, refresh | `frontend/src` |

They interact only through rows and messages. Bank A's interbank transfer
writes a `settlement.requested` row in the transaction that debits the payer;
the relay publishes it; the Hub moves reserves and writes `settlement.notify`;
the payee bank answers with `settlement.reply`; the Hub writes
`settlement.outcome`; Bank A confirms or compensates. Bank A's sweep asks
`GET /settlements/:id` about transfers that stay `DEBITED`. Bank B still speaks
the protocol the root README draws (`transfer.initiated` and `transfer.reply`
on the `bank-transfers` exchange), so nothing in the repository consumes the
Hub's `settlement.notify`.

What is hard in it: requests interleave between any two statements; a request
holds a connection and locks while it waits for more; one idempotency key is
used by several requests at once; COMMIT may succeed unheard; status is read
before a transaction and used inside it; messages come twice, at once, late or
never; consumers without a prefetch overlap with themselves; a relay marks as
published what sits in an unconfirmed buffer. `PROJECT.json` lists each hazard
at its line.

What would make each correct: no customer is overdrawn, every answer is true of
the books and each key books once (Bank A); reserves, status and outcome agree
under redelivery (Hub); one credit per transfer and replies that match it
(Bank B); one refund, exactly for compensated transfers, and no transfer left
in doubt (settlement); every event reaches the broker, extra copies only after
failures (relays); money delivered or returned, once, and the client told which
(the whole); a schema that is its files in order, and recorded (migrations).

## Modules

| Module | Models | State and actions against the code |
|---|---|---|
| `AtomicLedger` | what Bank A promises | one step books a request or tells its client something true |
| `BankALedger` | Bank A's money requests | a handler is one HTTP request and the transfer id it mints; `pc` is its next SQL statement; `tx` the rows of its open transaction; `xlock`/`slock` the `FOR UPDATE` and foreign-key `KEY SHARE` locks |
| `AtomicSettlement` | what the Hub promises | one step changes a settlement's status, its reserves and what its banks are told; `Repeat` is the fault of overlapping replies |
| `HubSettlement` | the Hub | a delivery is one delivery of a message; `tx`, `holder` its uncommitted row; `legs` counts how often the reserve entries and their reversal are in the ledger |
| `AtomicCredit` | what Bank B promises | one step decides and books a transfer; every reply repeats the decision |
| `BankBInbound` | Bank B's consumer and service | the same, with the pool and the prefetch of its channel |
| `AtomicClosing` | what Bank A promises of its debited transfers | one step closes a transfer as the Hub's row says, and refunds it unless a client's transfer has the refund's key; `RefundBeside` is the fault of a late request |
| `InterbankReply` | Bank A's settlement | callers are deliveries and sweeps; the Hub is reduced to the row its endpoint shows; `key` is what is stored under `compensation-<id>`, the refund or a client's transfer |
| `OutboxRelay` | both relays | a tick is one run of `tick()`; `pipe` is the channel's unconfirmed buffer |
| `AtomicPayment` | what the services promise together | money is taken, then delivered or returned, and the client told which; `Duplicate` is the fault of a late request |
| `Saga` | the composition: client, Bank A, Hub, payee's bank | per payment the status each database has for it; `outbox` and `wire` the events unpublished and on their way; a handler is one step |
| `MigrationRunner` | the three `migrate` scripts, which are one algorithm | a runner is one process; `pc` its next statement; `lock` the session advisory lock; `tx` the file it is applying |
| `BankALedgerProofs`, `AtomicLedgerProofs` | | proofs about `BankALedger`: its money; its promises, that it implements `AtomicLedger`, and that it does not deadlock |
| `HubSettlementProofs`, `BankBInboundProofs`, `InterbankReplyProofs`, `OutboxRelayProofs`, `SagaProofs`, `MigrationRunnerProofs` | | proofs about the module each is named after |

Each `MC...` module gives its module's constants their values; each `.cfg`
is one run. The definitions that differ from the code on purpose stand right
before the definition they stand in for, under a comment that begins with
"Mutant of": a property is worth running only if one of them breaks it.

PostgreSQL and RabbitMQ are modelled from how the code uses them. A statement
is one step and sees what is committed (READ COMMITTED). A `FOR UPDATE` waits
for other holders; so does an insert whose unique key is in an open
transaction, and an update of a row changed by one, after which its `WHERE` is
evaluated again. A message may be delivered any number of times, to handlers
that overlap, or never. A failing statement, a lost connection and a process
that dies are one action in most modules: the open transaction is rolled back
and the caller gets an error, or nothing. `CommitUnheard` is the other case, a
COMMIT that took effect though its caller never learned.

Abstractions: a transfer id is the handler that mints it, since a UUID is minted
once; destinations, keys and payloads are model values; the amounts of the Hub's
and Bank B's entries are left out, because each row carries one amount that
never changes, and what can go wrong is how often its entries are appended.
`balance` is maintained in `BankALedger` as entries commit, where the code
selects `SUM(amount)` each time; both are the same function of the entries, since
the table is append-only.

Each service has an abstract specification that the detailed one implements:
what a handler does takes effect at one COMMIT, and a repetition changes
nothing. This is what lets `Saga` take the handlers for single steps. For the
Hub it is so while replies of one settlement are handled one at a time; what two
at once can do is `RepeatingSpec`, and `hub_concurrent_replies` shows it. In the
other direction, `InterbankReply` makes the Hub and the clock do what
`AtomicClosing` lets them, and the services of `Saga` are proved to do no more
(`ServicesCloseAsPromised`). `Saga` has one status for a transfer that is
`COMPENSATED` and reads it as paid back, so its clients use no refund's key:
what they may do with one is in `InterbankReply`. The two outbox tables are one
set in `Saga`, whose rows the kind of message tells apart. The payee's bank, as
`settlement.notify` addresses it, is external: Bank B decides once and repeats
its decision in the same way, but on another exchange.

## Runs

| Run | Asks | Bounds |
|---|---|---|
| `ledger_contention` | overdrafts, stale balances, deadlock | 4 handlers that draw from six requests: opposing transfers, a transfer to oneself, an interbank one, two seeds; pool 3; one failure |
| `ledger_keys` | answers, whole bookings, refusals, the winner of a key, an answer to every request; `BankALedger` implements `AtomicLedger` | 3 handlers on a pool of 2, requests under one key that agree, clash and cross kinds; an account that opens late; balances that pass `MaxSafe`; one failure |
| `hub_settles` | reserves, outcomes, acks, an end to every delivery; `HubSettlement` implements `AtomicSettlement` | 3 deliveries over 3 settlements, a bank registering late, requests concurrent, replies one at a time, one failure |
| `hub_concurrent_replies` | the same reserves with 2 replies at once | **violated** |
| `bank_b_settles` | one credit, no ack before a reply, an end to every delivery; `BankBInbound` implements `AtomicCredit` | 3 deliveries of 3 transfers, an account that opens between them, prefetch 2, pool 3, two failures |
| `bank_b_pool_exhausted` | an end to every delivery, pool equal to prefetch as configured | **violated** |
| `reply_settles` | one refund, agreement with the Hub, acks; `InterbankReply` implements `AtomicClosing`; nothing the Hub settled, or never heard of, stays `DEBITED` | 2 transfers, one of them perhaps late, clients that may take the key of either's refund, 2 deliveries, a sweep that starts again and again, one failure |
| `outbox_relays` | no double publishing, nothing marked unwritten, every event published with a supervisor | 3 rows, batches of 2, 2 overlapping ticks, one failure or outage |
| `outbox_dead_channel` | every event published without a supervisor | **violated** |
| `saga_settles` | three ledgers that agree, `Saga` implements `AtomicPayment`, every payment ends and is shown | one payment, four messages lost or repeated, requests timely |
| `saga_late_request` | no money both delivered and returned, requests not timely | **violated** |
| `migrations` | the schema and its record, true reports, an end to every run | 2 runners of a release of 3 files, one of a release of 2, each failing or dying once |

The bounds are enough for what each run asks. Two accounts make the smallest lock
cycle, a third handler makes a waiter behind it, a fourth starves the pool. Two
transactions race on a key and a third replays what they left. A message
handled twice at once and once later is three deliveries. One failure separates
a COMMIT from its answer, and the retry is the next handler. One payment is
enough for `Saga`, whose steps each touch one payment's rows and messages (and
its theorems cover any number); four failures lose the request and the outcome
and repeat what else is sent. Two runners race for the lock, and the third, of
the older release, comes between them or last. `MaxSafe` is 3 or 6, so that
balances pass it, and `MaxFailures` bounds failures everywhere.
`CHECK_DEADLOCK FALSE` is set because requests, messages and runs are finite and
all can be done; that nothing gets stuck before is what `NoWaitCycle` and the
liveness properties check.

Symmetry is used only where no liveness is checked, over handlers and
deliveries, which the definitions treat alike.

### Fairness

Weak fairness on a handler's next step: Node's and asyncio's loops run what is
ready, PostgreSQL grants locks, and both pools serve waiters in order. It is
never assumed that a request or message arrives, that the Hub records or
settles anything, or that a failure happens or does not. `InterbankReply` also
assumes that time passes and sweeps start again (`@Interval`), `OutboxRelay`
that an open connection drains and consumers consume. Nothing in the code
restarts a process: `SupervisedSpec` adds that as an explicit assumption, and
`outbox_dead_channel` shows what happens without it.

`Saga` composes what the services do when they are up: relays publish, consumers
handle what the broker has, sweeps and polls come again, and a request that was
booked is answered, or its client sees an error. It assumes two things more,
each by name. `Timely` is what `reconciliation.service.ts:49-50` takes for
granted, that a request is handled within `STALE_AFTER_MS` or never; without it
see `saga_late_request`. `Lossy` names the kinds of message that may be lost:
requests, outcomes and the sweep's answers, which the sweep makes good. A lost
notify or reply is not among them, because nothing asks for it again: the Hub's
`findStalePending` has no caller. `MigrationRunner` is fair to a runner's next
statement and does not assume that a failed run is started again.

### What the violated runs show

* Two deliveries of one `REVERSED` reply handled at once return the reserves
  twice: `handleReply` reads `PENDING` before its transaction and appends
  whatever `markReversed` then changes (`hub/src/settlements/settlements.service.ts:119-143`).
  With one reply at a time the property holds; the consumer sets no prefetch.
* Ten deliveries at Bank B can hold the ten connections of its pool and wait for
  an eleventh, for ever (`bank-b/app/transfers/service.py:55-63`).
* A request published more than five minutes late is refunded by Bank A's sweep,
  then settled by the Hub and credited by the payee's bank
  (`src/interbank-transfers/reconciliation.service.ts:48-58`).
* After a lost broker connection the relay fails at every tick until its
  process is restarted.

One more thing the code lets happen is part of `InterbankReply` and of what
`reply_settles` and its theorems say, so no run shows it on its own. The refund
of a transfer is inserted under the key `compensation-<id>`, into the same unique
column as the `Idempotency-Key` headers of clients, of which the controllers ask
only that they are there and at most 255 characters long
(`src/transfers/transfers.controller.ts:33`,
`src/interbank-transfers/interbank-transfers.controller.ts:34`). If an ordinary
transfer has that key first (`ClientTakesKey`), the insert of the refund returns
nothing, its entries are not appended, and the row is marked `COMPENSATED` all the
same (`src/interbank-transfers/interbank-reply.service.ts:69-77`).
`RefundFollowsStatus` states it: such a transfer is never refunded, and every
other one is.

A row once marked published is never sent again, whatever became of its
message: the channel has no confirms, and `docker-compose.yml` keeps the
broker's queues only as long as its container. That is a modelled loss
(`pipe` in `OutboxRelay`, `Lossy` in `Saga`), which the sweep repairs on Bank A's
side.

## Proofs

Every theorem holds for any values of the constants that satisfy the named
assumptions of its module: any number of handlers, deliveries, accounts,
payments, runners, any pool, prefetch or batch size, any bound on failures. Each
rests on an inductive invariant; the invariants that runs check are, as they
stand, too weak to be one. A theorem with a further hypothesis has it in its
statement, and in the second column below.

| Module | Theorems | What the invariant adds |
|---|---|---|
| `BankALedgerProofs` | `LedgerInvariant`, `CheckedBalanceStaysCurrent`, `NobodyOverdrawn` | `LedgerInv`: who holds which lock at which statement |
| `AtomicLedgerProofs` | `BookedAtOneInstant`, `OneTransferPerKey`, `RefusalsAlwaysTrue`, `WinnerAlwaysThere`, `AlwaysBookedWhole`, `MoneyOnlyMoves`, `NoDeadlock` | `KeysInv`: a handler past its insert owns its key; a committed transfer is its handler's request. `WaitInv`: rows are locked least first |
| `HubSettlementProofs` | `AcksAlwaysDone`, `EndingsAlwaysHold`, `RacesOnlyRepeat`, `EndingsRepeatNoMore`, `OnlyOverlapBreaksAtomicity`, `OnlyOverlapDoublesReserves`, `OnlyOverlapTellsTwice`, `StatusStaysFinal`, `NobodyWaitsInACircle` | `RaceInv`: a delivery past its insert or update owns its row. `AloneInv`: until replies overlap, what a reply read is still so. `RepeatInv`: what was told of an ending and what may still be told was handled at once |
| `BankBInboundProofs` | `CreditedAtOneInstant`, `AlwaysCreditedOnce`, `RepliesAlwaysTrue`, `AcksAlwaysReplied`, `DecisionsStayFinal`, `OnlyThePoolSticks`, `ExhaustedForGood` | past `try_insert` a delivery owns its transfer's row; a committed row never changes. `LookInv`: an account that was found stays, one missed was not open from the start |
| `InterbankReplyProofs` | `ClosedAtOneInstant`, `RefundAlwaysFollows`, `AlwaysAgreesWithHub`, `AcksAlwaysSettle`, `TerminalStaysFinal`, `NeverRefundedTwice`, `NobodyWaitsInACircle` | `Grounded`: each outcome about to be acted on is what the Hub's row says, or will never say. `ClosingInv`: who holds the refund's key and the row, and that a stored key is a refund or a client's transfer |
| `OutboxRelayProofs` | `CopiesAlwaysCost`, `PublishedAlwaysSent`, `ConsumersSeeCommittedOnly`, `PublishedIsLeftAlone`; if there is a tick at all: `BacklogAlwaysServed` | no row is in two batches (`SKIP LOCKED`); every copy written beyond the first is paid for by a failure |
| `SagaProofs` | `LateRequestsOnlyDuplicate`, `NoPaymentLost`, `OnlyStalePaymentsDuplicate`, `NothingTakenBack`, `ServicesCloseAsPromised`, `HubBooksAsPromised`, `OnlyLossStrands`, `StrandedForGood`; under `Timely`: `PromiseKept`, `BanksAlwaysAgree` | `SagaInv`: a message is evidence of something its sender never takes back |
| `MigrationRunnerProofs` | `SchemaAlwaysRecorded`, `ReportsAlwaysTrue`, `MigratedFileByFile`, `NobodyWaitsInACircle` | only the holder of the lock is inside, so what it read of `schema_migrations` is current |

The assumptions of `BankALedger`: accounts are numbers (what their UUIDs sort
as), suspense and treasury are no customers, opening balances of customers are
not negative, requests are what the HTTP layer lets through, `None` is none of
the others, and no client's key is a seed's: `dev-seed-<id>` has a random id that
nobody was told. A key `compensation-<id>` is a client's key like any other there;
that it may be a refund's is in `InterbankReply`, which assumes nothing of keys.

Only `Timely` is a hypothesis about the environment that the code does not
ensure: that no request is handled after `STALE_AFTER_MS`, as
`reconciliation.service.ts:49-50` says. What is left without it is
`LateRequestsOnlyDuplicate`, and `OnlyStalePaymentsDuplicate` says of which
payments. Where a violated run shows that the code lacks a property, the theorems
assume nothing and say instead what the one way to lose it is:

* `OnlyOverlapBreaksAtomicity`, `OnlyOverlapDoublesReserves` and
  `OnlyOverlapTellsTwice`: the Hub does what `hub_settles` checks in every
  behaviour in which no two deliveries have read one settlement as `PENDING`
  before either booked it (`RepliesOverlap`) - which `hub_concurrent_replies`
  reaches. Redelivery, failures, lost commits and banks that register late are
  not enough. `RacesOnlyRepeat` is about all behaviours: the same refinement with
  that one fault added. `EndingsRepeatNoMore` says how often, at most as many
  times as replies are handled at once, with money and message always alike.
* `OnlyThePoolSticks`: for any pool and prefetch, Bank B's deliveries are stuck
  in one state only, every connection held by a delivery that waits for another
  (`Exhausted`), and that needs a pool no larger than the prefetch, as the code
  has it. `ExhaustedForGood`: only the failure of one of them ends it.
* `OnlyLossStrands`: a `PENDING` settlement is left without a notify or a reply on
  its way only by the loss of one, whatever the kinds that may be lost.
  `StrandedForGood`: and nothing in the services ever helps it.

**No overdraft.** A handler about to commit must know that its payer still has
what it checked; so `CheckedBalanceIsCurrent` is needed; and that survives
another handler's commit only because the other one cannot be past its
foreign-key check on the same account while this one holds it `FOR UPDATE`.
`ProtocolStep` shows that each action keeps the locking part, with one lemma per
action that moves a lock. `MoneyStep` shows that the money part survives:
`CommitKeepsMoney` is the heart, splitting on whether the committing handler
shares an account with another, and `OthersUntouched` says two handlers past
their locks do not meet on a payer. Seeds take no `FOR UPDATE`; that they cannot
slip between check and commit comes from `SharesHeld` against `LocksExclude`.

**One booking per key, at one instant.** An insert that returned a row waited
for every open transaction with its key and found none committed; so, until it
ends, no other handler past its insert has the key (`KeyIsFree`). Hence keys are
unique at COMMIT (`PublishStep`), and the loser, which waited, finds the winner.
Everything else in `KeysInv` says that the tables hold whole requests of
handlers that committed and nothing besides. The refinement then needs no
invariant of its own: `BooksAreRequests` says that the mapped state is a function
of the committed handlers, `CommitIsBooking` that COMMIT is AtomicLedger's
`Book` - the key unused by `KeyIsFree`, the payer able to pay by
`CheckedBalanceIsCurrent`, the balances by `DoubleEntry` - and one lemma per way
to answer that the answer is true; all other steps stutter (`StepIsAtomic`).

**The saga.** `Evidence` gives each kind of message its meaning: a notify that
the Hub has recorded the settlement, a reply what the payee's bank decided, an
outcome how the Hub's row ended, a sweep's answer what the row said and still
says. Loss, repetition and reordering cannot break it, since ledgers only move
forward. The one fact that is not of this form is the 404, which proves nothing
until `NeverToArrive`: a stale transfer the Hub does not know has no request
left on the way. That part of the invariant is claimed under `Timely` only; the
rest is kept by late requests too, and gives `NoPaymentLost` and, with the
ledgers of a payment read as one (`both` when Bank A refunded what the payee was
credited), `LateRequestsOnlyDuplicate`. `ServicesCloseAsPromised` maps the same
states to `AtomicClosing`, with every payment late unless requests are timely,
and `HubBooksAsPromised` maps the Hub's rows and outbox to `AtomicSettlement`:
the Hub inside `Saga` does no more than the promise `HubSettlement` is shown to
keep until two replies of one settlement overlap. `OnlyLossStrands` is about the
one state nobody asks after: a `PENDING` settlement has its notify on the way, or
its payee's reply; handling the one commits the other before it is acked, so a
redelivery never leaves a gap, and only a loss does.

**The services, one at a time.** The refinements `OnlyOverlapBreaksAtomicity`,
`CreditedAtOneInstant` and `ClosedAtOneInstant` have one shape. The abstract
state is the committed tables, so every statement before COMMIT stutters, and
the proof is about the COMMIT: that what the transaction is about to write is
still allowed, though it was decided on what was read earlier. At Bank B this is
`LookInv`: the payee that was found is there, the one that was not is no account
Bank B opened with. At the Hub the row must still be PENDING, which
`handleReply` does not look at again; `AloneInv` has it as long as no reply was
read beside another one, and after that `RaceInv` leaves the same ending or none.
In Bank A's settlement the UPDATE looks again; the refund does not, but its
idempotency key is its lock. A client's transfer under that key takes the place of
the refund and of nothing else: a transfer is refunded at most once, and one that
is `COMPENSATED` lacks its refund exactly if a client has the key
(`NeverRefundedTwice`).

**Steps, not only states.** `StatusStaysFinal`, `TerminalStaysFinal`,
`PublishedIsLeftAlone`, `MigratedFileByFile`, `DecisionsStayFinal` and, for the
three ledgers and the client's screen together, `NothingTakenBack` are action
properties: what no step takes back. `MoneyOnlyMoves` says of each step at Bank
A that it books the two entries of one transfer and moves its amount, or touches
no balance; that the sum over all accounts is therefore constant is induction
over the set of accounts, which the provers cannot do, and is not stated. That a
published event is never written again is also why a lost connection loses it
for good, and only the sweep can end its payment.

**No deadlock.** `NoWaitCycle` is about every set of handlers, so the argument is
that none can be stuck among themselves (`NobodyWaitsInACircle`). Of those that
hold a connection, one past its foreign keys waits for nobody; at its foreign
keys it waits only if it is a seed, since a transfer holds the rows it would
share; at its insert it waits for an owner of its key, which is past its own
insert and no seed; and one at its SELECTs waits for a row above those it has,
so the highest locked row has a holder that waits for none of them. A seed waits
for the holder of a row, which is one of these. If none holds a connection the
pool is free. `LocksBounded` is there because the set of accounts need not be
finite.

The other services have the same in small, as `NobodyWaitsInACircle`: whoever
waits, waits for one that does not. At the Hub and in Bank A's settlement that
is the owner of a row or key, which waits for nobody else; among
migration runners it is the one inside the lock. At Bank B a delivery waits for
a connection as well, and `OnlyThePoolSticks` counts: deliveries inside a
transaction are among those the prefetch lets through, so a full pool is no larger
than the prefetch, and one of its holders that does not wait for a connection can
go on. In each, `Ready` spells
out when the next statement of a handler can run, in terms of the state; TLC
agrees on the runs' instances that it is `ENABLED` of the handler's step.
`BacklogAlwaysServed` does the same for a relay: rows that `SKIP LOCKED` hides
are in the hands of a tick that waits for nobody.

Every module but `AtomicLedgerProofs`, which shares `BankALedger`, has a
`TypeCorrect`, proved from the same invariants.

Model-checked only: the liveness properties (`EveryRequestAnswered`,
`EveryDeliveryEnds`, `NothingStaysInDoubt`, `EveryEventPublished`,
`EveryPaymentEnds`, `EveryRunnerEnds`), since the proof system reasons neither
about fairness of these specifications nor about `ENABLED`; their safety halves
are the theorems above. So is the agreement of `Ready` with `ENABLED`.

## Not modelled

* In the frontend: account forms, seeds and displayed balances, which show what
  Bank A answers and decide nothing. `Saga` has the sending of a transfer and
  the polling of its end. That each click mints a new idempotency key, so that
  a user who clicks again after an error asks for a second payment, is outside
  what the services can promise.
* Read-only endpoints (statement, balance, health): they change nothing.
* `findStalePending` of the Hub, `lock_by_id` of Bank B: never called.
* Triggers that forbid updates: no code attempts one; the models only append.
* Configuration, wiring, logging, DTO formats beyond what `WellFormed` states.
* Compensations inside `BankALedger`: `InterbankReply` has them, and takes from
  `BankALedger` that a transfer holding the payer's row always ends. A
  compensation only credits a customer, under the locks a seed takes. A client's
  transfer with a refund's key is an ordinary one here; if it holds the payer's row
  and waits for the key of a refund that waits for that row, PostgreSQL aborts one
  of the two, which is a failure in either module.

## Plan

Done: the core (`BankALedger`, `AtomicLedger`), then each service in the order
money passes through it (`HubSettlement`, `BankBInbound`, `InterbankReply`,
`OutboxRelay`), the composition (`Saga`, `AtomicPayment`), the migrations, and
the proofs of every safety property of these and of the refinement of each
service's abstract specification.

What is left, in this order:

1. Compensations as requests of `BankALedger`, with their share of `LedgerInv`.
2. A run of `Saga` with Bank B behind `settlement.notify`, and with a caller for
   `findStalePending`, when the code has either: `Lossy` can then be every kind.
3. That Bank A's `BankALedger` and `OutboxRelay` take the steps `Saga` has for
   them, as `ServicesCloseAsPromised` and `HubBooksAsPromised` say of the
   settlement and of the Hub.
