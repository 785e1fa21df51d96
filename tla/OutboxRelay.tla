---------------------------- MODULE OutboxRelay ----------------------------
(***************************************************************************)
(* OutboxRelayService.tick, in Bank A and, line for line, in the Hub: once *)
(* a second, claim unpublished rows, write each to the AMQP channel and    *)
(* mark it, commit.  A tick starts whether or not the last one ended.  The *)
(* channel has no confirms: a message written to it sits in a buffer until *)
(* the broker has it, and it is opened once, when the process starts.      *)
(***************************************************************************)
EXTENDS Integers, FiniteSets, Sequences, Functions

CONSTANTS
    Rows,       \* ids of outbox_events, in the order of the identity column
    Ticks,      \* ticks that may be running at once
    BatchSize,
    MaxFailures \* bound on failing ticks, crashes and broker outages

VARIABLES
    inserted,  \* rows committed by the business transactions
    published, \* rows with published_at set
    pc,        \* "idle", or the next statement of each tick
    claimed,   \* the rows a tick has locked: its batch
    todo,      \* what is left of the batch
    open,      \* the process's AMQP channel is open
    pipe,      \* messages written to it that the broker does not have yet
    queue,     \* messages at the broker
    consumed,  \* rows whose message a consumer has handled
    written,   \* how often each row was written to the channel
    failures

rows == <<inserted, published>>
broker == <<open, pipe, queue, consumed>>
vars == <<rows, pc, claimed, todo, broker, written, failures>>

ASSUME RelayAssumption ==
    /\ Rows \subseteq Nat
    /\ IsFiniteSet(Rows)
    /\ BatchSize \in Nat \ {0}
    /\ MaxFailures \in Nat

Locked == UNION {claimed[k] : k \in Ticks}
NextRow(S) == CHOOSE r \in S : \A q \in S : r <= q

\* The first n rows of S by id: ORDER BY id LIMIT n.
FirstRows(S, n) == {r \in S : Cardinality({q \in S : q < r}) < n}

\* Mutant of Claimable: a plain SELECT, blind to other ticks' locks.
PlainSelect == inserted \ published

\* WHERE published_at IS NULL ... FOR UPDATE SKIP LOCKED.
Claimable == (inserted \ published) \ Locked

\* Mutant of EndTick: the client is not released and its locks stay.
LeakClaim(k) ==
    /\ pc' = [pc EXCEPT ![k] = "idle"]
    /\ todo' = [todo EXCEPT ![k] = {}]
    /\ UNCHANGED claimed

\* Mutant of EndTick: the next tick goes on with the batch of the last one.
KeepBatch(k) ==
    /\ pc' = [pc EXCEPT ![k] = "idle"]
    /\ claimed' = [claimed EXCEPT ![k] = {}]
    /\ UNCHANGED todo

\* COMMIT or ROLLBACK, and release().
EndTick(k) ==
    /\ pc' = [pc EXCEPT ![k] = "idle"]
    /\ claimed' = [claimed EXCEPT ![k] = {}]
    /\ todo' = [todo EXCEPT ![k] = {}]

Break == failures < MaxFailures /\ failures' = failures + 1

----------------------------------------------------------------------------
Init ==
    /\ inserted = {} /\ published = {}
    /\ pc = [k \in Ticks |-> "idle"]
    /\ claimed = [k \in Ticks |-> {}]
    /\ todo = [k \in Ticks |-> {}]
    /\ open = TRUE
    /\ pipe = <<>> /\ queue = {} /\ consumed = {}
    /\ written = [r \in Rows |-> 0]
    /\ failures = 0

\* A business transaction commits its row.  Ids are drawn before the commit,
\* so rows become visible in any order.
Insert(r) ==
    /\ r \notin inserted
    /\ inserted' = inserted \cup {r}
    /\ UNCHANGED <<published, pc, claimed, todo, broker, written, failures>>

\* claimUnpublished: nothing to publish is an empty batch that commits at once.
Claim(k) ==
    LET batch == FirstRows(Claimable, BatchSize) IN
    /\ pc[k] = "idle"
    /\ batch # {}
    /\ claimed' = [claimed EXCEPT ![k] = batch]
    /\ todo' = [todo EXCEPT ![k] = batch]
    /\ pc' = [pc EXCEPT ![k] = "publish"]
    /\ UNCHANGED <<rows, broker, written, failures>>

\* publisher.publish: buffered, not confirmed.
Publish(k) ==
    LET r == NextRow(todo[k]) IN
    /\ pc[k] = "publish"
    /\ todo[k] # {}
    /\ open
    /\ pipe' = Append(pipe, r)
    /\ written' = [written EXCEPT ![r] = @ + 1]
    /\ pc' = [pc EXCEPT ![k] = "mark"]
    /\ UNCHANGED <<rows, claimed, todo, open, queue, consumed, failures>>

\* publish on a closed channel throws: ROLLBACK, the next tick tries again.
PublishThrows(k) ==
    /\ pc[k] = "publish"
    /\ todo[k] # {}
    /\ ~open
    /\ EndTick(k)
    /\ UNCHANGED <<rows, broker, written, failures>>

\* markPublished, in the tick's transaction.
MarkPublished(k) ==
    /\ pc[k] = "mark"
    /\ todo' = [todo EXCEPT ![k] = @ \ {NextRow(@)}]
    /\ pc' = [pc EXCEPT ![k] = "publish"]
    /\ UNCHANGED <<rows, claimed, broker, written, failures>>

\* Mutant of Commit: the batch is committed as published before it is.
CommitFirst(k) ==
    /\ pc[k] = "publish"
    /\ published' = published \cup claimed[k]
    /\ IF todo[k] = {} THEN EndTick(k) ELSE UNCHANGED <<pc, claimed, todo>>
    /\ UNCHANGED <<inserted, broker, written, failures>>

Commit(k) ==
    /\ pc[k] = "publish"
    /\ todo[k] = {}
    /\ published' = published \cup claimed[k]
    /\ EndTick(k)
    /\ UNCHANGED <<inserted, broker, written, failures>>

\* A statement of the tick fails, the COMMIT among them.  (When the process
\* dies, that is an Outage followed by a Restart.)
Fail(k) ==
    /\ pc[k] # "idle"
    /\ Break
    /\ EndTick(k)
    /\ UNCHANGED <<rows, broker, written>>

----------------------------------------------------------------------------
\* The broker takes the next message into its queue.
Accept ==
    /\ open
    /\ pipe # <<>>
    /\ pipe' = Tail(pipe)
    /\ queue' = queue \cup {Head(pipe)}
    /\ UNCHANGED <<rows, pc, claimed, todo, open, consumed, written, failures>>

\* A consumer handles and acks a message.
Consume(r) ==
    /\ r \in queue
    /\ queue' = queue \ {r}
    /\ consumed' = consumed \cup {r}
    /\ UNCHANGED <<rows, pc, claimed, todo, open, pipe, written, failures>>

\* The connection is lost, with what it had not sent.  The broker has no
\* volume in docker-compose.yml: when it is recreated its queues are gone too.
Outage ==
    /\ open
    /\ Break
    /\ open' = FALSE
    /\ pipe' = <<>>
    /\ queue' \in {queue, {}}
    /\ UNCHANGED <<rows, pc, claimed, todo, consumed, written>>

\* The 'error' listener keeps the process up without its channel; only a new
\* process opens another.
Restart ==
    /\ ~open
    /\ open' = TRUE
    /\ pc' = [k \in Ticks |-> "idle"]
    /\ claimed' = [k \in Ticks |-> {}]
    /\ todo' = [k \in Ticks |-> {}]
    /\ UNCHANGED <<rows, pipe, queue, consumed, written, failures>>

Tick(k) ==
    \/ Claim(k) \/ Publish(k) \/ PublishThrows(k)
    \/ MarkPublished(k) \/ Commit(k)

Next ==
    \/ \E r \in Rows : Insert(r) \/ Consume(r)
    \/ \E k \in Ticks : Tick(k) \/ Fail(k)
    \/ Accept \/ Outage \/ Restart

Spec == Init /\ [][Next]_vars

\* The interval keeps starting ticks; an open connection drains; consumers
\* consume.  Nothing in the code restarts a process.
FairSpec ==
    /\ Spec
    /\ \A k \in Ticks : WF_vars(Tick(k))
    /\ \A r \in Rows : WF_vars(Consume(r))
    /\ WF_vars(Accept)

\* The same with an operator who restarts a process that lost its broker.
SupervisedSpec == FairSpec /\ WF_vars(Restart)

----------------------------------------------------------------------------
(***************************************************************************)
(* Properties                                                              *)
(***************************************************************************)

\* What the schema and a tick's variables hold; a tick works on rows it locked.
TypeOK ==
    /\ published \subseteq inserted /\ inserted \subseteq Rows
    /\ pc \in [Ticks -> {"idle", "publish", "mark"}]
    /\ claimed \in [Ticks -> SUBSET Rows]
    /\ todo \in [Ticks -> SUBSET Rows]
    /\ \A k \in Ticks : todo[k] \subseteq claimed[k]
    /\ open \in BOOLEAN
    /\ pipe \in Seq(Rows)
    /\ queue \subseteq Rows /\ consumed \subseteq Rows
    /\ written \in [Rows -> Nat]
    /\ failures \in 0..MaxFailures

\* README, "multiple instances can run without double-publishing": ticks that
\* race never publish a row twice; every extra copy costs a failure.
ExtraCopiesNeedFailures == \A r \in Rows : written[r] <= 1 + failures

\* An event is marked published only once it was written to the channel - a
\* tick that dies half way leaves every unwritten row of its batch to the
\* next - and from then on it is on its way, or consumed, unless something
\* failed: without confirms, an outage is what loses a published event.
PublishedWasSent ==
    \A r \in published :
        /\ written[r] > 0
        /\ r \in Range(pipe) \cup queue \cup consumed \/ failures > 0

\* "published_at stays NULL so the next tick retries"
\* (outbox-relay.service.ts:54): a committed event is published in the end.
EveryEventPublished == \A r \in Rows : (r \in inserted) ~> (r \in published)
=============================================================================
