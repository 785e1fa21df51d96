---------------------------- MODULE BankBInbound ----------------------------
(***************************************************************************)
(* Bank B's consumer of transfer.initiated: InboundTransfersService.handle *)
(* and the on_message callback around it.  aio_pika runs one coroutine per *)
(* message, up to the channel's prefetch count, over one asyncpg pool; a   *)
(* handler holds one pooled connection for its transaction and, inside it, *)
(* asks the pool for another to look the payee up.                         *)
(***************************************************************************)
EXTENDS Integers, FiniteSets

CONSTANTS
    Transfers,    \* transfer ids
    Deliveries,   \* handler runs: a message may be delivered more than once
    Accounts,     \* well-formed account ids that messages name
    Garbled,      \* payeeAccountRefs that are no UUID
    Opened,       \* accounts that exist from the start
    PayeeOf,      \* the payee each transfer names
    Prefetch,     \* set_qos(prefetch_count)
    PoolSize,     \* max_size of the asyncpg pool
    MaxFailures,  \* bound on failing statements, publishes and crashes
    None

VARIABLES
    accounts,  \* table accounts
    incoming,  \* table incoming_transfers: the status of each row, or "none"
    credits,   \* table ledger_entries: how often each transfer was booked
    replies,   \* reply events published
    tx,        \* the uncommitted row and bookings of each open transaction
    holder,    \* the open transaction that inserted each transfer's row
    of,        \* the transfer each delivery is about
    found,     \* did accounts.find_by_id find the payee
    pc,        \* the next await of each delivery
    reply,     \* the ReplyEvent handle() returned
    result,    \* what became of the message
    failures

tables == <<accounts, incoming, credits>>
vars == <<accounts, incoming, credits, replies, tx, holder, of, found, pc, reply,
          result, failures>>

ASSUME BankBAssumption ==
    /\ Opened \subseteq Accounts
    /\ PayeeOf \in [Transfers -> Accounts \cup Garbled]
    /\ Accounts \cap Garbled = {}
    /\ Prefetch \in Nat \ {0}
    /\ PoolSize \in Nat \ {0}
    /\ MaxFailures \in Nat
    /\ None \notin Deliveries

NoWrites == [status |-> "none", credits |-> 0]

\* Mutant of Active: without set_qos the broker does not count.
Uncounted == {}

Active == {d \in Deliveries : pc[d] \notin {"idle", "done"}}

\* Handlers inside "async with pool.acquire(), connection.transaction()".
InTransaction == {d \in Deliveries : pc[d] \in {"account", "insert", "append", "commit"}}
PoolFree == Cardinality(InTransaction) < PoolSize

Goto(d, l) == pc' = [pc EXCEPT ![d] = l]

\* message.process(requeue=False) acks on exit and dead-letters on an exception.
End(d, r) == Goto(d, "done") /\ result' = [result EXCEPT ![d] = r]

\* The transaction ends: its buffer and its row lock go, its connection is free.
EndTx(d) ==
    /\ tx' = [tx EXCEPT ![d] = NoWrites]
    /\ holder' = [t \in Transfers |-> IF holder[t] = d THEN None ELSE holder[t]]

\* Mutant of ReplyFor: the row's status is sent as the event type.
RawStatus(status) == status

\* _reply_for: the answer is read off the stored row.
ReplyFor(status) == IF status = "CREDITED" THEN "transfer.accepted" ELSE "transfer.rejected"

\* Mutant of Return: the reply says what this delivery looked up, not what is stored.
ReturnLookup(d, status) ==
    /\ reply' = [reply EXCEPT ![d] = ReplyFor(IF found[d] THEN "CREDITED" ELSE "REJECTED")]
    /\ Goto(d, "publish")

Return(d, status) ==
    /\ reply' = [reply EXCEPT ![d] = ReplyFor(status)]
    /\ Goto(d, "publish")

----------------------------------------------------------------------------
Init ==
    /\ accounts = Opened
    /\ incoming = [t \in Transfers |-> "none"]
    /\ credits = [t \in Transfers |-> 0]
    /\ replies = {}
    /\ tx = [d \in Deliveries |-> NoWrites]
    /\ holder = [t \in Transfers |-> None]
    /\ of \in [Deliveries -> Transfers]
    /\ found = [d \in Deliveries |-> FALSE]
    /\ pc = [d \in Deliveries |-> "idle"]
    /\ reply = [d \in Deliveries |-> "none"]
    /\ result = [d \in Deliveries |-> "none"]
    /\ failures = 0

\* POST /accounts.
CreateAccount(a) ==
    /\ a \notin accounts
    /\ accounts' = accounts \cup {a}
    /\ UNCHANGED <<incoming, credits, replies, tx, holder, of, found, pc, reply, result, failures>>

\* The broker delivers while fewer than Prefetch messages are unacknowledged.
Deliver(d) ==
    /\ pc[d] = "idle"
    /\ Cardinality(Active) < Prefetch
    /\ Goto(d, "find")
    /\ UNCHANGED <<tables, replies, tx, holder, of, found, reply, result, failures>>

\* A transfer that is already recorded is answered from its row.
FindExisting(d) ==
    /\ pc[d] = "find"
    /\ PoolFree
    /\ IF incoming[of[d]] # "none"
       THEN Return(d, incoming[of[d]])
       ELSE Goto(d, "acquire") /\ UNCHANGED reply
    /\ UNCHANGED <<tables, replies, tx, holder, of, found, result, failures>>

\* pool.acquire() and BEGIN.
Acquire(d) ==
    /\ pc[d] = "acquire"
    /\ PoolFree
    /\ Goto(d, "account")
    /\ UNCHANGED <<tables, replies, tx, holder, of, found, reply, result, failures>>

\* accounts.find_by_id runs on the pool, not on the transaction's connection:
\* it needs a second one.  A ref that is no UUID is never looked up.
FindAccount(d) ==
    /\ pc[d] = "account"
    /\ PayeeOf[of[d]] \in Accounts => PoolFree
    /\ found' = [found EXCEPT ![d] = PayeeOf[of[d]] \in accounts]
    /\ Goto(d, "insert")
    /\ UNCHANGED <<tables, replies, tx, holder, of, reply, result, failures>>

\* Mutant of TryInsert: without a primary key nothing conflicts.
InsertAnyway(d) ==
    /\ pc[d] = "insert"
    /\ tx' = [tx EXCEPT ![d].status = IF found[d] THEN "CREDITED" ELSE "REJECTED"]
    /\ Goto(d, IF found[d] THEN "append" ELSE "commit")
    /\ UNCHANGED <<tables, replies, holder, of, found, reply, result, failures>>

\* try_insert: ON CONFLICT (transfer_id) DO NOTHING, waiting for an open
\* transaction that inserted the same id.  The loser leaves its transaction.
TryInsert(d) ==
    LET t == of[d] IN
    /\ pc[d] = "insert"
    /\ holder[t] = None
    /\ IF incoming[t] # "none"
       THEN /\ EndTx(d)
            /\ Goto(d, "winner")
       ELSE /\ holder' = [holder EXCEPT ![t] = d]
            /\ tx' = [tx EXCEPT ![d] = [status |-> IF found[d] THEN "CREDITED" ELSE "REJECTED",
                                        credits |-> 0]]
            /\ Goto(d, IF found[d] THEN "append" ELSE "commit")
    /\ UNCHANGED <<tables, replies, of, found, reply, result, failures>>

\* ledger.append: suspense down, payee up.
Append(d) ==
    /\ pc[d] = "append"
    /\ tx' = [tx EXCEPT ![d] = [status |-> tx[d].status, credits |-> tx[d].credits + 1]]
    /\ Goto(d, "commit")
    /\ UNCHANGED <<tables, replies, holder, of, found, reply, result, failures>>

Publish(d) ==
    LET t == of[d] IN
    /\ incoming' = [incoming EXCEPT ![t] = tx[d].status]
    /\ credits' = [credits EXCEPT ![t] = @ + tx[d].credits]
    /\ EndTx(d)

\* Leaving the transaction commits it; handle() answers from the row it wrote.
Commit(d) ==
    /\ pc[d] = "commit"
    /\ Publish(d)
    /\ Return(d, tx[d].status)
    /\ UNCHANGED <<accounts, replies, of, found, result, failures>>

\* The loser of the race reads the winner's row.
ReadWinner(d) ==
    /\ pc[d] = "winner"
    /\ PoolFree
    /\ \/ /\ incoming[of[d]] # "none"
          /\ Return(d, incoming[of[d]])
          /\ UNCHANGED result
       \/ /\ incoming[of[d]] = "none"
          /\ End(d, "dead")
          /\ UNCHANGED reply
    /\ UNCHANGED <<tables, replies, tx, holder, of, found, failures>>

\* Mutant of PublishReply: the message is acknowledged before the publish, which may not come.
AckBeforePublish(d) ==
    /\ pc[d] = "publish"
    /\ \/ replies' = replies \cup {[transfer |-> of[d], event |-> reply[d]]}
       \/ UNCHANGED replies
    /\ End(d, "acked")
    /\ UNCHANGED <<tables, tx, holder, of, found, reply, failures>>

\* _publish_reply, with publisher confirms, and then the ack: a crash between
\* the two leaves a reply behind and the message to be delivered again.
PublishReply(d) ==
    /\ pc[d] = "publish"
    /\ replies' = replies \cup {[transfer |-> of[d], event |-> reply[d]]}
    /\ Goto(d, "ack")
    /\ UNCHANGED <<tables, tx, holder, of, found, reply, result, failures>>

Ack(d) ==
    /\ pc[d] = "ack"
    /\ End(d, "acked")
    /\ UNCHANGED <<tables, replies, tx, holder, of, found, reply, failures>>

\* An exception anywhere dead-letters the message at once; a crash leaves it
\* unacknowledged, to be delivered again.
Fail(d) ==
    /\ pc[d] \notin {"idle", "done"}
    /\ failures < MaxFailures
    /\ failures' = failures + 1
    /\ EndTx(d)
    /\ \E r \in {"dead", "unacked"} : End(d, r)
    /\ UNCHANGED <<tables, replies, of, found, reply>>

\* The commit takes effect and then the connection or the process is lost.
CommitUnheard(d) ==
    /\ pc[d] = "commit"
    /\ failures < MaxFailures
    /\ failures' = failures + 1
    /\ Publish(d)
    /\ \E r \in {"dead", "unacked"} : End(d, r)
    /\ UNCHANGED <<accounts, replies, of, found, reply>>

Handle(d) ==
    \/ FindExisting(d) \/ Acquire(d) \/ FindAccount(d) \/ TryInsert(d) \/ Append(d)
    \/ Commit(d) \/ ReadWinner(d) \/ PublishReply(d) \/ Ack(d)

Next ==
    \/ \E a \in Accounts : CreateAccount(a)
    \/ \E d \in Deliveries : Deliver(d) \/ Handle(d) \/ Fail(d) \/ CommitUnheard(d)

Spec == Init /\ [][Next]_vars

\* Coroutines whose await can complete are resumed; nothing makes a message
\* arrive or a statement fail.
FairSpec == Spec /\ \A d \in Deliveries : WF_vars(Handle(d))

----------------------------------------------------------------------------
(***************************************************************************)
(* Properties                                                              *)
(***************************************************************************)

RowStatuses == {"none", "CREDITED", "REJECTED"}
ReplyEvents == {"transfer.accepted", "transfer.rejected"}

\* Rows, buffers, locks and handlers hold what the schema and the code put there.
TypeOK ==
    /\ accounts \subseteq Accounts
    /\ incoming \in [Transfers -> RowStatuses]
    /\ credits \in [Transfers -> Nat]
    /\ replies \subseteq [transfer: Transfers, event: ReplyEvents]
    /\ tx \in [Deliveries -> [status: RowStatuses, credits: 0..1]]
    /\ holder \in [Transfers -> Deliveries \cup {None}]
    /\ of \in [Deliveries -> Transfers]
    /\ found \in [Deliveries -> BOOLEAN]
    /\ pc \in [Deliveries -> {"idle", "find", "acquire", "account", "insert", "append",
                              "commit", "winner", "publish", "ack", "done"}]
    /\ reply \in [Deliveries -> ReplyEvents \cup {"none"}]
    /\ result \in [Deliveries -> {"none", "acked", "dead", "unacked"}]
    /\ failures \in 0..MaxFailures

\* tests/transfers/test_service.py, "credits exactly once": a payee is credited
\* once if its row says CREDITED, never otherwise, however often and however
\* concurrently transfer.initiated is delivered, crashes included.
CreditedExactlyOnce ==
    \A t \in Transfers : credits[t] = IF incoming[t] = "CREDITED" THEN 1 ELSE 0

\* Bank A settles on any reply it gets, so no transfer may get two different
\* ones, and none may claim what the books do not say - not even when the
\* account is opened between two deliveries.
RepliesAgreeWithBooks ==
    \A r \in replies :
        /\ incoming[r.transfer] # "none"
        /\ r.event = ReplyFor(incoming[r.transfer])

\* A message leaves the queue only after its reply was published: otherwise
\* Bank A would wait for ever.
AckedMeansReplied ==
    \A d \in Deliveries : result[d] = "acked" => \E r \in replies : r.transfer = of[d]

Ideal == INSTANCE AtomicCredit

\* Each COMMIT and each publish is one step of AtomicCredit, every other await
\* none: a transfer is decided once, credited at that instant to an account
\* that is there, and every reply repeats the decision (service.py:41-91).
CreditSpec == Ideal!Spec

\* Every delivered message is answered, dead-lettered or handed back.
EveryDeliveryEnds == \A d \in Deliveries : pc[d] = "find" ~> pc[d] = "done"
=============================================================================
