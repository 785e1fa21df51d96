--------------------------- MODULE HubSettlement ---------------------------
(***************************************************************************)
(* The Hub's two message handlers, SettlementsService.handleRequested and  *)
(* handleReply, with the consumer that acknowledges or dead-letters their  *)
(* messages.  A delivery is one run of a handler; the consumer sets no     *)
(* prefetch, so deliveries overlap, and a message may be delivered more    *)
(* than once (a relay that publishes twice, a crash before the ack).       *)
(***************************************************************************)
EXTENDS Integers, Sequences, FiniteSets

CONSTANTS
    Settlements,   \* settlement ids (the payer bank's transfer ids)
    Deliveries,    \* handler runs
    Banks,         \* bank ids that messages name
    Founders,      \* banks registered before the first message
    Payer, Payee,  \* the banks each settlement.requested names
    Verdict,       \* what each payee bank answers: its replies never differ
    ReplyHandlers, \* bound on overlapping deliveries of one settlement's reply
    MaxFailures,   \* bound on failing statements and crashes
    None

VARIABLES
    banks,      \* table banks
    status,     \* table settlements: the status of each row, or "none"
    legs,       \* table hub_ledger_entries: how often the entries of each
                \* settlement were appended, and how often their reversal
    outbox,     \* table outbox_events: the events of each settlement in order
    tx,         \* the uncommitted writes of each delivery's transaction
    holder,     \* the open transaction that wrote each settlement's row
    msg,        \* the message of each delivery
    known,      \* did banks.findById find the payee bank
    pc,         \* the next statement of each delivery
    result,     \* what became of the message
    failures    \* failures so far

tables == <<banks, status, legs, outbox>>
vars == <<banks, status, legs, outbox, tx, holder, msg, known, pc, result, failures>>

Outcomes == {"CONFIRMED", "REVERSED"}

ASSUME HubAssumption ==
    /\ IsFiniteSet(Deliveries)
    /\ Founders \subseteq Banks
    /\ Payer \in [Settlements -> Banks]
    /\ Payee \in [Settlements -> Banks]
    /\ Verdict \in [Settlements -> Outcomes]
    /\ ReplyHandlers \in Nat \ {0}
    /\ MaxFailures \in Nat
    /\ None \notin Deliveries \cup Settlements

Messages == [type: {"requested", "reply"}, settlement: Settlements]

NoWrites == [status |-> "none", moved |-> 0, back |-> 0, events |-> <<>>]

Id(d) == msg[d].settlement

\* Deliveries of a settlement's reply that are being handled now.
Replying(s) ==
    {d \in Deliveries : pc[d] \notin {"idle", "done"}
                        /\ msg[d] = [type |-> "reply", settlement |-> s]}

Goto(d, l) == pc' = [pc EXCEPT ![d] = l]

\* Mutant of End: the consumer acknowledges what failed too.
AckFailures(d, r) ==
    /\ Goto(d, "done")
    /\ result' = [result EXCEPT ![d] = IF r = "dead" THEN "acked" ELSE r]

\* channel.ack, or channel.nack without requeue (the dead-letter queue), or a
\* process that dies with the message unacknowledged.
End(d, r) == Goto(d, "done") /\ result' = [result EXCEPT ![d] = r]

\* Mutant of EndTx: the row stays locked.
LeakRow(d) == tx' = [tx EXCEPT ![d] = NoWrites] /\ UNCHANGED holder

EndTx(d) ==
    /\ tx' = [tx EXCEPT ![d] = NoWrites]
    /\ holder' = [s \in Settlements |-> IF holder[s] = d THEN None ELSE holder[s]]

Rollback(d, r) == EndTx(d) /\ End(d, r)

RowFree(d) == holder[Id(d)] \in {None, d}

----------------------------------------------------------------------------
Init ==
    /\ banks = Founders
    /\ status = [s \in Settlements |-> "none"]
    /\ legs = [s \in Settlements |-> [moved |-> 0, back |-> 0]]
    /\ outbox = [s \in Settlements |-> <<>>]
    /\ tx = [d \in Deliveries |-> NoWrites]
    /\ holder = [s \in Settlements |-> None]
    /\ msg \in [Deliveries -> Messages]
    /\ known = [d \in Deliveries |-> FALSE]
    /\ pc = [d \in Deliveries |-> "idle"]
    /\ result = [d \in Deliveries |-> "none"]
    /\ failures = 0

\* POST /banks: the first registration of an id wins.
RegisterBank(b) ==
    /\ b \notin banks
    /\ banks' = banks \cup {b}
    /\ UNCHANGED <<status, legs, outbox, tx, holder, msg, known, pc, result, failures>>

Deliver(d) ==
    /\ pc[d] = "idle"
    /\ msg[d].type = "reply" => Cardinality(Replying(Id(d))) < ReplyHandlers
    /\ Goto(d, IF msg[d].type = "requested" THEN "bank" ELSE "find")
    /\ UNCHANGED <<tables, tx, holder, msg, known, result, failures>>

\* handleRequested reads the payee bank before its transaction.
FindBank(d) ==
    /\ pc[d] = "bank"
    /\ known' = [known EXCEPT ![d] = Payee[Id(d)] \in banks]
    /\ Goto(d, "insert")
    /\ UNCHANGED <<tables, tx, holder, msg, result, failures>>

\* Settlement.create refuses a payment within one bank before the insert; the
\* table refuses it too, and a payer bank that is not registered.
Refused(d) == known[d] /\ Payer[Id(d)] = Payee[Id(d)]
Insertable(d) == Payer[Id(d)] # Payee[Id(d)] /\ Payer[Id(d)] \in banks

\* Mutant of InsertSettlement: it does not look at whether the row was inserted.
IgnoreLostInsert(d) ==
    /\ pc[d] = "insert"
    /\ RowFree(d)
    /\ tx' = [tx EXCEPT ![d].status = IF status[Id(d)] = "none" THEN "PENDING" ELSE "none"]
    /\ Goto(d, "write")
    /\ UNCHANGED <<tables, holder, result, msg, known, failures>>

\* INSERT INTO settlements .. ON CONFLICT (id) DO NOTHING, which waits for an
\* open transaction on the row.
InsertSettlement(d) ==
    LET s == Id(d) IN
    /\ pc[d] = "insert"
    /\ \/ /\ Refused(d)
          /\ Rollback(d, "dead")
       \/ /\ ~Refused(d) /\ RowFree(d) /\ status[s] # "none"
          /\ Goto(d, "commit")
          /\ UNCHANGED <<tx, holder, result>>
       \/ /\ ~Refused(d) /\ RowFree(d) /\ status[s] = "none"
          /\ Insertable(d)
          /\ holder' = [holder EXCEPT ![s] = d]
          /\ tx' = [tx EXCEPT ![d] =
                       [status |-> IF known[d] THEN "PENDING" ELSE "REJECTED",
                        moved |-> 0, back |-> 0, events |-> <<>>]]
          /\ Goto(d, "write")
          /\ UNCHANGED result
       \/ /\ ~Refused(d) /\ RowFree(d) /\ status[s] = "none"
          /\ ~Insertable(d)
          /\ Rollback(d, "dead")
    /\ UNCHANGED <<tables, msg, known, failures>>

\* Mutant of WriteRequested: the entries are appended twice.
AppendTwice(d) ==
    /\ pc[d] = "write"
    /\ tx' = [tx EXCEPT ![d].moved = 2, ![d].events = <<"notify">>]
    /\ Goto(d, "commit")
    /\ UNCHANGED <<tables, holder, msg, known, result, failures>>

\* A new PENDING row moves the reserves and notifies the payee bank; a new
\* REJECTED one answers the payer bank.
WriteRequested(d) ==
    /\ pc[d] = "write"
    /\ tx' = [tx EXCEPT ![d] =
                 [status |-> tx[d].status,
                  moved  |-> IF known[d] THEN 1 ELSE 0,
                  back   |-> 0,
                  events |-> IF known[d] THEN <<"notify">> ELSE <<"REJECTED">>]]
    /\ Goto(d, "commit")
    /\ UNCHANGED <<tables, holder, msg, known, result, failures>>

\* Mutant of FindSettlement: no early return for a settled row.
SettleAgain(d) ==
    /\ pc[d] = "find"
    /\ IF status[Id(d)] = "none" THEN End(d, "dead") ELSE Goto(d, "settle") /\ UNCHANGED result
    /\ UNCHANGED <<tables, tx, holder, msg, known, failures>>

\* handleReply reads the settlement through the pool, before its transaction:
\* no row is an error, a settled row a no-op.
FindSettlement(d) ==
    LET s == Id(d) IN
    /\ pc[d] = "find"
    /\ \/ status[s] = "none" /\ End(d, "dead")
       \/ status[s] \notin {"none", "PENDING"} /\ End(d, "acked")
       \/ status[s] = "PENDING" /\ Goto(d, "settle") /\ UNCHANGED result
    /\ UNCHANGED <<tables, tx, holder, msg, known, failures>>

\* The statements of its transaction.  markConfirmed and markReversed wait for
\* the row and change it only if it is PENDING by then; the reversal entries
\* and the outcome event are inserted whatever they find.
Settle(d) ==
    LET s == Id(d)
        v == Verdict[s] IN
    /\ pc[d] = "settle"
    /\ RowFree(d)
    /\ holder' = [holder EXCEPT ![s] = IF status[s] = "PENDING" THEN d ELSE None]
    /\ tx' = [tx EXCEPT ![d] =
                 [status |-> IF status[s] = "PENDING" THEN v ELSE "none",
                  moved  |-> 0,
                  back   |-> IF v = "REVERSED" THEN 1 ELSE 0,
                  events |-> <<v>>]]
    /\ Goto(d, "commit")
    /\ UNCHANGED <<tables, msg, known, result, failures>>

Publish(d) ==
    LET s == Id(d) IN
    /\ status' = IF tx[d].status = "none" THEN status
                 ELSE [status EXCEPT ![s] = tx[d].status]
    /\ legs' = [legs EXCEPT ![s] = [moved |-> @.moved + tx[d].moved,
                                    back  |-> @.back + tx[d].back]]
    /\ outbox' = [outbox EXCEPT ![s] = @ \o tx[d].events]
    /\ EndTx(d)

Commit(d) ==
    /\ pc[d] = "commit"
    /\ Publish(d)
    /\ End(d, "acked")
    /\ UNCHANGED <<banks, msg, known, failures>>

\* The commit takes effect but the connection or the process is lost.
CommitUnheard(d) ==
    /\ pc[d] = "commit"
    /\ failures < MaxFailures
    /\ failures' = failures + 1
    /\ Publish(d)
    /\ \E r \in {"dead", "unacked"} : End(d, r)
    /\ UNCHANGED <<banks, msg, known>>

\* A statement fails (the consumer dead-letters at once) or the process dies
\* (the broker will redeliver: another delivery of the same message).
Fail(d) ==
    /\ pc[d] \notin {"idle", "done"}
    /\ failures < MaxFailures
    /\ failures' = failures + 1
    /\ \E r \in {"dead", "unacked"} : Rollback(d, r)
    /\ UNCHANGED <<tables, msg, known>>

Handle(d) ==
    \/ FindBank(d) \/ InsertSettlement(d) \/ WriteRequested(d)
    \/ FindSettlement(d) \/ Settle(d) \/ Commit(d)

Next ==
    \/ \E b \in Banks : RegisterBank(b)
    \/ \E d \in Deliveries : Deliver(d) \/ Handle(d) \/ CommitUnheard(d) \/ Fail(d)

Spec == Init /\ [][Next]_vars

\* Handlers run to their end: the event loop and the server serve them.
FairSpec == Spec /\ \A d \in Deliveries : WF_vars(Handle(d))

----------------------------------------------------------------------------
(***************************************************************************)
(* Properties                                                              *)
(***************************************************************************)

Events == {"notify", "REJECTED"} \cup Outcomes
RowStatuses == {"none", "PENDING", "REJECTED"} \cup Outcomes

\* Rows, buffers, locks and handlers hold what the schema and the code put there.
TypeOK ==
    /\ banks \subseteq Banks
    /\ status \in [Settlements -> RowStatuses]
    /\ legs \in [Settlements -> [moved: Nat, back: Nat]]
    /\ outbox \in [Settlements -> Seq(Events)]
    /\ tx \in [Deliveries -> [status: RowStatuses, moved: 0..1, back: 0..1, events: Seq(Events)]]
    /\ holder \in [Settlements -> Deliveries \cup {None}]
    /\ msg \in [Deliveries -> Messages]
    /\ known \in [Deliveries -> BOOLEAN]
    /\ pc \in [Deliveries -> {"idle", "bank", "insert", "write", "find", "settle", "commit", "done"}]
    /\ result \in [Deliveries -> {"none", "acked", "dead", "unacked"}]
    /\ failures \in 0..MaxFailures

\* Reserves moved once, and back once exactly when the settlement is REVERSED,
\* in every committed state and under any redelivery: the append is not
\* guarded by the status, only the update is (settlements.service.ts:142).
ReservesFollowStatus ==
    \A s \in Settlements :
        legs[s] = [moved |-> IF status[s] \in {"none", "REJECTED"} THEN 0 ELSE 1,
                   back  |-> IF status[s] = "REVERSED" THEN 1 ELSE 0]

\* The payee bank is notified once, and the payer bank is told one outcome, the
\* one the settlement row ends in.
OneOutcomePerSettlement ==
    \A s \in Settlements :
        /\ status[s] = "none"      => outbox[s] = <<>>
        /\ status[s] = "REJECTED"  => outbox[s] = <<"REJECTED">>
        /\ status[s] = "PENDING"   => outbox[s] = <<"notify">>
        /\ status[s] \in Outcomes  => outbox[s] = <<"notify", status[s]>>

\* A message that is acknowledged is dealt with for good: a request has its
\* row, a reply has settled its settlement.  An ack that came back from a
\* lost race or a stale read would lose the message.
AckMeansDone ==
    \A d \in Deliveries : result[d] = "acked" =>
        status[Id(d)] \notin (IF msg[d].type = "reply" THEN {"none", "PENDING"} ELSE {"none"})

Ideal == INSTANCE AtomicSettlement

\* The Hub's tables take the steps of AtomicSettlement and no other: row,
\* reserves and event change together, and a settled settlement stays as it
\* is (settlements.service.ts:123).
SettlementSpec == Ideal!Spec

\* The same but for repeated endings: all that replies handled at once can do.
RepeatingSpec == Ideal!RepeatingSpec

\* Every message that is delivered is acknowledged, dead-lettered or handed
\* back: handlers never wait for one another in a circle.
EveryDeliveryEnds ==
    \A d \in Deliveries : pc[d] # "idle" ~> pc[d] = "done"
=============================================================================
