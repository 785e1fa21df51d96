--------------------------- MODULE InterbankReply ---------------------------
(***************************************************************************)
(* How Bank A settles an interbank transfer: InterbankReplyService.handle, *)
(* called by the consumer of settlement.outcome messages and by the        *)
(* reconciliation sweep that asks the Hub about transfers left DEBITED.    *)
(* The consumer sets no prefetch and sweeps run on a timer whether or not  *)
(* the last one ended, so every caller of handle overlaps with every other.*)
(* (The reversal also waits for a transfer that holds its payer's account. *)
(* BankALedger shows those end; one sent with the refund's own key may wait*)
(* for the refund in turn, and then PostgreSQL aborts one of the two: Fail.)*)
(***************************************************************************)
EXTENDS Integers, FiniteSets

CONSTANTS
    Transfers,    \* interbank transfers already booked, DEBITED
    Deliveries,   \* deliveries of settlement.outcome messages
    Sweepers,     \* reconciliation sweeps that may be running at once
    LateRequests, \* those whose settlement.requested may come after STALE_AFTER_MS
    MaxFailures,  \* bound on failing statements, calls and crashes
    None

VARIABLES
    status,    \* interbank_transfers.status
    reversals, \* how often the entries suspense -> payer are in the ledger
    key,       \* the transfer under the key compensation-<id>: "none", the
               \* "refund", or one of a "client" that sent this key
    tx,        \* the uncommitted writes of each caller's transaction
    keyHolder, \* the open transaction that inserted each compensation key
    rowHolder, \* the open transaction that updated each interbank row
    hub,       \* the Hub's settlement row: its status, or "none"
    stale,     \* is updated_at more than STALE_AFTER_MS ago
    pc,        \* the next statement of each caller
    cur,       \* the transfer a caller is about
    outcome,   \* the outcome it applies
    todo,      \* what is left of a sweep's list
    result,    \* what became of the message of each delivery
    failures

bankA == <<status, reversals, key, tx, keyHolder, rowHolder>>
vars == <<bankA, hub, stale, pc, cur, outcome, todo, result, failures>>

Callers == Deliveries \cup Sweepers
Final == {"CONFIRMED", "REVERSED", "REJECTED"}

ASSUME ReplyAssumption ==
    /\ Deliveries \cap Sweepers = {}
    /\ None \notin Callers \cup Transfers
    /\ LateRequests \subseteq Transfers
    /\ MaxFailures \in Nat

NoWrites == [status |-> "none", reversals |-> 0]

Goto(p, l) == pc' = [pc EXCEPT ![p] = l]

EndTx(p) ==
    /\ tx' = [tx EXCEPT ![p] = NoWrites]
    /\ keyHolder' = [t \in Transfers |-> IF keyHolder[t] = p THEN None ELSE keyHolder[t]]
    /\ rowHolder' = [t \in Transfers |-> IF rowHolder[t] = p THEN None ELSE rowHolder[t]]

\* handle() returns: the consumer acks; a sweep goes on with its list.
Return(p) ==
    /\ Goto(p, IF p \in Deliveries THEN "done" ELSE "sweep")
    /\ result' = IF p \in Deliveries THEN [result EXCEPT ![p] = "acked"] ELSE result
    /\ UNCHANGED todo

\* Mutant of Throw: the message is acked whatever happened to it.
AckFailures(p) ==
    IF p \in Deliveries
    THEN /\ Goto(p, "done")
         /\ result' = [result EXCEPT ![p] = "acked"]
         /\ UNCHANGED todo
    ELSE /\ Goto(p, "idle")
         /\ todo' = [todo EXCEPT ![p] = {}]
         /\ UNCHANGED result

\* handle() throws: the consumer dead-letters (or the process dies before the
\* ack); a sweep gives up until the next interval.
Throw(p) ==
    IF p \in Deliveries
    THEN /\ Goto(p, "done")
         /\ \E r \in {"dead", "unacked"} : result' = [result EXCEPT ![p] = r]
         /\ UNCHANGED todo
    ELSE /\ Goto(p, "idle")
         /\ todo' = [todo EXCEPT ![p] = {}]
         /\ UNCHANGED result

----------------------------------------------------------------------------
Init ==
    /\ status = [t \in Transfers |-> "DEBITED"]
    /\ reversals = [t \in Transfers |-> 0]
    /\ key = [t \in Transfers |-> "none"]
    /\ tx = [p \in Callers |-> NoWrites]
    /\ keyHolder = [t \in Transfers |-> None]
    /\ rowHolder = [t \in Transfers |-> None]
    /\ hub = [t \in Transfers |-> "none"]
    /\ stale = [t \in Transfers |-> FALSE]
    /\ pc = [p \in Callers |-> "idle"]
    /\ cur = [p \in Callers |-> None]
    /\ outcome = [p \in Callers |-> "none"]
    /\ todo = [p \in Sweepers |-> {}]
    /\ result = [d \in Deliveries |-> "none"]
    /\ failures = 0

\* The Hub's side: settlement.requested arrives (or never does) and makes a
\* PENDING or REJECTED row; the payee bank's reply settles a PENDING one.
HubRecords(t) ==
    /\ hub[t] = "none"
    /\ stale[t] => t \in LateRequests
    /\ \E s \in {"PENDING", "REJECTED"} : hub' = [hub EXCEPT ![t] = s]
    /\ UNCHANGED <<bankA, stale, pc, cur, outcome, todo, result, failures>>

HubSettles(t) ==
    /\ hub[t] = "PENDING"
    /\ \E s \in {"CONFIRMED", "REVERSED"} : hub' = [hub EXCEPT ![t] = s]
    /\ UNCHANGED <<bankA, stale, pc, cur, outcome, todo, result, failures>>

\* STALE_AFTER_MS passes; updated_at does not move while the row is DEBITED.
GrowStale(t) ==
    /\ ~stale[t]
    /\ stale' = [stale EXCEPT ![t] = TRUE]
    /\ UNCHANGED <<bankA, hub, pc, cur, outcome, todo, result, failures>>

\* A client sends a transfer with the key compensation-<id> of t, whose id the
\* 201 told it: the controllers ask of an Idempotency-Key only that it is there
\* and not too long.  (BankALedger has the statements of that transfer; its insert
\* waits for a refund that is open, and loses to one that has committed.)
ClientTakesKey(t) ==
    /\ key[t] = "none"
    /\ keyHolder[t] = None
    /\ key' = [key EXCEPT ![t] = "client"]
    /\ UNCHANGED <<status, reversals, tx, keyHolder, rowHolder, hub, stale, pc, cur,
                   outcome, todo, result, failures>>

\* A settlement.outcome message is delivered, once or again.
Deliver(d, t) ==
    /\ pc[d] = "idle"
    /\ hub[t] \in Final
    /\ cur' = [cur EXCEPT ![d] = t]
    /\ outcome' = [outcome EXCEPT ![d] = hub[t]]
    /\ Goto(d, "find")
    /\ UNCHANGED <<bankA, hub, stale, todo, result, failures>>

\* sweep(): findStaleDebited.
StartSweep(w) ==
    /\ pc[w] = "idle"
    /\ \E t \in Transfers : stale[t] /\ status[t] = "DEBITED"
    /\ todo' = [todo EXCEPT ![w] = {t \in Transfers : stale[t] /\ status[t] = "DEBITED"}]
    /\ Goto(w, "sweep")
    /\ UNCHANGED <<bankA, hub, stale, cur, outcome, result, failures>>

EndSweep(w) ==
    /\ pc[w] = "sweep"
    /\ todo[w] = {}
    /\ Goto(w, "idle")
    /\ UNCHANGED <<bankA, hub, stale, cur, outcome, todo, result, failures>>

\* Mutant of AskHub: a PENDING settlement is compensated like a missing one.
ImpatientAsk(w, t) ==
    /\ pc[w] = "sweep"
    /\ t \in todo[w]
    /\ todo' = [todo EXCEPT ![w] = @ \ {t}]
    /\ cur' = [cur EXCEPT ![w] = t]
    /\ outcome' = [outcome EXCEPT ![w] = IF hub[t] \in Final THEN hub[t] ELSE "REJECTED"]
    /\ Goto(w, "find")
    /\ UNCHANGED <<bankA, hub, stale, result, failures>>

\* Mutant of AskHub: a 404 is left for the next sweep, like a PENDING one.
PatientAsk(w, t) ==
    /\ pc[w] = "sweep"
    /\ t \in todo[w]
    /\ todo' = [todo EXCEPT ![w] = @ \ {t}]
    /\ IF hub[t] \in Final
       THEN /\ cur' = [cur EXCEPT ![w] = t]
            /\ outcome' = [outcome EXCEPT ![w] = hub[t]]
            /\ Goto(w, "find")
       ELSE UNCHANGED <<pc, cur, outcome>>
    /\ UNCHANGED <<bankA, hub, stale, result, failures>>

\* Mutant of AskHub: what the Hub says is handled as it stands.
RawAsk(w, t) ==
    /\ pc[w] = "sweep"
    /\ t \in todo[w]
    /\ todo' = [todo EXCEPT ![w] = @ \ {t}]
    /\ cur' = [cur EXCEPT ![w] = t]
    /\ outcome' = [outcome EXCEPT ![w] = hub[t]]
    /\ Goto(w, "find")
    /\ UNCHANGED <<bankA, hub, stale, result, failures>>

\* reconcileOne(): GET /settlements/:id.  404 is handled as REJECTED, PENDING
\* is left for the next sweep, a settled one is handled as the Hub says.
AskHub(w, t) ==
    /\ pc[w] = "sweep"
    /\ t \in todo[w]
    /\ todo' = [todo EXCEPT ![w] = @ \ {t}]
    /\ IF hub[t] = "PENDING"
       THEN UNCHANGED <<pc, cur, outcome>>
       ELSE /\ cur' = [cur EXCEPT ![w] = t]
            /\ outcome' = [outcome EXCEPT ![w] = IF hub[t] = "none" THEN "REJECTED" ELSE hub[t]]
            /\ Goto(w, "find")
    /\ UNCHANGED <<bankA, hub, stale, result, failures>>

\* The Hub answers with an error: the sweep moves on.
AskHubFails(w, t) ==
    /\ pc[w] = "sweep"
    /\ t \in todo[w]
    /\ failures < MaxFailures
    /\ failures' = failures + 1
    /\ todo' = [todo EXCEPT ![w] = @ \ {t}]
    /\ UNCHANGED <<bankA, hub, stale, pc, cur, outcome, result>>

\* handle(): interbankTransfers.findById, outside any transaction.
FindInterbank(p) ==
    /\ pc[p] = "find"
    /\ IF status[cur[p]] # "DEBITED"
       THEN Return(p)
       ELSE /\ Goto(p, IF outcome[p] = "CONFIRMED" THEN "confirm" ELSE "insert")
            /\ UNCHANGED <<todo, result>>
    /\ UNCHANGED <<bankA, hub, stale, cur, outcome, failures>>

\* Mutant of Settled: the update does not ask for DEBITED.
Overwritten(old, new) == new

\* UPDATE ... WHERE status = 'DEBITED'.
Settled(old, new) == IF old = "DEBITED" THEN new ELSE old

\* markConfirmed on its own: it waits for an open update of the row.
ConfirmRow(p) ==
    LET t == cur[p] IN
    /\ pc[p] = "confirm"
    /\ rowHolder[t] = None
    /\ status' = [status EXCEPT ![t] = Settled(@, "CONFIRMED")]
    /\ UNCHANGED <<reversals, key, tx, keyHolder, rowHolder, hub, stale, cur, outcome>>

MarkConfirmed(p) ==
    /\ ConfirmRow(p)
    /\ Return(p)
    /\ UNCHANGED failures

\* The update takes effect and then the connection or the process is lost.
ConfirmUnheard(p) ==
    /\ failures < MaxFailures
    /\ failures' = failures + 1
    /\ ConfirmRow(p)
    /\ Throw(p)

\* Mutant of InsertReversal: the key is new every time.
InsertFreshKey(p) ==
    /\ pc[p] = "insert"
    /\ tx' = [tx EXCEPT ![p].reversals = 1]
    /\ Goto(p, "mark")
    /\ UNCHANGED <<status, reversals, key, keyHolder, rowHolder, hub, stale,
                   cur, outcome, todo, result, failures>>

\* compensate(): insert the reversal under compensation-<id>, waiting for an
\* open transaction on that key; append its entries only if it was inserted,
\* and not if any transfer, a client's too, has the key.
InsertReversal(p) ==
    LET t == cur[p] IN
    /\ pc[p] = "insert"
    /\ keyHolder[t] = None
    /\ IF key[t] # "none"
       THEN UNCHANGED <<tx, keyHolder>>
       ELSE /\ keyHolder' = [keyHolder EXCEPT ![t] = p]
            /\ tx' = [tx EXCEPT ![p] = [status |-> "none", reversals |-> 1]]
    /\ Goto(p, "mark")
    /\ UNCHANGED <<status, reversals, key, rowHolder, hub, stale, cur, outcome,
                   todo, result, failures>>

\* markCompensated, inside the same transaction.
MarkCompensated(p) ==
    LET t == cur[p] IN
    /\ pc[p] = "mark"
    /\ rowHolder[t] = None
    /\ IF status[t] = "DEBITED"
       THEN /\ rowHolder' = [rowHolder EXCEPT ![t] = p]
            /\ tx' = [tx EXCEPT ![p] = [status |-> "COMPENSATED", reversals |-> tx[p].reversals]]
       ELSE UNCHANGED <<rowHolder, tx>>
    /\ Goto(p, "commit")
    /\ UNCHANGED <<status, reversals, key, keyHolder, hub, stale, cur, outcome,
                   todo, result, failures>>

Publish(p) ==
    LET t == cur[p] IN
    /\ status' = [status EXCEPT ![t] = IF tx[p].status = "none" THEN @ ELSE tx[p].status]
    /\ reversals' = [reversals EXCEPT ![t] = @ + tx[p].reversals]
    /\ key' = [key EXCEPT ![t] = IF tx[p].reversals = 0 THEN @ ELSE "refund"]
    /\ EndTx(p)

Commit(p) ==
    /\ pc[p] = "commit"
    /\ Publish(p)
    /\ Return(p)
    /\ UNCHANGED <<hub, stale, cur, outcome, failures>>

\* The commit takes effect and then the connection or the process is lost.
CommitUnheard(p) ==
    /\ pc[p] = "commit"
    /\ failures < MaxFailures
    /\ failures' = failures + 1
    /\ Publish(p)
    /\ Throw(p)
    /\ UNCHANGED <<hub, stale, cur, outcome>>

\* A statement or a call fails, or the process dies.
Fail(p) ==
    /\ pc[p] \notin {"idle", "done"}
    /\ failures < MaxFailures
    /\ failures' = failures + 1
    /\ EndTx(p)
    /\ Throw(p)
    /\ UNCHANGED <<status, reversals, key, hub, stale, cur, outcome>>

Handle(p) ==
    \/ FindInterbank(p) \/ MarkConfirmed(p) \/ InsertReversal(p)
    \/ MarkCompensated(p) \/ Commit(p)

Sweep(w) == StartSweep(w) \/ EndSweep(w) \/ \E t \in Transfers : AskHub(w, t)

Next ==
    \/ \E t \in Transfers : HubRecords(t) \/ HubSettles(t) \/ GrowStale(t) \/ ClientTakesKey(t)
    \/ \E d \in Deliveries, t \in Transfers : Deliver(d, t)
    \/ \E w \in Sweepers : Sweep(w) \/ \E t \in Transfers : AskHubFails(w, t)
    \/ \E p \in Callers : Handle(p) \/ CommitUnheard(p) \/ ConfirmUnheard(p) \/ Fail(p)

Spec == Init /\ [][Next]_vars

\* Callers that can go on do; the timer keeps starting sweeps; time passes.
\* Nothing makes the Hub record or settle anything, or a message arrive.
FairSpec ==
    /\ Spec
    /\ \A p \in Callers : WF_vars(Handle(p))
    /\ \A w \in Sweepers : WF_vars(Sweep(w))
    /\ \A t \in Transfers : WF_vars(GrowStale(t))

----------------------------------------------------------------------------
(***************************************************************************)
(* Properties                                                              *)
(***************************************************************************)

\* Rows, buffers, locks and callers hold what the schema and the code put there.
TypeOK ==
    /\ status \in [Transfers -> {"DEBITED", "CONFIRMED", "COMPENSATED"}]
    /\ reversals \in [Transfers -> Nat]
    /\ key \in [Transfers -> {"none", "refund", "client"}]
    /\ tx \in [Callers -> [status: {"none", "COMPENSATED"}, reversals: 0..1]]
    /\ keyHolder \in [Transfers -> Callers \cup {None}]
    /\ rowHolder \in [Transfers -> Callers \cup {None}]
    /\ hub \in [Transfers -> {"none", "PENDING"} \cup Final]
    /\ stale \in [Transfers -> BOOLEAN]
    /\ pc \in [Callers -> {"idle", "find", "confirm", "insert", "mark", "commit", "sweep", "done"}]
    /\ cur \in [Callers -> Transfers \cup {None}]
    /\ outcome \in [Callers -> {"none"} \cup Final]
    /\ todo \in [Sweepers -> SUBSET Transfers]
    /\ result \in [Deliveries -> {"none", "acked", "dead", "unacked"}]
    /\ failures \in 0..MaxFailures

\* A late request may be refunded and settled; these transfers cannot be late.
OnTime == Transfers \ LateRequests

\* The payer is refunded exactly when the transfer is COMPENSATED, and once,
\* however the outcome messages and the sweeps that find it DEBITED overlap -
\* unless a client's transfer has the key of the refund: then it never is, though
\* README.md:59 has "compensating transfer" and "status = COMPENSATED" in one.
RefundFollowsStatus ==
    \A t \in OnTime :
        reversals[t] = IF status[t] = "COMPENSATED" /\ key[t] # "client" THEN 1 ELSE 0

\* The two ledgers do not disagree on a transfer: Bank A does not refund what
\* the Hub has settled, and closes it as CONFIRMED only when the Hub did.
Agreed(t) ==
    /\ hub[t] = "CONFIRMED" => status[t] # "COMPENSATED" /\ reversals[t] = 0
    /\ status[t] = "CONFIRMED" => hub[t] = "CONFIRMED"

\* A transfer whose request is on time is settled the same at both banks.
OnTimeAgreesWithHub == \A t \in OnTime : Agreed(t)

Ideal == INSTANCE AtomicClosing WITH clients <- {t \in Transfers : key[t] = "client"}

\* Statement by statement, with overlapping outcomes and sweeps, Bank A takes the
\* steps of AtomicClosing and no other: a transfer is closed once, as the Hub
\* decided, refund and status together if the refund's key is free, and a
\* terminal status is never clobbered (interbank-transfer.repository.ts:53-57).
ClosingSpec == Ideal!Spec

\* An acknowledged outcome has settled its transfer.
AckedMeansSettled ==
    \A d \in Deliveries : result[d] = "acked" => status[cur[d]] # "DEBITED"

\* The safety net (reconciliation.service.ts:7-14): whatever messages are
\* lost, dead-lettered or never sent, a transfer the Hub has settled - or never
\* hears of - does not stay DEBITED: only one the Hub holds PENDING for ever
\* may.
NothingStaysInDoubt ==
    \A t \in Transfers : <>[](hub[t] # "PENDING") => <>(status[t] # "DEBITED")
=============================================================================
