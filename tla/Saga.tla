-------------------------------- MODULE Saga --------------------------------
(***************************************************************************)
(* An interbank payment across the four parties: the demo client, Bank A,  *)
(* the Hub and the payee's bank, each with its own database, coordinated   *)
(* by the messages of the hub-settlements exchange alone.  The handlers    *)
(* that BankALedger, HubSettlement, BankBInbound and InterbankReply take   *)
(* apart are single steps here; what is between them - outbox rows,        *)
(* messages lost, repeated and reordered, the reconciliation sweep and its *)
(* delay, the client's polls - is what this module is about.  COMPENSATED  *)
(* stands for refunded: no client's transfer has the key of a refund (what *)
(* comes of one that has, InterbankReply shows).                           *)
(***************************************************************************)
EXTENDS Naturals

CONSTANTS
    Payments,
    Lossy,      \* the kinds of message that may be lost or dead-lettered
    Timely,     \* is a settlement.requested never handled after STALE_AFTER_MS
    MaxFailures \* bound on lost and repeated messages

VARIABLES
    bank,   \* Bank A's interbank_transfers.status, or "none"
    hub,    \* the Hub's settlements.status, or "none"
    payee,  \* what the payee's bank recorded for the settlement, or "none"
    outbox, \* unpublished rows of the outbox tables
    wire,   \* messages at the broker, and the Hub's answers to a sweep
    stale,  \* is updated_at more than STALE_AFTER_MS ago
    shown,  \* the status the client shows, "none", or "lost": it saw an error
    failures

vars == <<bank, hub, payee, outbox, wire, stale, shown, failures>>

ASSUME SagaAssumption ==
    /\ Timely \in BOOLEAN
    /\ MaxFailures \in Nat

HubStatuses == {"none", "PENDING", "CONFIRMED", "REVERSED", "REJECTED"}

\* The routing keys of the exchange, and a sweep's GET with its 404: "none".
Message ==
    [kind: {"requested", "notify"}, payment: Payments, says: {"none"}]
        \cup [kind: {"reply", "outcome"}, payment: Payments, says: {"CONFIRMED", "REJECTED"}]
        \cup [kind: {"answer"}, payment: Payments, says: HubStatuses \ {"PENDING"}]

Msg(k, p, s) == [kind |-> k, payment |-> p, says |-> s]

Requested(p) == Msg("requested", p, "none")

----------------------------------------------------------------------------
Init ==
    /\ bank = [p \in Payments |-> "none"]
    /\ hub = [p \in Payments |-> "none"]
    /\ payee = [p \in Payments |-> "none"]
    /\ outbox = {}
    /\ wire = {}
    /\ stale = [p \in Payments |-> FALSE]
    /\ shown = [p \in Payments |-> "none"]
    /\ failures = 0

\* InterbankTransfersService.execute books the transfer with its DEBITED row
\* and its settlement.requested event (BankALedger: all at once or not at all).
Book(p) ==
    /\ bank[p] = "none"
    /\ bank' = [bank EXCEPT ![p] = "DEBITED"]
    /\ outbox' = outbox \cup {Requested(p)}
    /\ UNCHANGED <<hub, payee, wire, stale, shown, failures>>

\* sendTransfer hears of the booking and shows it, as DEBITED whatever has
\* happened since - or the answer is lost, an error is shown, and nothing
\* follows the payment any more.
Answered(p) ==
    /\ bank[p] # "none"
    /\ shown[p] = "none"
    /\ \E s \in {"DEBITED", "lost"} : shown' = [shown EXCEPT ![p] = s]
    /\ UNCHANGED <<bank, hub, payee, outbox, wire, stale, failures>>

\* A relay publishes a row and marks it; a tick that fails after the first
\* half leaves the row to be published again.
Relay(m) ==
    /\ m \in outbox
    /\ wire' = wire \cup {m}
    /\ \/ outbox' = outbox \ {m} /\ UNCHANGED failures
       \/ failures < MaxFailures /\ failures' = failures + 1 /\ UNCHANGED outbox
    /\ UNCHANGED <<bank, hub, payee, stale, shown>>

\* A handler throws and its message goes to the dead-letter queue, the broker
\* loses a queue, or a sweep's fetch or handling fails.
Lose(m) ==
    /\ m \in wire
    /\ m.kind \in Lossy \cup {"answer"}
    /\ failures < MaxFailures
    /\ failures' = failures + 1
    /\ wire' = wire \ {m}
    /\ UNCHANGED <<bank, hub, payee, outbox, stale, shown>>

\* A handler takes m and sends out; the ack may be lost and m come again.
Receive(m, out) ==
    /\ m \in wire
    /\ \/ wire' = (wire \ {m}) \cup out /\ UNCHANGED failures
       \/ /\ m.kind # "answer"
          /\ failures < MaxFailures
          /\ failures' = failures + 1
          /\ wire' = wire \cup out

\* Mutant of Decide: the reserves are taken to be moved, and Bank A told so,
\* when the settlement is recorded.
DecideEarly(p, s) ==
    /\ hub' = [hub EXCEPT ![p] = s]
    /\ outbox' = outbox \cup (IF s = "PENDING"
                              THEN {Msg("notify", p, "none"), Msg("outcome", p, "CONFIRMED")}
                              ELSE {Msg("outcome", p, "REJECTED")})

\* A row of settlements gets a status, and the event that goes with it:
\* PENDING notifies the payee's bank, an ending is the payer bank's outcome, where
\* REVERSED and REJECTED read the same.
Decide(p, s) ==
    /\ hub' = [hub EXCEPT ![p] = s]
    /\ outbox' = outbox \cup
         {IF s = "PENDING" THEN Msg("notify", p, "none")
          ELSE Msg("outcome", p, IF s = "CONFIRMED" THEN s ELSE "REJECTED")}

\* handleRequested: ON CONFLICT DO NOTHING makes a repetition a no-op.
HubRequested(m) ==
    LET p == m.payment IN
    /\ m.kind = "requested"
    /\ Receive(m, {})
    /\ IF hub[p] = "none"
       THEN \E s \in {"PENDING", "REJECTED"} : Decide(p, s)
       ELSE UNCHANGED <<hub, outbox>>
    /\ UNCHANGED <<bank, payee, stale, shown>>

\* The payee's bank decides once, keeps its decision, and replies with it as
\* often as it is notified.
NotifyPayee(m) ==
    LET p == m.payment
        s == payee'[p]
    IN
    /\ m.kind = "notify"
    /\ IF payee[p] = "none"
       THEN \E d \in {"CONFIRMED", "REJECTED"} : payee' = [payee EXCEPT ![p] = d]
       ELSE UNCHANGED payee
    /\ Receive(m, {Msg("reply", p, s)})
    /\ UNCHANGED <<bank, hub, outbox, stale, shown>>

\* handleReply: a settlement that is not PENDING has been settled already.
HubReply(m) ==
    LET p == m.payment IN
    /\ m.kind = "reply"
    /\ Receive(m, {})
    /\ IF hub[p] = "PENDING"
       THEN Decide(p, IF m.says = "CONFIRMED" THEN "CONFIRMED" ELSE "REVERSED")
       ELSE UNCHANGED <<hub, outbox>>
    /\ UNCHANGED <<bank, payee, stale, shown>>

\* STALE_AFTER_MS passes and the transfer is still DEBITED.  Timely is what
\* reconciliation.service.ts:49-50 takes for granted: by then its request has
\* been handled, or never will be.
GrowStale(p) ==
    /\ bank[p] = "DEBITED"
    /\ ~stale[p]
    /\ Timely => hub[p] # "none" \/ Requested(p) \notin outbox \cup wire
    /\ stale' = [stale EXCEPT ![p] = TRUE]
    /\ UNCHANGED <<bank, hub, payee, outbox, wire, shown, failures>>

\* Mutant of Ask: a settlement that is still PENDING is not left alone.
AskImpatiently(p) ==
    /\ bank[p] = "DEBITED" /\ stale[p]
    /\ wire' = wire \cup {Msg("answer", p, hub[p])}
    /\ UNCHANGED <<bank, hub, payee, outbox, stale, shown, failures>>

\* Mutant of Ask: only what the Hub knows of is acted on.
AskPatiently(p) ==
    /\ bank[p] = "DEBITED" /\ stale[p]
    /\ hub[p] \notin {"none", "PENDING"}
    /\ wire' = wire \cup {Msg("answer", p, hub[p])}
    /\ UNCHANGED <<bank, hub, payee, outbox, stale, shown, failures>>

\* Mutant of Ask: transfers are asked about, and refunded, when still young.
AskEarly(p) ==
    /\ bank[p] = "DEBITED"
    /\ hub[p] # "PENDING"
    /\ wire' = wire \cup {Msg("answer", p, hub[p])}
    /\ UNCHANGED <<bank, hub, payee, outbox, stale, shown, failures>>

\* A sweep asks the Hub about a stale transfer.  It acts on the answer later,
\* and other sweeps may ask meanwhile; PENDING is left for the next sweep.
Ask(p) ==
    /\ bank[p] = "DEBITED" /\ stale[p]
    /\ hub[p] # "PENDING"
    /\ wire' = wire \cup {Msg("answer", p, hub[p])}
    /\ UNCHANGED <<bank, hub, payee, outbox, stale, shown, failures>>

\* InterbankReplyService.handle, for an outcome or a sweep's answer: anything
\* but CONFIRMED - a 404 too - gives the payer the money back.
Settle(m) ==
    LET p == m.payment IN
    /\ m.kind \in {"outcome", "answer"}
    /\ Receive(m, {})
    /\ bank' = [bank EXCEPT ![p] = IF @ # "DEBITED" THEN @
                                   ELSE IF m.says = "CONFIRMED" THEN "CONFIRMED"
                                   ELSE "COMPENSATED"]
    /\ UNCHANGED <<hub, payee, outbox, stale, shown>>

\* useTransferPolling: a transfer shown as DEBITED is read again, and shown
\* when it is no longer so.  (A status that has left DEBITED is final, so
\* polls that overlap and answer late change nothing.)
Poll(p) ==
    /\ shown[p] = "DEBITED"
    /\ bank[p] # "DEBITED"
    /\ shown' = [shown EXCEPT ![p] = bank[p]]
    /\ UNCHANGED <<bank, hub, payee, outbox, wire, stale, failures>>

Handle(m) == HubRequested(m) \/ NotifyPayee(m) \/ HubReply(m) \/ Settle(m)

Next ==
    \/ \E p \in Payments : Book(p) \/ Answered(p) \/ GrowStale(p) \/ Ask(p) \/ Poll(p)
    \/ \E m \in Message : Relay(m) \/ Lose(m) \/ Handle(m)

Spec == Init /\ [][Next]_vars

\* Nothing makes a client pay.  Relays publish what is committed, consumers
\* handle what the broker has, time passes, and sweeps, polls and answers to
\* requests come.
FairSpec ==
    /\ Spec
    /\ \A m \in Message : WF_vars(Relay(m)) /\ WF_vars(Handle(m))
    /\ \A p \in Payments : /\ WF_vars(Answered(p)) /\ WF_vars(GrowStale(p))
                           /\ WF_vars(Ask(p)) /\ WF_vars(Poll(p))

----------------------------------------------------------------------------
(***************************************************************************)
(* Properties                                                              *)
(***************************************************************************)

\* Rows and messages are those the schemas and the handlers allow.
TypeOK ==
    /\ bank \in [Payments -> {"none", "DEBITED", "CONFIRMED", "COMPENSATED"}]
    /\ hub \in [Payments -> HubStatuses]
    /\ payee \in [Payments -> {"none", "CONFIRMED", "REJECTED"}]
    /\ outbox \subseteq Message
    /\ wire \subseteq Message
    /\ stale \in [Payments -> BOOLEAN]
    /\ shown \in [Payments -> {"none", "lost", "DEBITED", "CONFIRMED", "COMPENSATED"}]
    /\ failures \in 0..MaxFailures

\* The ledgers of the three institutions never disagree on where the money
\* is: nobody is ahead of the institution whose decision it rests on.
BanksAgree ==
    \A p \in Payments :
        /\ bank[p] = "CONFIRMED" => hub[p] = "CONFIRMED"
        /\ bank[p] = "COMPENSATED" => hub[p] \in {"none", "REVERSED", "REJECTED"}
        /\ hub[p] = "CONFIRMED" => payee[p] = "CONFIRMED"
        /\ hub[p] = "REVERSED" => payee[p] = "REJECTED"
        /\ hub[p] \in {"none", "REJECTED"} => payee[p] = "none"

\* The payment as AtomicPayment sees it.  Its promise knows no "both".
Payment(p) ==
    IF payee[p] = "CONFIRMED"
    THEN IF bank[p] = "COMPENSATED" THEN "both" ELSE "delivered"
    ELSE IF bank[p] = "none" THEN "none"
    ELSE IF bank[p] = "COMPENSATED" THEN "returned"
    ELSE "taken"

Told(p) ==
    IF shown[p] = "CONFIRMED" THEN "delivered"
    ELSE IF shown[p] = "COMPENSATED" THEN "returned"
    ELSE "none"

Promise == INSTANCE AtomicPayment WITH
    payment <- [p \in Payments |-> Payment(p)],
    told <- [p \in Payments |-> Told(p)]

\* The services together implement payments that are delivered or returned,
\* once, and the client is told no ending that is not the true one.
PaymentSpec == Promise!Spec

\* The same but for payments both delivered and returned: all that a request
\* handled after STALE_AFTER_MS can do.
NeverLosingSpec == Promise!NeverLosingSpec

\* README.md:7, money moves "without ever losing or duplicating it": no payer
\* is refunded for money the payee's bank has credited.
NeverDuplicated ==
    \A p \in Payments : ~(payee[p] = "CONFIRMED" /\ bank[p] = "COMPENSATED")

\* No payment is left in doubt (reconciliation.service.ts:7-14): whatever
\* requests and outcomes are lost, it ends at Bank A, and a client that saw
\* its booking comes to see the end of it.
EveryPaymentEnds ==
    \A p \in Payments :
        bank[p] = "DEBITED" ~> /\ bank[p] \in {"CONFIRMED", "COMPENSATED"}
                               /\ shown[p] \in {bank[p], "lost"}
=============================================================================
