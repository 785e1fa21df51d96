--------------------------- MODULE AtomicClosing ---------------------------
(***************************************************************************)
(* What Bank A promises of the interbank transfers it has debited: each is *)
(* closed once, in one step, as the Hub decided, and paid back in that     *)
(* step if it was not delivered, unless a client's transfer was booked     *)
(* under the key of the refund before.  No messages, sweeps, transactions  *)
(* or locks: only the Hub's row, the clock and the books.                  *)
(***************************************************************************)
EXTENDS Integers

CONSTANTS
    Transfers,
    LateRequests  \* those whose request may reach the Hub after the deadline

VARIABLES
    status,    \* DEBITED, CONFIRMED or COMPENSATED
    reversals, \* how often the payer was refunded
    clients,   \* those whose refund's key a client's transfer has
    hub,       \* the Hub's row: its status, or "none"
    stale      \* has the deadline passed

vars == <<status, reversals, clients, hub, stale>>

Init ==
    /\ status = [t \in Transfers |-> "DEBITED"]
    /\ reversals = [t \in Transfers |-> 0]
    /\ clients = {}
    /\ hub = [t \in Transfers |-> "none"]
    /\ stale = [t \in Transfers |-> FALSE]

HubMoves(t, from, to) ==
    /\ hub[t] = from
    /\ hub' = [hub EXCEPT ![t] = to]
    /\ UNCHANGED <<status, reversals, clients, stale>>

HubRecords(t) ==
    /\ stale[t] => t \in LateRequests
    /\ \E s \in {"PENDING", "REJECTED"} : HubMoves(t, "none", s)

HubSettles(t) == \E s \in {"CONFIRMED", "REVERSED"} : HubMoves(t, "PENDING", s)

Expire(t) ==
    /\ stale' = [stale EXCEPT ![t] = TRUE]
    /\ UNCHANGED <<status, reversals, clients, hub>>

Confirm(t) ==
    /\ status[t] = "DEBITED"
    /\ hub[t] = "CONFIRMED"
    /\ status' = [status EXCEPT ![t] = "CONFIRMED"]
    /\ UNCHANGED <<reversals, clients, hub, stale>>

\* The Hub moved nothing, or had heard of nothing when the deadline passed.  A
\* late request may have arrived since.
Refusable(t) ==
    \/ hub[t] \in {"REVERSED", "REJECTED"}
    \/ stale[t] /\ (hub[t] = "none" \/ t \in LateRequests)

\* A client's transfer takes a key that no refund has.
ClientTakesKey(t) ==
    /\ t \notin clients /\ reversals[t] = 0 /\ status[t] # "COMPENSATED"
    /\ clients' = clients \cup {t}
    /\ UNCHANGED <<status, reversals, hub, stale>>

\* The money goes back once, if the key is there for it.
Compensate(t) ==
    /\ status[t] = "DEBITED"
    /\ Refusable(t)
    /\ status' = [status EXCEPT ![t] = "COMPENSATED"]
    /\ \/ t \in clients /\ UNCHANGED reversals
       \/ t \notin clients /\ reversals[t] = 0 /\ reversals' = [reversals EXCEPT ![t] = 1]
    /\ UNCHANGED <<clients, hub, stale>>

\* Only a late request can be refunded beside a CONFIRMED status.
RefundBeside(t) ==
    /\ t \in LateRequests \ clients
    /\ status[t] = "CONFIRMED"
    /\ Refusable(t)
    /\ reversals[t] = 0 /\ reversals' = [reversals EXCEPT ![t] = 1]
    /\ UNCHANGED <<status, clients, hub, stale>>

Next ==
    \E t \in Transfers :
        \/ HubRecords(t) \/ HubSettles(t) \/ Expire(t) \/ ClientTakesKey(t)
        \/ Confirm(t) \/ Compensate(t) \/ RefundBeside(t)

Spec == Init /\ [][Next]_vars
=============================================================================
