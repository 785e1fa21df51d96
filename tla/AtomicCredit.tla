---------------------------- MODULE AtomicCredit ----------------------------
(***************************************************************************)
(* What Bank B promises of a transfer from another bank: it is decided     *)
(* once, booked at the same instant, and every reply repeats the decision. *)
(* No deliveries, transactions, connections or crashes.                    *)
(***************************************************************************)
EXTENDS Integers

CONSTANTS Transfers, Accounts, Opened, PayeeOf

VARIABLES
    accounts, \* accounts that exist
    incoming, \* the decision on each transfer, or "none"
    credits,  \* how often each was booked
    replies   \* what Bank A was told

vars == <<accounts, incoming, credits, replies>>

Init ==
    /\ accounts = Opened
    /\ incoming = [t \in Transfers |-> "none"]
    /\ credits = [t \in Transfers |-> 0]
    /\ replies = {}

Open(a) ==
    /\ accounts' = accounts \cup {a}
    /\ UNCHANGED <<incoming, credits, replies>>

Credit(t) ==
    /\ incoming[t] = "none"
    /\ PayeeOf[t] \in accounts
    /\ incoming' = [incoming EXCEPT ![t] = "CREDITED"]
    /\ credits' = [credits EXCEPT ![t] = @ + 1]
    /\ UNCHANGED <<accounts, replies>>

\* A payee who was there from the start is never refused; one whose account is
\* opened meanwhile may be.
Refuse(t) ==
    /\ incoming[t] = "none"
    /\ PayeeOf[t] \notin Opened
    /\ incoming' = [incoming EXCEPT ![t] = "REJECTED"]
    /\ UNCHANGED <<accounts, credits, replies>>

Decision(t) == IF incoming[t] = "CREDITED" THEN "transfer.accepted" ELSE "transfer.rejected"

Reply(t) ==
    /\ incoming[t] # "none"
    /\ replies' = replies \cup {[transfer |-> t, event |-> Decision(t)]}
    /\ UNCHANGED <<accounts, incoming, credits>>

Next ==
    \/ \E a \in Accounts : Open(a)
    \/ \E t \in Transfers : Credit(t) \/ Refuse(t) \/ Reply(t)

Spec == Init /\ [][Next]_vars
=============================================================================
