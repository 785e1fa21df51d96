--------------------------- MODULE AtomicPayment ---------------------------
(***************************************************************************)
(* What the three services promise together of an interbank payment, as if *)
(* the two banks shared one database: the money taken from the payer is    *)
(* delivered to the payee or returned to the payer, never both, and the    *)
(* client is told of an ending only once it is true, and for good.         *)
(***************************************************************************)
CONSTANT Payments

VARIABLES
    payment, \* where the money of each payment is
    told     \* the ending the client was told of, or "none"

vars == <<payment, told>>

Init ==
    /\ payment = [p \in Payments |-> "none"]
    /\ told = [p \in Payments |-> "none"]

Take(p) ==
    /\ payment[p] = "none"
    /\ payment' = [payment EXCEPT ![p] = "taken"]
    /\ UNCHANGED told

End(p, e) ==
    /\ payment[p] = "taken"
    /\ payment' = [payment EXCEPT ![p] = e]
    /\ UNCHANGED told

Tell(p) ==
    /\ payment[p] \in {"delivered", "returned"}
    /\ told[p] = "none"
    /\ told' = [told EXCEPT ![p] = payment[p]]
    /\ UNCHANGED payment

Next ==
    \E p \in Payments : Take(p) \/ End(p, "delivered") \/ End(p, "returned") \/ Tell(p)

Spec == Init /\ [][Next]_vars

\* What a late request can do: a payment that was returned is delivered too, or
\* the other way round, and the client hears of the refund.
Duplicate(p) ==
    /\ payment[p] \in {"delivered", "returned"}
    /\ told[p] # "delivered"
    /\ payment' = [payment EXCEPT ![p] = "both"]
    /\ UNCHANGED told

TellRefund(p) ==
    /\ payment[p] = "both"
    /\ told[p] = "none"
    /\ told' = [told EXCEPT ![p] = "returned"]
    /\ UNCHANGED payment

\* The promise without "never both".
NeverLosingSpec == Init /\ [][Next \/ \E p \in Payments : Duplicate(p) \/ TellRefund(p)]_vars
=============================================================================
