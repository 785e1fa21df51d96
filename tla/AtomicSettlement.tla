-------------------------- MODULE AtomicSettlement --------------------------
(***************************************************************************)
(* What the Hub promises of its settlements: a status, the reserves it     *)
(* moves and the event that tells a bank of it change together, in one     *)
(* step.  No deliveries, transactions, row locks or failures.              *)
(***************************************************************************)
EXTENDS Integers, Sequences

CONSTANT Settlements

VARIABLES
    status, \* the status of each settlement, or "none"
    legs,   \* how often the reserves of each were moved, and how often back
    outbox  \* what the banks are told of each, in order

vars == <<status, legs, outbox>>

Init ==
    /\ status = [s \in Settlements |-> "none"]
    /\ legs = [s \in Settlements |-> [moved |-> 0, back |-> 0]]
    /\ outbox = [s \in Settlements |-> <<>>]

Tell(s, e) == outbox' = [outbox EXCEPT ![s] = Append(@, e)]

\* Reserves of s go from the payer's bank to the payee's, or come back.
Move(s, there, back) ==
    legs' = [legs EXCEPT ![s] = [moved |-> @.moved + there, back |-> @.back + back]]

Record(s) ==
    /\ status[s] = "none"
    /\ status' = [status EXCEPT ![s] = "PENDING"]
    /\ Move(s, 1, 0)
    /\ Tell(s, "notify")

Refuse(s) ==
    /\ status[s] = "none"
    /\ status' = [status EXCEPT ![s] = "REJECTED"]
    /\ Tell(s, "REJECTED")
    /\ UNCHANGED legs

Settle(s, v) ==
    /\ status[s] = "PENDING"
    /\ status' = [status EXCEPT ![s] = v]
    /\ Move(s, 0, IF v = "REVERSED" THEN 1 ELSE 0)
    /\ Tell(s, v)

\* An ending is booked and told once more, the same ending.
Repeat(s) ==
    /\ status[s] \in {"CONFIRMED", "REVERSED"}
    /\ Move(s, 0, IF status[s] = "REVERSED" THEN 1 ELSE 0)
    /\ Tell(s, status[s])
    /\ UNCHANGED status

Next ==
    \E s \in Settlements :
        Record(s) \/ Refuse(s) \/ Settle(s, "CONFIRMED") \/ Settle(s, "REVERSED")

Spec == Init /\ [][Next]_vars

\* The promise without "once".
RepeatingSpec == Init /\ [][Next \/ \E s \in Settlements : Repeat(s)]_vars
=============================================================================
