---------------------------- MODULE AtomicLedger ----------------------------
(***************************************************************************)
(* What Bank A promises of its money-moving requests: each one is booked   *)
(* at a single instant or not at all.  No locks, transactions, statements  *)
(* or connections: a booking is one step, made when its key is unused and  *)
(* its payer can pay, and an answer never says what the books do not.      *)
(***************************************************************************)
EXTENDS Integers

CONSTANTS Handlers, Accounts, Opening, None

VARIABLES
    req,     \* the request behind each handler
    booked,  \* the bookings: who paid whom, how much, under which key, to where
    sent,    \* the settlements asked of the Hub, one per interbank booking
    balance, \* what the bookings leave on each account
    answer   \* what each client was told

vars == <<req, booked, sent, balance, answer>>

KeyOf(h) == IF req[h].kind = "seed" THEN h ELSE req[h].key

Booking(h) ==
    [id |-> h, key |-> KeyOf(h), payer |-> req[h].payer, payee |-> req[h].payee,
     amount |-> req[h].amount, to |-> req[h].to]

Same(b, h) == [b EXCEPT !.id = h] = Booking(h)

Told(h, s, t) == answer' = [answer EXCEPT ![h] = [status |-> s, transfer |-> t]]

Init ==
    /\ booked = {}
    /\ sent = {}
    /\ balance = Opening
    /\ answer = [h \in Handlers |-> [status |-> "none", transfer |-> None]]

\* A booking, all of it at once; the client hears of it now, later or never.
Book(h) ==
    /\ answer[h].status = "none"
    /\ \A b \in booked : b.key # KeyOf(h)
    /\ req[h].kind # "seed" => balance[req[h].payer] >= req[h].amount
    /\ booked' = booked \cup {Booking(h)}
    /\ sent' = IF req[h].kind = "interbank"
               THEN sent \cup {[settlement |-> h, to |-> req[h].to, amount |-> req[h].amount]}
               ELSE sent
    /\ balance' = [balance EXCEPT ![req[h].payer] = @ - req[h].amount,
                                  ![req[h].payee] = @ + req[h].amount]
    /\ answer' = answer \/ Told(h, "ok", h) \/ Told(h, "error", None)
    /\ UNCHANGED req

\* "ok" names the one booking under the request's key, and it is this very
\* request; "conflict" means it is another one; "insufficient" is true when
\* it is said; only "error" leaves the client in doubt.
Answer(h) ==
    /\ answer[h].status = "none"
    /\ \/ \E b \in booked : b.key = KeyOf(h) /\ Same(b, h) /\ Told(h, "ok", b.id)
       \/ \E b \in booked : b.key = KeyOf(h) /\ ~Same(b, h) /\ Told(h, "conflict", None)
       \/ /\ Booking(h) \notin booked
          /\ balance[req[h].payer] < req[h].amount
          /\ Told(h, "insufficient", None)
       \/ /\ Booking(h) \notin booked
          /\ \E s \in {"invalid", "notfound", "unreadable"} : Told(h, s, None)
       \/ req[h].kind = "seed" /\ Told(h, "unreadable", None)
       \/ Told(h, "error", None)
    /\ UNCHANGED <<req, booked, sent, balance>>

Next == \E h \in Handlers : Book(h) \/ Answer(h)

Spec == Init /\ [][Next]_vars
=============================================================================
