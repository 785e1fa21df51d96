----------------------------- MODULE SagaProofs -----------------------------
(***************************************************************************)
(* For any number of payments, losses and repetitions: if requests are     *)
(* timely, the three ledgers agree and the services implement the atomic   *)
(* payment; if they are not, payments may be duplicated but never lost.    *)
(* The argument is that every message is evidence of something that stays  *)
(* true: what it says was so at the ledger that sent it, and no ledger     *)
(* takes back what it has said - but for a 404, which only timeliness      *)
(* makes final.                                                            *)
(***************************************************************************)
EXTENDS Saga, SequenceTheorems, TLAPS

\* What a message in an outbox or on its way proves.
Evidence(m) ==
    LET p == m.payment IN
    /\ m.kind = "requested" => bank[p] # "none"
    /\ m.kind = "notify" => hub[p] \notin {"none", "REJECTED"}
    /\ m.kind = "reply" => payee[p] = m.says
    /\ m.kind = "outcome" => IF m.says = "CONFIRMED" THEN hub[p] = "CONFIRMED"
                             ELSE hub[p] \in {"REVERSED", "REJECTED"}
    /\ m.kind = "answer" => stale[p] /\ (hub[p] = m.says \/ (~Timely /\ m.says = "none"))

\* In time, a stale transfer the Hub does not know of is one it never will.
NeverToArrive ==
    Timely => \A p \in Payments :
                  stale[p] /\ hub[p] = "none" => Requested(p) \notin outbox \cup wire

\* No institution is ahead of the one whose decision it rests on: BanksAgree,
\* but for a payer refunded for a request that came late.
Earned(p) ==
    /\ bank[p] = "CONFIRMED" => hub[p] = "CONFIRMED"
    /\ bank[p] = "COMPENSATED" => \/ hub[p] \in {"none", "REVERSED", "REJECTED"}
                                  \/ ~Timely /\ stale[p]
    /\ hub[p] = "CONFIRMED" => payee[p] = "CONFIRMED"
    /\ hub[p] = "REVERSED" => payee[p] = "REJECTED"
    /\ hub[p] \in {"none", "REJECTED"} => payee[p] = "none"

\* Each ledger rests on the one before it, and the client on Bank A's.
Justified(p) ==
    /\ stale[p] \/ hub[p] # "none" => bank[p] # "none"
    /\ bank[p] = "COMPENSATED" /\ hub[p] = "none" => stale[p]
    /\ shown[p] \in {"CONFIRMED", "COMPENSATED"} => shown[p] = bank[p]

SagaInv ==
    /\ TypeOK
    /\ \A p \in Payments : Earned(p)
    /\ \A m \in outbox \cup wire : Evidence(m)
    /\ NeverToArrive
    /\ \A p \in Payments : Justified(p)

----------------------------------------------------------------------------
\* What Receive may do to the wire and to the count of failures.
LEMMA ReceiveFacts ==
    ASSUME TypeOK, NEW m, NEW out, Receive(m, out)
    PROVE  /\ m \in wire
           /\ m \in Message
           /\ wire' \subseteq wire \cup out
           /\ failures' \in 0..MaxFailures
BY SagaAssumption DEF Receive, TypeOK

\* The messages the handlers send are messages.
LEMMA MessageTypes ==
    ASSUME NEW p \in Payments
    PROVE  /\ Requested(p) \in Message
           /\ Msg("notify", p, "none") \in Message
           /\ \A s \in {"CONFIRMED", "REJECTED"} : /\ Msg("reply", p, s) \in Message
                                                   /\ Msg("outcome", p, s) \in Message
           /\ \A s \in HubStatuses \ {"PENDING"} : Msg("answer", p, s) \in Message
BY DEF Requested, Msg, Message, HubStatuses

LEMMA InitSaga == Init => SagaInv
BY SagaAssumption DEF Init, SagaInv, TypeOK, Earned, NeverToArrive, Justified, HubStatuses

LEMMA BookSaga ==
    ASSUME SagaInv, NEW p \in Payments, Book(p)
    PROVE  SagaInv'
<1> USE DEF SagaInv
<1>1. TypeOK'
  BY MessageTypes DEF Book, TypeOK
<1>2. (\A q \in Payments : Earned(q)')
  BY DEF Book, TypeOK, Earned
<1>3. ASSUME NEW m \in (outbox \cup wire)'
      PROVE  Evidence(m)'
  <2>1. CASE m = Requested(p)
    BY <2>1 DEF Book, TypeOK, Evidence, Requested, Msg
  <2>2. CASE m \in outbox \cup wire
    BY <2>2 DEF Book, TypeOK, Evidence, Message
  <2> QED
    BY <1>3, <2>1, <2>2 DEF Book
<1>4. NeverToArrive'
  BY DEF Book, NeverToArrive, Justified, Requested, Msg
<1>5. ASSUME NEW q \in Payments
      PROVE  Justified(q)'
  BY DEF Book, TypeOK, Justified
<1> QED
  BY <1>1, <1>2, <1>3, <1>4, <1>5

\* Messages that are published, lost or dead-lettered prove what they proved.
LEMMA TransportSaga ==
    ASSUME SagaInv, NEW m, Relay(m) \/ Lose(m)
    PROVE  SagaInv'
<1> USE DEF SagaInv
<1>1. (outbox \cup wire)' \subseteq outbox \cup wire
  BY DEF Relay, Lose
<1>2. UNCHANGED <<bank, hub, payee, stale, shown>>
  BY DEF Relay, Lose
<1>3. TypeOK'
  BY SagaAssumption DEF Relay, Lose, TypeOK
<1>4. \A n \in (outbox \cup wire)' : Evidence(n)'
  BY <1>1, <1>2 DEF Evidence
<1>5. NeverToArrive'
  BY <1>1, <1>2 DEF NeverToArrive, Requested, Msg
<1> QED
  BY <1>2, <1>3, <1>4, <1>5 DEF Earned, Justified

\* The client's steps show the end of a payment only when it has ended.
LEMMA ClientSaga ==
    ASSUME SagaInv, NEW p \in Payments, Answered(p) \/ Poll(p)
    PROVE  SagaInv'
<1> USE DEF SagaInv
<1>1. UNCHANGED <<bank, hub, payee, outbox, wire, stale, failures>>
  BY DEF Answered, Poll
<1>2. TypeOK'
  BY DEF Answered, Poll, TypeOK, Justified
<1>3. \A q \in Payments : Justified(q)'
  BY DEF Answered, Poll, TypeOK, Justified
<1> QED
  BY <1>1, <1>2, <1>3 DEF Earned, Evidence, NeverToArrive, Requested, Msg

\* This is where timeliness is needed: what grows stale will not arrive.
LEMMA GrowStaleSaga ==
    ASSUME SagaInv, NEW p \in Payments, GrowStale(p)
    PROVE  SagaInv'
<1> USE DEF SagaInv
<1>1. TypeOK'
  BY DEF GrowStale, TypeOK
<1>2. \A m \in (outbox \cup wire)' : Evidence(m)'
  BY DEF GrowStale, TypeOK, Evidence, Message
<1>3. NeverToArrive'
  BY DEF GrowStale, TypeOK, NeverToArrive, Requested, Msg
<1>4. \A q \in Payments : Justified(q)'
  BY DEF GrowStale, TypeOK, Justified
<1> QED
  BY <1>1, <1>2, <1>3, <1>4 DEF GrowStale, Earned

LEMMA AskSaga ==
    ASSUME SagaInv, NEW p \in Payments, Ask(p)
    PROVE  SagaInv'
<1> USE DEF SagaInv
<1>1. hub[p] \in HubStatuses \ {"PENDING"}
  BY DEF Ask, TypeOK
<1>2. TypeOK'
  BY <1>1, MessageTypes DEF Ask, TypeOK
<1>3. ASSUME NEW m \in (outbox \cup wire)'
      PROVE  Evidence(m)'
  <2>1. CASE m = Msg("answer", p, hub[p])
    BY <2>1 DEF Ask, Evidence, Msg
  <2>2. CASE m \in outbox \cup wire
    BY <2>2 DEF Ask, Evidence
  <2> QED
    BY <1>3, <2>1, <2>2 DEF Ask
<1>4. NeverToArrive'
  BY DEF Ask, NeverToArrive, Requested, Msg
<1> QED
  BY <1>2, <1>3, <1>4 DEF Ask, Earned, Justified

\* The Hub hears of the settlement: in time, so Bank A has not given up on it.
LEMMA HubRequestedSaga ==
    ASSUME SagaInv, NEW m, HubRequested(m)
    PROVE  SagaInv'
<1> USE DEF SagaInv
<1> DEFINE p == m.payment
<1>1. m \in wire /\ m \in Message /\ wire' \subseteq wire /\ failures' \in 0..MaxFailures
  BY ReceiveFacts DEF HubRequested
<1>2. p \in Payments /\ m = Requested(p)
  BY <1>1 DEF HubRequested, Message, Requested, Msg
<1>3. CASE hub[p] # "none"
  <2>1. outbox' = outbox /\ hub' = hub
    BY <1>3 DEF HubRequested
  <2>2. UNCHANGED <<bank, payee, stale, shown>>
    BY DEF HubRequested
  <2>3. TypeOK'
    BY <1>1, <2>1, <2>2 DEF TypeOK
  <2>4. \A n \in (outbox \cup wire)' : Evidence(n)'
    BY <1>1, <2>1, <2>2 DEF Evidence
  <2>5. NeverToArrive'
    BY <1>1, <2>1, <2>2 DEF NeverToArrive, Requested, Msg
  <2> QED
    BY <2>1, <2>2, <2>3, <2>4, <2>5 DEF Earned, Justified
<1>4. CASE hub[p] = "none"
  <2>1. PICK s \in {"PENDING", "REJECTED"} : Decide(p, s)
    BY <1>4 DEF HubRequested
  <2>2. UNCHANGED <<bank, payee, stale, shown>>
    BY DEF HubRequested
  <2>3. hub' = [hub EXCEPT ![p] = s]
    BY <2>1 DEF Decide
  <2>4. outbox' = outbox \cup {IF s = "PENDING" THEN Msg("notify", p, "none")
                               ELSE Msg("outcome", p, "REJECTED")}
    BY <2>1 DEF Decide
  <2>5. /\ Timely => ~stale[p]
        /\ bank[p] = "DEBITED" \/ (~Timely /\ stale[p] /\ bank[p] = "COMPENSATED")
        /\ payee[p] = "none"
    <3>1. Timely => ~stale[p]
      BY <1>1, <1>2, <1>4 DEF NeverToArrive, TypeOK
    <3>2. bank[p] # "none"
      BY <1>1, <1>2 DEF Evidence, Requested, Msg
    <3>3. Earned(p) /\ Justified(p)
      BY <1>2
    <3> QED
      BY <1>2, <1>4, <3>1, <3>2, <3>3 DEF Earned, Justified, TypeOK
  <2>6. TypeOK'
    BY <1>1, <1>2, <2>2, <2>3, <2>4, MessageTypes DEF TypeOK, HubStatuses
  <2>7. (\A q \in Payments : Earned(q)')
    BY <1>2, <2>2, <2>3, <2>5 DEF Earned, TypeOK
  <2>8. ASSUME NEW n \in (outbox \cup wire)'
        PROVE  Evidence(n)'
    <3>1. CASE n \in outbox \cup wire
      BY <1>2, <1>4, <2>2, <2>3, <2>5, <3>1 DEF Evidence, TypeOK, Message
    <3>2. CASE n = IF s = "PENDING" THEN Msg("notify", p, "none")
                   ELSE Msg("outcome", p, "REJECTED")
      BY <1>2, <2>3, <3>2 DEF Evidence, TypeOK, Msg
    <3> QED
      BY <1>1, <2>4, <2>8, <3>1, <3>2
  <2>9. NeverToArrive'
    BY <1>1, <1>2, <2>2, <2>3, <2>4 DEF NeverToArrive, Requested, Msg, TypeOK
  <2>10. \A q \in Payments : Justified(q)'
    BY <1>2, <2>2, <2>3, <2>5 DEF Justified, TypeOK
  <2> QED
    BY <2>6, <2>7, <2>8, <2>9, <2>10
<1> QED
  BY <1>3, <1>4

\* The payee's bank decides once, and only on what the Hub holds PENDING.
LEMMA NotifyPayeeSaga ==
    ASSUME SagaInv, NEW m, NotifyPayee(m)
    PROVE  SagaInv'
<1> USE DEF SagaInv
<1> DEFINE p == m.payment
           reply == Msg("reply", p, payee'[p])
<1>1. /\ m \in wire /\ m \in Message /\ failures' \in 0..MaxFailures
      /\ wire' \subseteq wire \cup {reply}
  BY ReceiveFacts DEF NotifyPayee
<1>2. p \in Payments
  BY <1>1 DEF Message
<1>3. UNCHANGED <<bank, hub, outbox, stale, shown>>
  BY DEF NotifyPayee
<1>4. hub[p] \in {"PENDING", "CONFIRMED", "REVERSED"}
  BY <1>1, <1>2 DEF NotifyPayee, Evidence, TypeOK, HubStatuses
<1>5. /\ payee' \in [Payments -> {"none", "CONFIRMED", "REJECTED"}]
      /\ payee'[p] \in {"CONFIRMED", "REJECTED"}
      /\ \A q \in Payments : payee[q] # "none" => payee'[q] = payee[q]
      /\ \A q \in Payments \ {p} : payee'[q] = payee[q]
  BY <1>2 DEF NotifyPayee, TypeOK
<1>6. TypeOK'
  BY <1>1, <1>2, <1>3, <1>5, MessageTypes DEF TypeOK
<1>7. (\A q \in Payments : Earned(q)')
  BY <1>2, <1>3, <1>4, <1>5 DEF Earned
<1>8. ASSUME NEW n \in (outbox \cup wire)'
      PROVE  Evidence(n)'
  <2>1. CASE n \in outbox \cup wire
    <3>1. n \in Message /\ Evidence(n)
      BY <2>1 DEF TypeOK
    <3>2. n.kind = "reply" => payee[n.payment] # "none"
      BY <3>1 DEF Evidence, Message
    <3>3. n.payment \in Payments
      BY <3>1 DEF Message
    <3> QED
      BY <1>3, <1>5, <3>1, <3>2, <3>3 DEF Evidence
  <2>2. CASE n = reply
    BY <2>2 DEF Evidence, Msg
  <2> QED
    BY <1>1, <1>3, <1>8, <2>1, <2>2
<1>9. NeverToArrive'
  BY <1>1, <1>3 DEF NeverToArrive, Requested, Msg
<1> QED
  BY <1>3, <1>6, <1>7, <1>8, <1>9 DEF Justified

\* A PENDING settlement is settled as the payee's bank says it decided.
LEMMA HubReplySaga ==
    ASSUME SagaInv, NEW m, HubReply(m)
    PROVE  SagaInv'
<1> USE DEF SagaInv
<1> DEFINE p == m.payment
           s == IF m.says = "CONFIRMED" THEN "CONFIRMED" ELSE "REVERSED"
           outcome == Msg("outcome", p, IF s = "CONFIRMED" THEN s ELSE "REJECTED")
<1>1. m \in wire /\ m \in Message /\ wire' \subseteq wire /\ failures' \in 0..MaxFailures
  BY ReceiveFacts DEF HubReply
<1>2. p \in Payments /\ m.says \in {"CONFIRMED", "REJECTED"} /\ payee[p] = m.says
  BY <1>1 DEF HubReply, Message, Evidence
<1>3. UNCHANGED <<bank, payee, stale, shown>>
  BY DEF HubReply
<1>4. CASE hub[p] # "PENDING"
  <2>1. UNCHANGED <<hub, outbox>>
    BY <1>4 DEF HubReply
  <2>2. TypeOK'
    BY <1>1, <1>3, <2>1 DEF TypeOK
  <2>3. \A n \in (outbox \cup wire)' : Evidence(n)'
    BY <1>1, <1>3, <2>1 DEF Evidence
  <2>4. NeverToArrive'
    BY <1>1, <1>3, <2>1 DEF NeverToArrive, Requested, Msg
  <2> QED
    BY <1>3, <2>1, <2>2, <2>3, <2>4 DEF Earned, Justified
<1>5. CASE hub[p] = "PENDING"
  <2>1. hub' = [hub EXCEPT ![p] = s] /\ outbox' = outbox \cup {outcome}
    BY <1>5 DEF HubReply, Decide
  <2>2. TypeOK'
    BY <1>1, <1>2, <1>3, <2>1, MessageTypes DEF TypeOK, HubStatuses
  <2>3. (\A q \in Payments : Earned(q)')
    BY <1>2, <1>3, <1>5, <2>1 DEF Earned, TypeOK
  <2>4. ASSUME NEW n \in (outbox \cup wire)'
        PROVE  Evidence(n)'
    <3>1. CASE n \in outbox \cup wire
      <4>1. n \in Message /\ Evidence(n)
        BY <3>1 DEF TypeOK
      <4> QED
        BY <1>2, <1>3, <1>5, <2>1, <4>1 DEF Evidence, TypeOK, Message
    <3>2. CASE n = outcome
      BY <1>2, <2>1, <3>2 DEF Evidence, TypeOK, Msg
    <3> QED
      BY <1>1, <2>1, <2>4, <3>1, <3>2
  <2>5. NeverToArrive'
    BY <1>1, <1>2, <1>3, <1>5, <2>1 DEF NeverToArrive, Requested, Msg, TypeOK
  <2>6. \A q \in Payments : Justified(q)'
    BY <1>2, <1>3, <1>5, <2>1 DEF Justified, TypeOK
  <2> QED
    BY <2>2, <2>3, <2>4, <2>5, <2>6
<1> QED
  BY <1>4, <1>5

\* Bank A settles on the evidence of an outcome or of an answer.
LEMMA SettleSaga ==
    ASSUME SagaInv, NEW m, Settle(m)
    PROVE  SagaInv'
<1> USE DEF SagaInv
<1> DEFINE p == m.payment
<1>1. m \in wire /\ m \in Message /\ wire' \subseteq wire /\ failures' \in 0..MaxFailures
  BY ReceiveFacts DEF Settle
<1>2. p \in Payments /\ Evidence(m)
  BY <1>1 DEF Message
<1>3. UNCHANGED <<hub, payee, outbox, stale, shown>>
  BY DEF Settle
<1>4. bank' = [bank EXCEPT ![p] = IF @ # "DEBITED" THEN @
                                  ELSE IF m.says = "CONFIRMED" THEN "CONFIRMED"
                                  ELSE "COMPENSATED"]
  BY DEF Settle
<1>5. m.says = "CONFIRMED" => hub[p] = "CONFIRMED"
  BY <1>2 DEF Settle, Evidence
<1>6. m.says # "CONFIRMED" => \/ hub[p] \in {"REVERSED", "REJECTED"}
                              \/ (stale[p] /\ (hub[p] = "none" \/ ~Timely))
  BY <1>1, <1>2 DEF Settle, Evidence, Message, HubStatuses
<1>7. TypeOK'
  BY <1>1, <1>3, <1>4 DEF TypeOK
<1>8. (\A q \in Payments : Earned(q)')
  BY <1>2, <1>3, <1>4, <1>5, <1>6 DEF Earned, TypeOK
<1>9. ASSUME NEW n \in (outbox \cup wire)'
      PROVE  Evidence(n)'
  <2>1. n \in Message /\ Evidence(n)
    BY <1>1, <1>3, <1>9 DEF TypeOK
  <2> QED
    BY <1>2, <1>3, <1>4, <2>1 DEF Evidence, TypeOK, Message
<1>10. NeverToArrive'
  BY <1>1, <1>3 DEF NeverToArrive, Requested, Msg
<1>11. \A q \in Payments : Justified(q)'
  BY <1>2, <1>3, <1>4, <1>6 DEF Justified, TypeOK
<1> QED
  BY <1>7, <1>8, <1>9, <1>10, <1>11

LEMMA StepSaga == SagaInv /\ [Next]_vars => SagaInv'
<1> SUFFICES ASSUME SagaInv, [Next]_vars PROVE SagaInv'
  OBVIOUS
<1>1. ASSUME NEW p \in Payments, Book(p) PROVE SagaInv'
  BY <1>1, BookSaga
<1>2. ASSUME NEW p \in Payments, Answered(p) \/ Poll(p) PROVE SagaInv'
  BY <1>2, ClientSaga
<1>3. ASSUME NEW p \in Payments, GrowStale(p) PROVE SagaInv'
  BY <1>3, GrowStaleSaga
<1>4. ASSUME NEW p \in Payments, Ask(p) PROVE SagaInv'
  BY <1>4, AskSaga
<1>5. ASSUME NEW m \in Message, Relay(m) \/ Lose(m) PROVE SagaInv'
  BY <1>5, TransportSaga
<1>6. ASSUME NEW m \in Message, Handle(m) PROVE SagaInv'
  BY <1>6, HubRequestedSaga, NotifyPayeeSaga, HubReplySaga, SettleSaga DEF Handle
<1>7. CASE UNCHANGED vars
  BY <1>7 DEF vars, SagaInv, TypeOK, Earned, Evidence, NeverToArrive, Justified,
              Requested, Msg
<1> QED
  BY <1>1, <1>2, <1>3, <1>4, <1>5, <1>6, <1>7 DEF Next

\* The three ledgers agree (BanksAgree), whatever is lost, repeated or
\* reordered on the exchange, if no request outlives STALE_AFTER_MS.
THEOREM BanksAlwaysAgree ==
    ASSUME Timely
    PROVE  Spec => []BanksAgree
<1>1. Init => SagaInv
  BY InitSaga
<1>2. SagaInv /\ [Next]_vars => SagaInv'
  BY StepSaga
<1>3. SagaInv => BanksAgree
  BY DEF SagaInv, Earned, BanksAgree
<1> QED
  BY <1>1, <1>2, <1>3, PTL DEF Spec

----------------------------------------------------------------------------
\* The refinement: what each step of the services is to the atomic payment.
LEMMA InitPromise == Init => Promise!Init
BY DEF Init, Promise!Init, Payment, Told

LEMMA HiddenStep ==
    ASSUME UNCHANGED <<bank, payee, shown>>
    PROVE  UNCHANGED Promise!vars
BY DEF Promise!vars, Payment, Told

LEMMA BookIsTake ==
    ASSUME SagaInv, NEW p \in Payments, Book(p)
    PROVE  Promise!Next
<1> USE DEF SagaInv
<1>1. payee[p] = "none"
  BY DEF Book, Justified, Earned
<1>2. Payment(p) = "none" /\ Payment(p)' = "taken"
  BY <1>1 DEF Book, Payment, TypeOK
<1>3. \A q \in Payments \ {p} : Payment(q)' = Payment(q)
  BY DEF Book, Payment, TypeOK
<1>4. \A q \in Payments : Told(q)' = Told(q)
  BY DEF Book, Told
<1> QED
  BY <1>2, <1>3, <1>4 DEF Promise!Next, Promise!Take

\* The payee's bank credits what is still DEBITED at Bank A, or what Bank A has
\* refunded because the request was late.
LEMMA NotifyPayeeDelivers ==
    ASSUME SagaInv, NEW m, NotifyPayee(m)
    PROVE  [Promise!Next]_(Promise!vars) \/ (~Timely /\ \E p \in Payments : Promise!Duplicate(p))
<1> USE DEF SagaInv
<1> DEFINE p == m.payment
<1>1. m \in wire /\ p \in Payments
  BY ReceiveFacts DEF NotifyPayee, Message
<1>2. UNCHANGED <<bank, shown>>
  BY DEF NotifyPayee
<1>3. CASE payee[p] # "none"
  BY <1>2, <1>3, HiddenStep DEF NotifyPayee
<1>4. CASE payee[p] = "none"
  <2>1. PICK d \in {"CONFIRMED", "REJECTED"} : payee' = [payee EXCEPT ![p] = d]
    BY <1>4 DEF NotifyPayee
  <2>2. hub[p] \in {"PENDING", "CONFIRMED", "REVERSED"}
    BY <1>1 DEF NotifyPayee, Evidence, TypeOK, HubStatuses
  <2>3. bank[p] = "DEBITED" \/ (bank[p] = "COMPENSATED" /\ ~Timely)
    <3>1. Earned(p) /\ Justified(p)
      BY <1>1
    <3> QED
      BY <1>1, <1>4, <2>2, <3>1 DEF Earned, Justified, TypeOK
  <2>4. \A q \in Payments \ {p} : Payment(q)' = Payment(q)
    BY <1>1, <1>2, <2>1 DEF Payment, TypeOK
  <2>5. \A q \in Payments : Told(q)' = Told(q)
    BY <1>2 DEF Told
  <2>6. payee'[p] = d
    BY <1>1, <2>1 DEF TypeOK
  <2>7. CASE d = "REJECTED"
    <3>1. Payment(p)' = Payment(p)
      BY <1>2, <1>4, <2>6, <2>7 DEF Payment
    <3> QED
      BY <2>4, <2>5, <3>1 DEF Promise!vars
  <2>8. CASE d = "CONFIRMED" /\ bank[p] = "DEBITED"
    <3>1. Payment(p) = "taken" /\ Payment(p)' = "delivered"
      BY <1>2, <1>4, <2>6, <2>8 DEF Payment
    <3> QED
      BY <1>1, <2>4, <2>5, <3>1 DEF Promise!Next, Promise!End
  <2>9. CASE d = "CONFIRMED" /\ bank[p] = "COMPENSATED" /\ ~Timely
    <3>1. Payment(p) = "returned" /\ Payment(p)' = "both"
      BY <1>2, <1>4, <2>6, <2>9 DEF Payment
    <3>2. Told(p) # "delivered"
      BY <1>1, <2>9 DEF Told, Justified
    <3> QED
      BY <1>1, <2>4, <2>5, <2>9, <3>1, <3>2 DEF Promise!Duplicate
  <2> QED
    BY <2>1, <2>3, <2>7, <2>8, <2>9
<1> QED
  BY <1>3, <1>4

\* A refund returns what was not delivered, unless it rests on a 404 and the
\* request came late; a confirmation changes nothing.
LEMMA SettleReturns ==
    ASSUME SagaInv, NEW m, Settle(m)
    PROVE  [Promise!Next]_(Promise!vars) \/ (~Timely /\ \E p \in Payments : Promise!Duplicate(p))
<1> USE DEF SagaInv
<1> DEFINE p == m.payment
<1>1. m \in wire /\ m \in Message /\ p \in Payments
  BY ReceiveFacts DEF Settle, Message
<1>2. UNCHANGED <<payee, shown>>
  BY DEF Settle
<1>3. CASE bank[p] # "DEBITED"
  <2>1. bank' = bank
    BY <1>1, <1>3 DEF Settle, TypeOK
  <2> QED
    BY <1>2, <2>1, HiddenStep
<1>4. CASE bank[p] = "DEBITED"
  <2>1. bank' = [bank EXCEPT ![p] = IF m.says = "CONFIRMED" THEN "CONFIRMED" ELSE "COMPENSATED"]
    BY <1>1, <1>4 DEF Settle, TypeOK
  <2>2. \A q \in Payments \ {p} : Payment(q)' = Payment(q)
    BY <1>1, <1>2, <2>1 DEF Payment, TypeOK
  <2>3. \A q \in Payments : Told(q)' = Told(q)
    BY <1>2 DEF Told
  <2>4. CASE m.says = "CONFIRMED"
    <3>1. payee[p] = "CONFIRMED"
      BY <1>1, <2>4 DEF Settle, Evidence, Earned
    <3>2. Payment(p)' = Payment(p)
      BY <1>1, <1>2, <1>4, <2>1, <2>4, <3>1 DEF Payment, TypeOK
    <3> QED
      BY <2>2, <2>3, <3>2 DEF Promise!vars
  <2>5. CASE m.says # "CONFIRMED"
    <3>1. bank'[p] = "COMPENSATED"
      BY <1>1, <2>1, <2>5 DEF TypeOK
    <3>2. hub[p] \in {"none", "REVERSED", "REJECTED"} \/ ~Timely
      BY <1>1, <2>5 DEF Settle, Evidence, Message, HubStatuses
    <3>3. CASE payee[p] # "CONFIRMED"
      <4>1. Payment(p) = "taken" /\ Payment(p)' = "returned"
        BY <1>2, <1>4, <3>1, <3>3 DEF Payment
      <4> QED
        BY <1>1, <2>2, <2>3, <4>1 DEF Promise!Next, Promise!End
    <3>4. CASE payee[p] = "CONFIRMED"
      <4>1. ~Timely
        BY <1>1, <3>2, <3>4 DEF Earned
      <4>2. Payment(p) = "delivered" /\ Payment(p)' = "both"
        BY <1>2, <1>4, <3>1, <3>4 DEF Payment
      <4>3. Told(p) # "delivered"
        BY <1>1, <1>4 DEF Told, Justified
      <4> QED
        BY <1>1, <2>2, <2>3, <4>1, <4>2, <4>3 DEF Promise!Duplicate
    <3> QED
      BY <3>3, <3>4
  <2> QED
    BY <2>4, <2>5
<1> QED
  BY <1>3, <1>4

\* The client shows an ending that has happened.
LEMMA PollTells ==
    ASSUME SagaInv, NEW p \in Payments, Poll(p)
    PROVE  [Promise!Next]_(Promise!vars) \/ (~Timely /\ \E q \in Payments : Promise!TellRefund(q))
<1> USE DEF SagaInv
<1>1. UNCHANGED <<bank, payee>> /\ shown' = [shown EXCEPT ![p] = bank[p]]
  BY DEF Poll
<1>2. \A q \in Payments : Payment(q)' = Payment(q)
  BY <1>1 DEF Payment
<1>3. \A q \in Payments \ {p} : Told(q)' = Told(q)
  BY <1>1 DEF Told, TypeOK
<1>4. Told(p) = "none"
  BY DEF Poll, Told
<1>5. Earned(p) /\ shown'[p] = bank[p]
  BY <1>1 DEF TypeOK
<1>6. CASE bank[p] \in {"CONFIRMED", "COMPENSATED"} /\ Payment(p) # "both"
  <2>1. Told(p)' = Payment(p) /\ Payment(p) \in {"delivered", "returned"}
    BY <1>1, <1>5, <1>6 DEF Earned, Told, Payment, TypeOK
  <2> QED
    BY <1>2, <1>3, <1>4, <2>1 DEF Promise!Next, Promise!Tell
<1>7. CASE Payment(p) = "both"
  <2>1. bank[p] = "COMPENSATED" /\ payee[p] = "CONFIRMED"
    BY <1>7 DEF Payment
  <2>2. ~Timely
    BY <1>5, <2>1 DEF Earned
  <2>3. Told(p)' = "returned"
    BY <1>1, <1>5, <2>1 DEF Told
  <2> QED
    BY <1>2, <1>3, <1>4, <1>7, <2>2, <2>3 DEF Promise!TellRefund
<1>8. CASE bank[p] = "none"
  <2>1. Told(p)' = "none"
    BY <1>1, <1>8 DEF Told, TypeOK
  <2> QED
    BY <1>2, <1>3, <1>4, <2>1 DEF Promise!vars
<1> QED
  BY <1>6, <1>7, <1>8 DEF Poll, TypeOK

LEMMA AnsweredIsHidden ==
    ASSUME SagaInv, NEW p \in Payments, Answered(p)
    PROVE  UNCHANGED Promise!vars
BY DEF SagaInv, TypeOK, Answered, Promise!vars, Payment, Told

\* The steps only a late request makes possible.
Duplicates == \E p \in Payments : Promise!Duplicate(p) \/ Promise!TellRefund(p)

LEMMA StepPromise ==
    SagaInv /\ [Next]_vars => [Promise!Next]_(Promise!vars) \/ (~Timely /\ Duplicates)
<1> SUFFICES ASSUME SagaInv, [Next]_vars
             PROVE  [Promise!Next]_(Promise!vars) \/ (~Timely /\ Duplicates)
  OBVIOUS
<1>1. ASSUME NEW p \in Payments, Book(p) PROVE Promise!Next
  BY <1>1, BookIsTake
<1>2. ASSUME NEW p \in Payments, Answered(p) PROVE UNCHANGED Promise!vars
  BY <1>2, AnsweredIsHidden
<1>3. ASSUME NEW p \in Payments, GrowStale(p) \/ Ask(p) PROVE UNCHANGED Promise!vars
  BY <1>3, HiddenStep DEF GrowStale, Ask
<1>4. ASSUME NEW p \in Payments, Poll(p)
      PROVE  [Promise!Next]_(Promise!vars) \/ (~Timely /\ Duplicates)
  BY <1>4, PollTells DEF Duplicates
<1>5. ASSUME NEW m, Relay(m) \/ Lose(m) \/ HubRequested(m) \/ HubReply(m)
      PROVE  UNCHANGED Promise!vars
  BY <1>5, HiddenStep DEF Relay, Lose, HubRequested, HubReply
<1>6. ASSUME NEW m, NotifyPayee(m) \/ Settle(m)
      PROVE  [Promise!Next]_(Promise!vars) \/ (~Timely /\ Duplicates)
  BY <1>6, NotifyPayeeDelivers, SettleReturns DEF Duplicates
<1>7. CASE UNCHANGED vars
  BY <1>7, HiddenStep DEF vars
<1> QED
  BY <1>1, <1>2, <1>3, <1>4, <1>5, <1>6, <1>7 DEF Next, Handle

LEMMA SagaInvariant == Spec => []SagaInv
BY InitSaga, StepSaga, PTL DEF Spec

\* The services together implement AtomicPayment (PaymentSpec): the money is
\* delivered or returned, once, and the client is told only the truth.
THEOREM PromiseKept ==
    ASSUME Timely
    PROVE  Spec => PaymentSpec
<1>1. Init => Promise!Init
  BY InitPromise
<1>2. SagaInv /\ [Next]_vars => [Promise!Next]_(Promise!vars)
  BY StepPromise
<1> QED
  BY <1>1, <1>2, SagaInvariant, PTL DEF Spec, PaymentSpec, Promise!Spec

\* Requests handled however late can make a payment arrive and come back both;
\* nothing makes it do neither, happen twice, or be told untruly (README.md:7).
THEOREM LateRequestsOnlyDuplicate == Spec => NeverLosingSpec
<1>1. Init => Promise!Init
  BY InitPromise
<1>2. SagaInv /\ [Next]_vars => [Promise!Next \/ Duplicates]_(Promise!vars)
  BY StepPromise
<1> QED
  BY <1>1, <1>2, SagaInvariant, PTL
  DEF Spec, NeverLosingSpec, Promise!NeverLosingSpec, Duplicates

\* A payment that Bank A closed as CONFIRMED was credited by the payee's bank, and
\* the Hub's books agree with that bank's, whatever was lost, late or repeated.
THEOREM NoPaymentLost ==
    Spec => [](\A p \in Payments :
                  /\ bank[p] = "CONFIRMED" => hub[p] = "CONFIRMED" /\ payee[p] = "CONFIRMED"
                  /\ hub[p] = "CONFIRMED" => payee[p] = "CONFIRMED"
                  /\ hub[p] = "REVERSED" => payee[p] = "REJECTED"
                  /\ shown[p] \in {"CONFIRMED", "COMPENSATED"} => shown[p] = bank[p])
<1> DEFINE Kept ==
      \A p \in Payments :
          /\ bank[p] = "CONFIRMED" => hub[p] = "CONFIRMED" /\ payee[p] = "CONFIRMED"
          /\ hub[p] = "CONFIRMED" => payee[p] = "CONFIRMED"
          /\ hub[p] = "REVERSED" => payee[p] = "REJECTED"
          /\ shown[p] \in {"CONFIRMED", "COMPENSATED"} => shown[p] = bank[p]
<1>1. SagaInv => Kept
  BY DEF SagaInv, Earned, Justified
<1> QED
  BY <1>1, SagaInvariant, PTL

\* The databases, outboxes and messages of the services keep their types
\* (TypeOK), timely or not.
THEOREM TypeCorrect == Spec => []TypeOK
<1>1. SagaInv => TypeOK
  BY DEF SagaInv
<1> QED
  BY <1>1, SagaInvariant, PTL

----------------------------------------------------------------------------
(***************************************************************************)
(* What InterbankReply takes for granted of the Hub and the clock - that   *)
(* no request arrives late unless it is one of LateRequests, that a row of *)
(* the Hub only moves on - holds of the services and messages here: they   *)
(* too implement AtomicClosing, which InterbankReply is proved to.  (No    *)
(* client of this module takes the key of a refund.)                       *)
(***************************************************************************)
Closed(p) == IF bank[p] = "none" THEN "DEBITED" ELSE bank[p]
Returns(p) == IF bank[p] = "COMPENSATED" THEN 1 ELSE 0

Closing == INSTANCE AtomicClosing WITH
    Transfers <- Payments,
    LateRequests <- IF Timely THEN {} ELSE Payments,
    status <- [p \in Payments |-> Closed(p)],
    reversals <- [p \in Payments |-> Returns(p)],
    clients <- {}

ClosingSpec == Closing!Spec

LEMMA InitClosing == Init => Closing!Init
BY DEF Init, Closing!Init, Closed, Returns

LEMMA SameBooks ==
    ASSUME UNCHANGED <<bank, hub, stale>>
    PROVE  UNCHANGED Closing!vars
BY DEF Closing!vars, Closed, Returns

LEMMA BookedIsDebited ==
    ASSUME SagaInv, NEW p \in Payments, Book(p)
    PROVE  UNCHANGED Closing!vars
<1>1. \A q \in Payments : Closed(q)' = Closed(q) /\ Returns(q)' = Returns(q)
  BY DEF SagaInv, TypeOK, Book, Closed, Returns
<1> QED
  BY <1>1 DEF Book, Closing!vars

\* A request that the Hub handles is not late, if it must not be.
LEMMA RequestIsRecorded ==
    ASSUME SagaInv, NEW m, HubRequested(m)
    PROVE  [Closing!Next]_(Closing!vars)
<1> USE DEF SagaInv
<1> DEFINE p == m.payment
<1>1. m \in wire /\ m \in Message
  BY ReceiveFacts DEF HubRequested
<1>2. p \in Payments /\ m = Requested(p)
  BY <1>1 DEF HubRequested, Message, Requested, Msg
<1>3. UNCHANGED <<bank, stale>>
  BY DEF HubRequested
<1>4. CASE hub[p] # "none"
  BY <1>3, <1>4, SameBooks DEF HubRequested
<1>5. CASE hub[p] = "none"
  <2>1. PICK s \in {"PENDING", "REJECTED"} : hub' = [hub EXCEPT ![p] = s]
    BY <1>5 DEF HubRequested, Decide
  <2>2. stale[p] => p \in (IF Timely THEN {} ELSE Payments)
    BY <1>1, <1>2, <1>5 DEF NeverToArrive
  <2>3. Closing!HubMoves(p, "none", s)
    BY <1>3, <1>5, <2>1 DEF Closing!HubMoves, Closed, Returns
  <2> QED
    BY <1>2, <2>2, <2>3 DEF Closing!Next, Closing!HubRecords
<1> QED
  BY <1>4, <1>5

LEMMA ReplySettles ==
    ASSUME SagaInv, NEW m, HubReply(m)
    PROVE  [Closing!Next]_(Closing!vars)
<1> USE DEF SagaInv
<1> DEFINE p == m.payment
<1>1. p \in Payments
  BY ReceiveFacts DEF HubReply, Message
<1>2. UNCHANGED <<bank, stale>>
  BY DEF HubReply
<1>3. CASE hub[p] # "PENDING"
  BY <1>2, <1>3, SameBooks DEF HubReply
<1>4. CASE hub[p] = "PENDING"
  <2>1. PICK s \in {"CONFIRMED", "REVERSED"} : hub' = [hub EXCEPT ![p] = s]
    BY <1>4 DEF HubReply, Decide
  <2>2. Closing!HubMoves(p, "PENDING", s)
    BY <1>2, <1>4, <2>1 DEF Closing!HubMoves, Closed, Returns
  <2> QED
    BY <1>1, <2>2 DEF Closing!Next, Closing!HubSettles
<1> QED
  BY <1>3, <1>4

LEMMA StaleIsExpired ==
    ASSUME NEW p \in Payments, GrowStale(p)
    PROVE  Closing!Next
<1>1. Closing!Expire(p)
  BY DEF GrowStale, Closing!Expire, Closed, Returns
<1> QED
  BY <1>1 DEF Closing!Next

LEMMA SettleCloses ==
    ASSUME SagaInv, NEW m, Settle(m)
    PROVE  [Closing!Next]_(Closing!vars)
<1> USE DEF SagaInv
<1> DEFINE p == m.payment
<1>1. m \in wire /\ m \in Message /\ p \in Payments
  BY ReceiveFacts DEF Settle, Message
<1>2. UNCHANGED <<hub, stale>>
  BY DEF Settle
<1>3. CASE bank[p] # "DEBITED"
  <2>1. bank' = bank
    BY <1>1, <1>3 DEF Settle, TypeOK
  <2> QED
    BY <1>2, <2>1, SameBooks
<1>4. CASE bank[p] = "DEBITED"
  <2>1. bank' = [bank EXCEPT ![p] = IF m.says = "CONFIRMED" THEN "CONFIRMED" ELSE "COMPENSATED"]
    BY <1>1, <1>4 DEF Settle, TypeOK
  <2>2. \A q \in Payments \ {p} : Closed(q)' = Closed(q) /\ Returns(q)' = Returns(q)
    BY <1>1, <2>1 DEF Closed, Returns, TypeOK
  <2>3. Closed(p) = "DEBITED" /\ Returns(p) = 0
    BY <1>4 DEF Closed, Returns
  <2>4. CASE m.says = "CONFIRMED"
    <3>1. hub[p] = "CONFIRMED"
      BY <1>1, <2>4 DEF Settle, Evidence
    <3>2. bank'[p] = "CONFIRMED"
      BY <1>1, <2>1, <2>4 DEF TypeOK
    <3>3. Closed(p)' = "CONFIRMED" /\ Returns(p)' = 0
      BY <3>2 DEF Closed, Returns
    <3>4. Closing!Confirm(p)
      BY <1>1, <1>2, <2>2, <2>3, <3>1, <3>3 DEF Closing!Confirm
    <3> QED
      BY <1>1, <3>4 DEF Closing!Next
  <2>5. CASE m.says # "CONFIRMED"
    <3>1. \/ hub[p] \in {"REVERSED", "REJECTED"}
          \/ stale[p] /\ (hub[p] = "none" \/ ~Timely)
      BY <1>1, <2>5 DEF Settle, Evidence, Message, HubStatuses
    <3>2. Closing!Refusable(p)
      BY <1>1, <3>1 DEF Closing!Refusable
    <3>3. bank'[p] = "COMPENSATED"
      BY <1>1, <2>1, <2>5 DEF TypeOK
    <3>4. Closed(p)' = "COMPENSATED" /\ Returns(p)' = 1
      BY <3>3 DEF Closed, Returns
    <3>5. Closing!Compensate(p)
      BY <1>1, <1>2, <2>2, <2>3, <3>2, <3>4 DEF Closing!Compensate
    <3> QED
      BY <1>1, <3>5 DEF Closing!Next
  <2> QED
    BY <2>4, <2>5
<1> QED
  BY <1>3, <1>4

\* What a single bank is promised of the Hub, and promises: the payments of all
\* services together take the steps of AtomicClosing and no other.
THEOREM ServicesCloseAsPromised == Spec => ClosingSpec
<1>1. Init => Closing!Init
  BY InitClosing
<1>2. SagaInv /\ [Next]_vars => [Closing!Next]_(Closing!vars)
  <2> SUFFICES ASSUME SagaInv, [Next]_vars PROVE [Closing!Next]_(Closing!vars)
    OBVIOUS
  <2>1. ASSUME NEW p \in Payments, Answered(p) \/ Ask(p) \/ Poll(p)
        PROVE  UNCHANGED Closing!vars
    BY <2>1, SameBooks DEF Answered, Ask, Poll
  <2>2. ASSUME NEW m, Relay(m) \/ Lose(m) \/ NotifyPayee(m)
        PROVE  UNCHANGED Closing!vars
    BY <2>2, SameBooks DEF Relay, Lose, NotifyPayee
  <2>3. CASE UNCHANGED vars
    BY <2>3, SameBooks DEF vars
  <2>4. ASSUME NEW p \in Payments, Book(p)
        PROVE  UNCHANGED Closing!vars
    BY <2>4, BookedIsDebited
  <2>5. ASSUME NEW p \in Payments, GrowStale(p)
        PROVE  Closing!Next
    BY <2>5, StaleIsExpired
  <2>6. ASSUME NEW m, HubRequested(m) \/ HubReply(m) \/ Settle(m)
        PROVE  [Closing!Next]_(Closing!vars)
    BY <2>6, RequestIsRecorded, ReplySettles, SettleCloses
  <2> QED
    BY <2>1, <2>2, <2>3, <2>4, <2>5, <2>6 DEF Next, Handle
<1> QED
  BY <1>1, <1>2, SagaInvariant, PTL DEF Spec, ClosingSpec, Closing!Spec
----------------------------------------------------------------------------
(***************************************************************************)
(* What no party ever takes back, and who carries a payment on.            *)
(***************************************************************************)
\* A step never undoes an entry, a settlement's end, a bank's decision or what
\* the client was shown of an ending; a PENDING settlement ends as one that was
\* accepted.
ForGood ==
    \A p \in Payments :
        /\ bank[p] \in {"CONFIRMED", "COMPENSATED"} => bank'[p] = bank[p]
        /\ bank[p] = "DEBITED" => bank'[p] # "none"
        /\ hub[p] \notin {"none", "PENDING"} => hub'[p] = hub[p]
        /\ hub[p] = "PENDING" => hub'[p] \in {"PENDING", "CONFIRMED", "REVERSED"}
        /\ payee[p] # "none" => payee'[p] = payee[p]
        /\ shown[p] \notin {"none", "DEBITED"} => shown'[p] = shown[p]

LEMMA StepForGood == SagaInv /\ [Next]_vars => ForGood
<1> SUFFICES ASSUME SagaInv, [Next]_vars PROVE ForGood
  OBVIOUS
<1> USE DEF SagaInv
<1>1. ASSUME NEW p \in Payments, Book(p) \/ Answered(p) \/ GrowStale(p) \/ Ask(p) \/ Poll(p)
      PROVE  ForGood
  <2>1. CASE Book(p)
    BY <2>1 DEF Book, TypeOK, ForGood
  <2>2. CASE Answered(p)
    BY <2>2 DEF Answered, TypeOK, ForGood
  <2>3. CASE GrowStale(p) \/ Ask(p)
    BY <2>3 DEF GrowStale, Ask, ForGood
  <2>4. CASE Poll(p)
    BY <2>4 DEF Poll, TypeOK, ForGood
  <2> QED
    BY <1>1, <2>1, <2>2, <2>3, <2>4
<1>2. ASSUME NEW m, Relay(m) \/ Lose(m) PROVE ForGood
  BY <1>2 DEF Relay, Lose, ForGood
<1>3. ASSUME NEW m, HubRequested(m) \/ HubReply(m) PROVE ForGood
  <2> DEFINE p == m.payment
  <2>1. UNCHANGED <<bank, payee, shown>> /\ p \in Payments
    BY <1>3, ReceiveFacts DEF HubRequested, HubReply, Message
  <2>2. CASE hub' = hub
    BY <2>1, <2>2 DEF ForGood
  <2>3. ASSUME hub[p] = "none" \/ hub[p] = "PENDING",
               NEW s, hub' = [hub EXCEPT ![p] = s],
               hub[p] = "PENDING" => s \in {"CONFIRMED", "REVERSED"}
        PROVE  ForGood
    BY <2>1, <2>3 DEF ForGood, TypeOK
  <2>4. CASE HubRequested(m)
    <3>1. hub' = hub \/ (hub[p] = "none" /\ \E s \in {"PENDING", "REJECTED"} : hub' = [hub EXCEPT ![p] = s])
      BY <2>4 DEF HubRequested, Decide
    <3> QED
      BY <2>2, <2>3, <3>1
  <2>5. CASE HubReply(m)
    <3>1. \/ hub' = hub
          \/ hub[p] = "PENDING" /\ \E s \in {"CONFIRMED", "REVERSED"} : hub' = [hub EXCEPT ![p] = s]
      BY <2>5 DEF HubReply, Decide
    <3> QED
      BY <2>2, <2>3, <3>1
  <2> QED
    BY <1>3, <2>4, <2>5
<1>4. ASSUME NEW m, NotifyPayee(m) PROVE ForGood
  <2>1. UNCHANGED <<bank, hub, shown>> /\ m.payment \in Payments
    BY <1>4, ReceiveFacts DEF NotifyPayee, Message
  <2>2. \A p \in Payments : payee[p] # "none" => payee'[p] = payee[p]
    BY <1>4, <2>1 DEF NotifyPayee, TypeOK
  <2> QED
    BY <2>1, <2>2 DEF ForGood
<1>5. ASSUME NEW m, Settle(m) PROVE ForGood
  <2>1. UNCHANGED <<hub, payee, shown>> /\ m.payment \in Payments
    BY <1>5, ReceiveFacts DEF Settle, Message
  <2>2. \A p \in Payments : bank[p] # "DEBITED" => bank'[p] = bank[p]
    BY <1>5, <2>1 DEF Settle, TypeOK
  <2>3. \A p \in Payments : bank[p] = "DEBITED" => bank'[p] # "none"
    BY <1>5, <2>1 DEF Settle, TypeOK
  <2> QED
    BY <2>1, <2>2, <2>3 DEF ForGood
<1>6. CASE UNCHANGED vars
  BY <1>6 DEF vars, ForGood
<1> QED
  BY <1>1, <1>2, <1>3, <1>4, <1>5, <1>6 DEF Next, Handle

\* Whatever is lost, late, repeated or reordered, each of the three ledgers and
\* the client's screen only moves forward.
THEOREM NothingTakenBack == Spec => [][ForGood]_vars
<1>1. SagaInv /\ [Next]_vars => [ForGood]_vars
  BY StepForGood
<1> QED
  BY <1>1, SagaInvariant, PTL DEF Spec

\* No sweep asks about a settlement that is PENDING at the Hub, so something
\* else must carry it on: a notify that will reach the payee's bank, or the
\* reply with what that bank decided.
Carried(p) ==
    \/ Msg("notify", p, "none") \in outbox \cup wire
    \/ payee[p] # "none" /\ Msg("reply", p, payee[p]) \in outbox \cup wire

\* A PENDING settlement that nothing carries on, at the Hub or on its way.
Stranded(p) == hub[p] = "PENDING" /\ ~Carried(p)

\* A notify or a reply of p goes to the dead-letter queue, or is lost.
LosesItsMessage(p) == \E m \in wire : m.payment = p /\ m.kind \in {"notify", "reply"} /\ Lose(m)

\* Nothing but the notify and the reply of p carries it.
LEMMA StillCarried ==
    ASSUME NEW p \in Payments, Carried(p), NEW m,
           m \notin {Msg("notify", p, "none"), Msg("reply", p, payee[p])},
           outbox \cup wire \subseteq (outbox \cup wire)' \cup {m},
           wire \subseteq wire' \cup {m},
           payee[p] # "none" => payee'[p] = payee[p]
    PROVE  Carried(p)'
BY DEF Carried, Msg

LEMMA CarriedStep ==
    ASSUME SagaInv, [Next]_vars, NEW p \in Payments, ~Stranded(p), hub'[p] = "PENDING",
           ~LosesItsMessage(p)
    PROVE  Carried(p)'
<1>1. payee[p] # "none" => payee'[p] = payee[p]
  BY StepForGood DEF ForGood
<1>2. ASSUME hub[p] = "PENDING", NEW m, m.kind \notin {"notify", "reply"} \/ m.payment # p,
             outbox \cup wire \subseteq (outbox \cup wire)' \cup {m},
             wire \subseteq wire' \cup {m}
      PROVE  Carried(p)'
  <2>1. m \notin {Msg("notify", p, "none"), Msg("reply", p, payee[p])}
    BY <1>2 DEF Msg
  <2>2. Carried(p)
    BY <1>2 DEF Stranded
  <2> QED
    BY <1>1, <1>2, <2>1, <2>2, StillCarried
<1>3. ASSUME NEW q \in Payments, Book(q) \/ Answered(q) \/ GrowStale(q) \/ Ask(q) \/ Poll(q)
      PROVE  Carried(p)'
  <2>1. hub' = hub /\ outbox \subseteq outbox' /\ wire \subseteq wire'
    BY <1>3 DEF Book, Answered, GrowStale, Ask, Poll
  <2>2. Carried(p)
    BY <2>1 DEF Stranded
  <2> QED
    BY <1>1, <2>1, <2>2 DEF Carried
<1>4. ASSUME NEW m, Relay(m) PROVE Carried(p)'
  <2>1. UNCHANGED <<hub, payee>> /\ wire \subseteq wire' /\ outbox \cup wire \subseteq (outbox \cup wire)'
    BY <1>4 DEF Relay
  <2>2. Carried(p)
    BY <2>1 DEF Stranded
  <2> QED
    BY <2>1, <2>2 DEF Carried
<1>5. ASSUME NEW m, Lose(m) PROVE Carried(p)'
  <2>1. /\ m.kind \notin {"notify", "reply"} \/ m.payment # p
        /\ hub' = hub /\ wire \subseteq wire' \cup {m} /\ outbox' = outbox
    BY <1>5 DEF Lose, LosesItsMessage
  <2> QED
    BY <1>2, <2>1
<1>6. ASSUME NEW m, Settle(m) PROVE Carried(p)'
  <2>1. /\ m.kind \notin {"notify", "reply"} /\ hub' = hub
        /\ wire \subseteq wire' \cup {m} /\ outbox' = outbox
    BY <1>6 DEF Settle, Receive
  <2> QED
    BY <1>2, <2>1
<1>7. ASSUME NEW m, HubRequested(m) PROVE Carried(p)'
  <2>1. /\ m.kind = "requested" /\ m.payment \in Payments
        /\ wire \subseteq wire' \cup {m} /\ outbox \subseteq outbox'
    BY <1>7, ReceiveFacts DEF HubRequested, Receive, Decide, Message, SagaInv
  <2>2. CASE hub[p] = "PENDING"
    BY <1>2, <2>1, <2>2
  <2>3. CASE hub[p] # "PENDING"
    <3>1. m.payment = p /\ hub[p] = "none" /\ \E s \in {"PENDING", "REJECTED"} : Decide(p, s)
      BY <1>7, <2>1, <2>3 DEF HubRequested, Decide, SagaInv, TypeOK
    <3>2. Decide(p, "PENDING")
      BY <3>1 DEF Decide, SagaInv, TypeOK
    <3>3. Msg("notify", p, "none") \in outbox'
      BY <3>2 DEF Decide
    <3> QED
      BY <3>3 DEF Carried
  <2> QED
    BY <2>2, <2>3
<1>8. ASSUME NEW m, NotifyPayee(m) PROVE Carried(p)'
  <2> DEFINE q == m.payment
  <2>1. /\ q \in Payments /\ hub' = hub /\ outbox' = outbox
        /\ wire \subseteq wire' \cup {m}
        /\ Msg("reply", q, payee'[q]) \in wire'
    BY <1>8, ReceiveFacts DEF NotifyPayee, Receive, Message, SagaInv
  <2>2. payee'[q] # "none"
    BY <1>8, <2>1 DEF NotifyPayee, SagaInv, TypeOK
  <2>3. CASE q = p
    BY <2>1, <2>2, <2>3 DEF Carried
  <2>4. CASE q # p
    BY <1>2, <2>1, <2>4
  <2> QED
    BY <2>3, <2>4
<1>9. ASSUME NEW m, HubReply(m) PROVE Carried(p)'
  <2> DEFINE q == m.payment
  <2>1. /\ q \in Payments /\ wire \subseteq wire' \cup {m} /\ outbox \subseteq outbox'
    BY <1>9, ReceiveFacts DEF HubReply, Receive, Decide, Message, SagaInv
  <2>2. /\ q # p
        /\ hub[p] = "PENDING"
    BY <1>9, <2>1 DEF HubReply, Decide, SagaInv, TypeOK
  <2> QED
    BY <1>2, <2>1, <2>2
<1>10. CASE UNCHANGED vars
  BY <1>10 DEF vars, Stranded, Carried
<1> QED
  BY <1>3, <1>4, <1>5, <1>6, <1>7, <1>8, <1>9, <1>10 DEF Next, Handle

\* settlement.repository.ts:102: although nobody asks for a settlement that is
\* PENDING, whatever is late, repeated or reordered, each one has a message on
\* its way that carries it on - until a notify or a reply of its own is lost or
\* dead-lettered (settlements.consumer.ts:61): no other step strands it.
THEOREM OnlyLossStrands ==
    Spec => [][\A p \in Payments : ~Stranded(p) /\ Stranded(p)' => LosesItsMessage(p)]_vars
<1> DEFINE ByLoss == \A p \in Payments : ~Stranded(p) /\ Stranded(p)' => LosesItsMessage(p)
<1>1. SagaInv /\ [Next]_vars => [ByLoss]_vars
  BY CarriedStep DEF Stranded
<1> QED
  BY <1>1, SagaInvariant, PTL DEF Spec

\* And nothing the services do brings it back: the Hub's findStalePending has no
\* caller, so a settlement once stranded is PENDING, and its message lost, for ever.
THEOREM StrandedForGood ==
    Spec => [][\A p \in Payments : Stranded(p) => Stranded(p)']_vars
<1> DEFINE ForEver == \A p \in Payments : Stranded(p) => Stranded(p)'
<1>1. SagaInv /\ [Next]_vars => [ForEver]_vars
  <2> SUFFICES ASSUME SagaInv, [Next]_vars, NEW p \in Payments, Stranded(p) PROVE Stranded(p)'
    OBVIOUS
  <2> USE DEF SagaInv
  <2>1. /\ hub[p] = "PENDING" /\ Msg("notify", p, "none") \notin outbox \cup wire
        /\ \A m \in outbox \cup wire : ~(m.payment = p /\ m.kind = "reply")
    <3>1. ASSUME NEW m \in outbox \cup wire, m.payment = p, m.kind = "reply" PROVE FALSE
      <4>1. m.says = payee[p] /\ m \in Message
        BY <3>1 DEF Evidence, TypeOK
      <4>2. m = Msg("reply", p, payee[p]) /\ payee[p] # "none"
        BY <3>1, <4>1 DEF Message, Msg
      <4> QED
        BY <4>2 DEF Stranded, Carried
    <3> QED
      BY <3>1 DEF Stranded, Carried
  <2>2. \A m \in outbox \cup wire : ~(m.payment = p /\ m.kind \in {"notify", "reply"})
    BY <2>1 DEF TypeOK, Message, Msg
  <2>3. ASSUME NEW out, (outbox \cup wire)' \subseteq outbox \cup wire \cup out, hub'[p] = "PENDING",
               \A m \in out : m.payment # p \/ m.kind \notin {"notify", "reply"}
        PROVE  Stranded(p)'
    BY <2>2, <2>3 DEF Stranded, Carried, Msg
  <2>4. (outbox \cup wire)' \subseteq outbox \cup wire /\ hub'[p] = "PENDING" => Stranded(p)'
    BY <2>2 DEF Stranded, Carried, Msg
  <2>5. ASSUME NEW q \in Payments, Book(q) \/ Answered(q) \/ GrowStale(q) \/ Ask(q) \/ Poll(q)
        PROVE  Stranded(p)'
    <3>1. /\ hub' = hub
          /\ (outbox \cup wire)' \subseteq outbox \cup wire \cup {Requested(q), Msg("answer", q, hub[q])}
      BY <2>5 DEF Book, Answered, GrowStale, Ask, Poll
    <3>2. \A m \in {Requested(q), Msg("answer", q, hub[q])} : m.kind \notin {"notify", "reply"}
      BY DEF Requested, Msg
    <3> QED
      BY <2>1, <2>3, <3>1, <3>2
  <2>6. ASSUME NEW m, Relay(m) \/ Lose(m) \/ Settle(m) PROVE Stranded(p)'
    <3>1. hub' = hub /\ (outbox \cup wire)' \subseteq outbox \cup wire
      BY <2>6, ReceiveFacts DEF Relay, Lose, Settle
    <3> QED
      BY <2>1, <2>4, <3>1
  <2>7. ASSUME NEW m, NEW s, Decide(m.payment, s), m.payment # p, wire' \subseteq wire
        PROVE  Stranded(p)'
    <3> DEFINE new == outbox' \ outbox
    <3>1. hub'[p] = hub[p] /\ outbox' = outbox \cup new /\ \A n \in new : n.payment = m.payment
      BY <2>7 DEF Decide, Msg, TypeOK
    <3> HIDE DEF new
    <3> QED
      BY <2>1, <2>3, <2>7, <3>1
  <2>8. ASSUME NEW m, HubRequested(m) \/ HubReply(m) PROVE Stranded(p)'
    <3>1. m \in wire /\ wire' \subseteq wire
      BY <2>8, ReceiveFacts DEF HubRequested, HubReply
    <3>2. m.payment = p => UNCHANGED <<hub, outbox>>
      BY <2>1, <2>2, <2>8, <3>1 DEF HubRequested, HubReply
    <3>3. UNCHANGED <<hub, outbox>> \/ \E s : Decide(m.payment, s)
      BY <2>8 DEF HubRequested, HubReply
    <3>4. CASE UNCHANGED <<hub, outbox>>
      BY <2>1, <2>4, <3>1, <3>4
    <3> QED
      BY <2>7, <3>1, <3>2, <3>3, <3>4
  <2>9. ASSUME NEW m, NotifyPayee(m) PROVE Stranded(p)'
    <3> DEFINE reply == Msg("reply", m.payment, payee'[m.payment])
    <3>1. /\ m \in wire /\ m.kind = "notify" /\ UNCHANGED <<hub, outbox>>
          /\ wire' \subseteq wire \cup {reply}
      BY <2>9, ReceiveFacts DEF NotifyPayee
    <3>2. m.payment # p /\ reply.payment = m.payment
      BY <2>2, <3>1 DEF Msg
    <3> QED
      BY <2>1, <2>3, <3>1, <3>2
  <2>10. CASE UNCHANGED vars
    BY <2>10 DEF vars, Stranded, Carried
  <2> QED
    BY <2>5, <2>6, <2>8, <2>9, <2>10 DEF Next, Handle
<1> QED
  BY <1>1, SagaInvariant, PTL DEF Spec

\* reconciliation.service.ts:49-50: no payment is both delivered and refunded
\* that did not stay DEBITED for STALE_AFTER_MS, even if requests come late.
THEOREM OnlyStalePaymentsDuplicate ==
    Spec => [](\A p \in Payments : payee[p] = "CONFIRMED" /\ bank[p] = "COMPENSATED" => stale[p])
<1> DEFINE OnlyStale ==
      \A p \in Payments : payee[p] = "CONFIRMED" /\ bank[p] = "COMPENSATED" => stale[p]
<1>1. SagaInv => OnlyStale
  BY DEF SagaInv, Earned
<1> QED
  BY <1>1, SagaInvariant, PTL

----------------------------------------------------------------------------
(***************************************************************************)
(* The single steps that stand for the Hub here are those HubSettlement is *)
(* proved to take as long as no two replies of a settlement overlap:       *)
(* AtomicSettlement.                                                       *)
(***************************************************************************)
Reserves(p) ==
    [moved |-> IF hub[p] \in {"none", "REJECTED"} THEN 0 ELSE 1,
     back  |-> IF hub[p] = "REVERSED" THEN 1 ELSE 0]

Events(p) ==
    CASE hub[p] = "none"     -> <<>>
      [] hub[p] = "PENDING"  -> <<"notify">>
      [] hub[p] = "REJECTED" -> <<"REJECTED">>
      [] OTHER               -> <<"notify", hub[p]>>

HubBooks == INSTANCE AtomicSettlement WITH
    Settlements <- Payments,
    status <- hub,
    legs <- [p \in Payments |-> Reserves(p)],
    outbox <- [p \in Payments |-> Events(p)]

LEMMA AppendEvent ==
    /\ \A v \in {"notify", "REJECTED"} : Append(<<>>, v) = <<v>>
    /\ \A v \in {"CONFIRMED", "REVERSED"} : Append(<<"notify">>, v) = <<"notify", v>>
<1>1. \A v \in {"notify", "REJECTED"} : Append(<<>>, v) = <<v>>
  OBVIOUS
<1>2. ASSUME NEW v \in {"CONFIRMED", "REVERSED"} PROVE Append(<<"notify">>, v) = <<"notify", v>>
  <2> DEFINE S == {"notify", "CONFIRMED", "REVERSED"}
  <2>1. /\ <<"notify">> \in Seq(S) /\ Len(<<"notify">>) = 1 /\ v \in S
        /\ <<"notify", v>> \in Seq(S) /\ Len(<<"notify", v>>) = 2
    OBVIOUS
  <2>2. /\ Append(<<"notify">>, v) \in Seq(S) /\ Len(Append(<<"notify">>, v)) = 2
        /\ Append(<<"notify">>, v)[1] = "notify" /\ Append(<<"notify">>, v)[2] = v
    BY <2>1, AppendProperties
  <2>3. \A i \in 1..2 : Append(<<"notify">>, v)[i] = <<"notify", v>>[i]
    BY <2>2
  <2> QED
    BY <2>1, <2>2, <2>3, SeqEqual
<1> QED
  BY <1>1, <1>2

\* A row that gets a status takes the one step of AtomicSettlement that does.
LEMMA DecideIsIdeal ==
    ASSUME TypeOK, NEW p \in Payments, NEW s, Decide(p, s),
           \/ hub[p] = "none" /\ s \in {"PENDING", "REJECTED"}
           \/ hub[p] = "PENDING" /\ s \in {"CONFIRMED", "REVERSED"}
    PROVE  HubBooks!Next
<1>1. hub' = [hub EXCEPT ![p] = s] /\ hub'[p] = s /\ \A q \in Payments \ {p} : hub'[q] = hub[q]
  BY DEF Decide, TypeOK
<1>2. \A q \in Payments \ {p} : Reserves(q)' = Reserves(q) /\ Events(q)' = Events(q)
  BY <1>1 DEF Reserves, Events
<1> DEFINE legs == [q \in Payments |-> Reserves(q)]
           told == [q \in Payments |-> Events(q)]
<1>3. ASSUME NEW n, Reserves(p)' = n
      PROVE  [q \in Payments |-> Reserves(q)'] = [legs EXCEPT ![p] = n]
  BY <1>2, <1>3
<1>4. ASSUME NEW n, Events(p)' = n
      PROVE  [q \in Payments |-> Events(q)'] = [told EXCEPT ![p] = n]
  BY <1>2, <1>4
<1>5. CASE hub[p] = "none" /\ s = "PENDING"
  <2>1. Reserves(p) = [moved |-> 0, back |-> 0] /\ Reserves(p)' = [moved |-> 1, back |-> 0]
    BY <1>1, <1>5 DEF Reserves
  <2>2. Reserves(p)' = [moved |-> Reserves(p).moved + 1, back |-> Reserves(p).back + 0]
    BY <2>1
  <2>3. Events(p)' = Append(Events(p), "notify")
    BY <1>1, <1>5, AppendEvent DEF Events
  <2>4. HubBooks!Record(p)
    BY <1>1, <1>3, <1>4, <1>5, <2>2, <2>3 DEF HubBooks!Record, HubBooks!Move, HubBooks!Tell
  <2> QED
    BY <2>4 DEF HubBooks!Next
<1>6. CASE hub[p] = "none" /\ s = "REJECTED"
  <2>1. Reserves(p)' = Reserves(p)
    BY <1>1, <1>6 DEF Reserves
  <2>2. Events(p)' = Append(Events(p), "REJECTED")
    BY <1>1, <1>6, AppendEvent DEF Events
  <2>3. HubBooks!Refuse(p)
    BY <1>1, <1>2, <1>4, <1>6, <2>1, <2>2 DEF HubBooks!Refuse, HubBooks!Tell
  <2> QED
    BY <2>3 DEF HubBooks!Next
<1>7. CASE hub[p] = "PENDING" /\ s \in {"CONFIRMED", "REVERSED"}
  <2> DEFINE back == IF s = "REVERSED" THEN 1 ELSE 0
  <2>1. Reserves(p) = [moved |-> 1, back |-> 0] /\ Reserves(p)' = [moved |-> 1, back |-> back]
    BY <1>1, <1>7 DEF Reserves
  <2>2. Reserves(p)' = [moved |-> Reserves(p).moved + 0, back |-> Reserves(p).back + back]
    BY <2>1
  <2>3. Events(p)' = Append(Events(p), s)
    <3>1. Events(p) = <<"notify">> /\ Events(p)' = <<"notify", s>>
      BY <1>1, <1>7 DEF Events
    <3> QED
      BY <1>7, <3>1, AppendEvent
  <2>4. HubBooks!Settle(p, s)
    BY <1>1, <1>3, <1>4, <1>7, <2>2, <2>3 DEF HubBooks!Settle, HubBooks!Move, HubBooks!Tell
  <2> QED
    BY <1>7, <2>4 DEF HubBooks!Next
<1> QED
  BY <1>5, <1>6, <1>7

LEMMA HubStep == SagaInv /\ [Next]_vars => [HubBooks!Next]_(HubBooks!vars)
<1> SUFFICES ASSUME SagaInv, [Next]_vars
             PROVE  HubBooks!Next \/ UNCHANGED HubBooks!vars
  OBVIOUS
<1>1. ASSUME hub' = hub PROVE UNCHANGED HubBooks!vars
  BY <1>1 DEF HubBooks!vars, Reserves, Events
<1>2. ASSUME NEW p \in Payments, Book(p) \/ Answered(p) \/ GrowStale(p) \/ Ask(p) \/ Poll(p)
      PROVE  hub' = hub
  BY <1>2 DEF Book, Answered, GrowStale, Ask, Poll
<1>3. ASSUME NEW m, Relay(m) \/ Lose(m) \/ NotifyPayee(m) \/ Settle(m) PROVE hub' = hub
  BY <1>3 DEF Relay, Lose, NotifyPayee, Settle
<1>4. ASSUME NEW m, HubRequested(m) \/ HubReply(m) PROVE HubBooks!Next \/ hub' = hub
  <2>1. m.payment \in Payments /\ TypeOK
    BY <1>4, ReceiveFacts DEF HubRequested, HubReply, Message, SagaInv
  <2> QED
    BY <1>4, <2>1, DecideIsIdeal DEF HubRequested, HubReply
<1>5. CASE UNCHANGED vars
  BY <1>1, <1>5 DEF vars
<1> QED
  BY <1>1, <1>2, <1>3, <1>4, <1>5 DEF Next, Handle

\* Whatever the messages do, the Hub of the composed services moves its rows,
\* reserves and events only as AtomicSettlement does.
THEOREM HubBooksAsPromised == Spec => HubBooks!Spec
<1>1. Init => HubBooks!Init
  BY DEF Init, HubBooks!Init, Reserves, Events
<1> QED
  BY <1>1, HubStep, SagaInvariant, PTL DEF Spec, HubBooks!Spec
=============================================================================
