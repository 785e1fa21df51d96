------------------------ MODULE HubSettlementProofs ------------------------
(***************************************************************************)
(* For any number of settlements, deliveries, banks and failures.  First   *)
(* what holds however the replies of one settlement overlap: the tables    *)
(* take the steps of AtomicSettlement, where an ending may be booked and   *)
(* told again, and handlers never wait in a circle.  Then that two replies *)
(* which both read their settlement as PENDING are all that repeats one:   *)
(* as long as none do, reserves, status and outbox always agree.           *)
(***************************************************************************)
EXTENDS HubSettlement, FiniteSetTheorems, SequenceTheorems, TLAPS

AtRequest == {"bank", "insert", "write"}
AtReply == {"find", "settle"}
Settled == {"REJECTED"} \cup Outcomes

\* The writes of a request that is ready to commit, those of a reply that
\* settles its settlement, and those of one that finds it settled by then.
RequestWrites ==
    {[status |-> "PENDING",  moved |-> 1, back |-> 0, events |-> <<"notify">>],
     [status |-> "REJECTED", moved |-> 0, back |-> 0, events |-> <<"REJECTED">>]}
ReplyWrites(s, u) ==
    [status |-> u,
     moved  |-> 0,
     back   |-> IF Verdict[s] = "REVERSED" THEN 1 ELSE 0,
     events |-> <<Verdict[s]>>]

\* A request past its insert owns a row nobody has committed, or found one.
RequestOwns(d) ==
    LET s == Id(d) IN
    /\ pc[d] \in AtRequest => msg[d].type = "requested"
    /\ pc[d] \in {"idle", "bank", "insert"} => tx[d] = NoWrites
    /\ pc[d] = "write" =>
          /\ holder[s] = d /\ status[s] = "none"
          /\ tx[d].status = IF known[d] THEN "PENDING" ELSE "REJECTED"
    /\ pc[d] = "commit" /\ msg[d].type = "requested" =>
          \/ tx[d] = NoWrites /\ status[s] # "none"
          \/ holder[s] = d /\ status[s] = "none" /\ tx[d] \in RequestWrites

\* A reply that found its settlement PENDING finds it so again, and then owns
\* its row, or finds it settled, as the payee bank answered.
ReplyKnows(d) ==
    LET s == Id(d) IN
    /\ pc[d] \in AtReply => msg[d].type = "reply"
    /\ pc[d] = "settle" => status[s] \in {"PENDING", Verdict[s]}
    /\ pc[d] = "commit" /\ msg[d].type = "reply" =>
          \/ holder[s] = d /\ status[s] = "PENDING" /\ tx[d] = ReplyWrites(s, Verdict[s])
          \/ status[s] = Verdict[s] /\ tx[d] = ReplyWrites(s, "none")

\* The reserves of a settlement were moved once if it was accepted, and came
\* back if, and only if, it is REVERSED; whatever the banks are told of its
\* ending is how it ended, and that is what the payee bank answered.
EndingsHold ==
    \A s \in Settlements :
        /\ status[s] \in Outcomes => status[s] = Verdict[s]
        /\ legs[s].moved = IF status[s] \in {"none", "REJECTED"} THEN 0 ELSE 1
        /\ legs[s].back > 0 <=> status[s] = "REVERSED"
        /\ \A i \in DOMAIN outbox[s] : outbox[s][i] \in Settled => outbox[s][i] = status[s]

\* A delivery that has written a row waits for nobody until it ends.
HoldersNeverWait ==
    \A s \in Settlements, d \in Deliveries : holder[s] = d => pc[d] \in {"write", "commit"}

RaceInv ==
    /\ TypeOK
    /\ HoldersNeverWait
    /\ \A d \in Deliveries : RequestOwns(d) /\ ReplyKnows(d)
    /\ EndingsHold
    /\ AckMeansDone

----------------------------------------------------------------------------
LEMMA InitRace == Init => RaceInv
<1> SUFFICES ASSUME Init PROVE RaceInv
  OBVIOUS
<1>1. TypeOK
  BY HubAssumption DEF Init, TypeOK, NoWrites, RowStatuses, Events, Outcomes
<1>2. HoldersNeverWait /\ AckMeansDone
  BY HubAssumption DEF Init, HoldersNeverWait, AckMeansDone
<1>3. \A d \in Deliveries : pc[d] = "idle" /\ tx[d] = NoWrites
  BY DEF Init
<1>4. \A d \in Deliveries : RequestOwns(d) /\ ReplyKnows(d)
  BY <1>3 DEF RequestOwns, ReplyKnows, AtRequest, AtReply
<1>5. \A s \in Settlements : /\ status[s] = "none"
                              /\ legs[s] = [moved |-> 0, back |-> 0]
                              /\ outbox[s] = <<>>
  BY DEF Init
<1>6. EndingsHold
  BY <1>5 DEF EndingsHold, Outcomes
<1> QED
  BY <1>1, <1>2, <1>4, <1>6 DEF RaceInv

\* The end of a transaction frees the rows of its delivery and of no other.
LEMMA EndTxTypes ==
    ASSUME TypeOK, NEW d \in Deliveries, EndTx(d)
    PROVE  /\ tx' \in [Deliveries -> [status: RowStatuses, moved: 0..1, back: 0..1,
                                      events: Seq(Events)]]
           /\ tx'[d] = NoWrites
           /\ holder' \in [Settlements -> Deliveries \cup {None}]
           /\ \A e \in Deliveries \ {d} : tx'[e] = tx[e]
           /\ \A s \in Settlements : holder'[s] # d
           /\ \A s \in Settlements : holder'[s] # None => holder'[s] = holder[s]
           /\ \A e \in Deliveries \ {d}, s \in Settlements : holder[s] = e => holder'[s] = e
<1>1. NoWrites \in [status: RowStatuses, moved: 0..1, back: 0..1, events: Seq(Events)]
  BY DEF NoWrites, RowStatuses
<1> QED
  BY <1>1, HubAssumption DEF TypeOK, EndTx

\* What keeps the invariant for a step that commits nothing: only the part of
\* the delivery that moves is to be shown again.
LEMMA QuietStep ==
    ASSUME RaceInv, TypeOK', NEW d \in Deliveries,
           UNCHANGED <<status, legs, outbox, msg>>,
           RequestOwns(d)', ReplyKnows(d)',
           result'[d] = "acked" => result[d] = "acked" \/
               status[Id(d)] \notin (IF msg[d].type = "reply" THEN {"none", "PENDING"} ELSE {"none"}),
           \A s \in Settlements : holder'[s] = d => pc'[d] \in {"write", "commit"},
           \A e \in Deliveries \ {d} :
               /\ pc'[e] = pc[e] /\ tx'[e] = tx[e] /\ known'[e] = known[e]
               /\ result'[e] = result[e]
               /\ \A s \in Settlements : holder[s] = e <=> holder'[s] = e
    PROVE  RaceInv'
<1>1. \A e \in Deliveries \ {d} : Id(e)' = Id(e) /\ Id(e) \in Settlements
  BY DEF RaceInv, TypeOK, Id, Messages
<1>2. \A e \in Deliveries \ {d} : RequestOwns(e)'
  BY <1>1 DEF RaceInv, RequestOwns
<1>3. \A e \in Deliveries \ {d} : ReplyKnows(e)'
  BY <1>1 DEF RaceInv, ReplyKnows, ReplyWrites
<1>4. HoldersNeverWait'
  BY DEF RaceInv, HoldersNeverWait
<1>5. EndingsHold'
  BY DEF RaceInv, EndingsHold
<1>6. AckMeansDone'
  BY DEF RaceInv, AckMeansDone, Id
<1> QED
  BY <1>2, <1>3, <1>4, <1>5, <1>6 DEF RaceInv

----------------------------------------------------------------------------
LEMMA RegisterStep ==
    ASSUME RaceInv, NEW b \in Banks, RegisterBank(b)
    PROVE  RaceInv'
<1>1. TypeOK'
  BY DEF RaceInv, TypeOK, RegisterBank
<1>2. UNCHANGED <<status, legs, outbox, tx, holder, msg, known, pc, result>>
  BY DEF RegisterBank
<1>3. \A d \in Deliveries : RequestOwns(d)' /\ ReplyKnows(d)'
  BY <1>2 DEF RaceInv, RequestOwns, ReplyKnows, ReplyWrites, Id
<1>4. HoldersNeverWait' /\ AckMeansDone'
  BY <1>2 DEF RaceInv, HoldersNeverWait, AckMeansDone, Id
<1>5. EndingsHold'
  BY <1>2 DEF RaceInv, EndingsHold
<1> QED
  BY <1>1, <1>3, <1>4, <1>5 DEF RaceInv

LEMMA DeliverStep ==
    ASSUME RaceInv, NEW d \in Deliveries, Deliver(d)
    PROVE  RaceInv'
<1>1. TypeOK'
  BY DEF RaceInv, TypeOK, Deliver, Goto, tables
<1>2. RequestOwns(d)' /\ ReplyKnows(d)'
  BY DEF RaceInv, TypeOK, Messages, Deliver, Goto, tables, RequestOwns, ReplyKnows, AtRequest, AtReply
<1>3. \A s \in Settlements : holder[s] # d
  BY DEF RaceInv, HoldersNeverWait, Deliver
<1> QED
  BY <1>1, <1>2, <1>3, QuietStep DEF RaceInv, TypeOK, Deliver, Goto, tables

LEMMA FindBankStep ==
    ASSUME RaceInv, NEW d \in Deliveries, FindBank(d)
    PROVE  RaceInv'
<1>1. TypeOK'
  BY DEF RaceInv, TypeOK, FindBank, Goto, tables
<1>2. RequestOwns(d)' /\ ReplyKnows(d)'
  BY DEF RaceInv, TypeOK, FindBank, Goto, tables, RequestOwns, ReplyKnows, AtRequest, AtReply
<1>3. \A s \in Settlements : holder[s] # d
  BY DEF RaceInv, HoldersNeverWait, FindBank
<1> QED
  BY <1>1, <1>2, <1>3, QuietStep DEF RaceInv, TypeOK, FindBank, Goto, tables

\* A delivery that ends without committing keeps the invariant.
LEMMA RollbackStep ==
    ASSUME RaceInv, NEW d \in Deliveries, NEW r \in {"dead", "unacked"}, Rollback(d, r),
           UNCHANGED <<tables, msg, known>>, failures' \in 0..MaxFailures
    PROVE  RaceInv'
<1>1. TypeOK'
  BY EndTxTypes DEF RaceInv, TypeOK, Rollback, End, Goto, tables
<1>2. pc'[d] = "done" /\ result'[d] # "acked"
  BY DEF RaceInv, TypeOK, Rollback, End, Goto
<1>3. RequestOwns(d)' /\ ReplyKnows(d)'
  BY <1>2 DEF RequestOwns, ReplyKnows, AtRequest, AtReply
<1>4. EndTx(d) /\ \A e \in Deliveries \ {d} : pc'[e] = pc[e] /\ result'[e] = result[e]
  BY DEF RaceInv, TypeOK, Rollback, End, Goto
<1>5. \A e \in Deliveries \ {d}, s \in Settlements : holder[s] = e <=> holder'[s] = e
  BY <1>4, EndTxTypes, HubAssumption DEF RaceInv
<1> QED
  BY <1>1, <1>2, <1>3, <1>4, <1>5, EndTxTypes, QuietStep DEF RaceInv, tables

LEMMA InsertSettlementStep ==
    ASSUME RaceInv, NEW d \in Deliveries, InsertSettlement(d)
    PROVE  RaceInv'
<1> DEFINE s == Id(d)
<1>1. s \in Settlements /\ failures \in 0..MaxFailures /\ UNCHANGED <<tables, msg, known, failures>>
  BY DEF RaceInv, TypeOK, Messages, Id, InsertSettlement
<1>2. /\ msg[d].type = "requested"
      /\ \A q \in Settlements : holder[q] # d
  BY DEF InsertSettlement, RaceInv, RequestOwns, AtRequest, HoldersNeverWait
<1>3. CASE Rollback(d, "dead")
  BY <1>1, <1>3, RollbackStep
<1>4. CASE /\ status[s] # "none"
           /\ Goto(d, "commit")
           /\ UNCHANGED <<tx, holder, result>>
  <2>1. TypeOK'
    BY <1>1, <1>4 DEF RaceInv, TypeOK, Goto, tables
  <2>2. tx[d] = NoWrites
    BY DEF RaceInv, RequestOwns, InsertSettlement
  <2>3. RequestOwns(d)' /\ ReplyKnows(d)'
    BY <1>1, <1>2, <1>4, <2>2 DEF RaceInv, TypeOK, Id, Goto, tables, RequestOwns, ReplyKnows, AtRequest, AtReply
  <2> QED
    BY <1>1, <1>2, <1>4, <2>1, <2>3, QuietStep DEF RaceInv, TypeOK, Goto, tables
<1>5. CASE /\ RowFree(d) /\ status[s] = "none"
           /\ holder' = [holder EXCEPT ![s] = d]
           /\ tx' = [tx EXCEPT ![d] =
                       [status |-> IF known[d] THEN "PENDING" ELSE "REJECTED",
                        moved |-> 0, back |-> 0, events |-> <<>>]]
           /\ Goto(d, "write")
           /\ UNCHANGED result
  <2>1. TypeOK'
    BY <1>1, <1>5 DEF RaceInv, TypeOK, Goto, tables, RowStatuses
  <2>2. RequestOwns(d)' /\ ReplyKnows(d)'
    BY <1>1, <1>2, <1>5 DEF RaceInv, TypeOK, Id, Goto, tables, RequestOwns, ReplyKnows, AtRequest, AtReply
  <2>3. \A e \in Deliveries \ {d}, q \in Settlements : holder[q] = e <=> holder'[q] = e
    BY <1>1, <1>5, HubAssumption DEF RaceInv, TypeOK, RowFree
  <2>4. pc'[d] = "write"
    BY <1>5 DEF RaceInv, TypeOK, Goto
  <2> QED
    BY <1>1, <1>2, <1>5, <2>1, <2>2, <2>3, <2>4, QuietStep DEF RaceInv, TypeOK, Goto, tables
<1> QED
  BY <1>3, <1>4, <1>5 DEF InsertSettlement

LEMMA WriteRequestedStep ==
    ASSUME RaceInv, NEW d \in Deliveries, WriteRequested(d)
    PROVE  RaceInv'
<1>1. /\ Id(d) \in Settlements
      /\ msg[d].type = "requested"
      /\ holder[Id(d)] = d /\ status[Id(d)] = "none"
      /\ tx[d].status = IF known[d] THEN "PENDING" ELSE "REJECTED"
  BY DEF WriteRequested, RaceInv, TypeOK, Messages, Id, RequestOwns, AtRequest
<1>2. PICK w \in RequestWrites : tx' = [tx EXCEPT ![d] = w]
  <2>1. CASE known[d]
    BY <1>1, <2>1 DEF WriteRequested, RequestWrites
  <2>2. CASE ~known[d]
    BY <1>1, <2>2 DEF WriteRequested, RequestWrites
  <2> QED
    BY <2>1, <2>2
<1>3. w \in [status: RowStatuses, moved: 0..1, back: 0..1, events: Seq(Events)]
  <2>1. <<"notify">> \in Seq(Events) /\ <<"REJECTED">> \in Seq(Events)
    BY DEF Events
  <2>2. [status |-> "PENDING", moved |-> 1, back |-> 0, events |-> <<"notify">>]
           \in [status: RowStatuses, moved: 0..1, back: 0..1, events: Seq(Events)]
    BY <2>1 DEF RowStatuses
  <2>3. [status |-> "REJECTED", moved |-> 0, back |-> 0, events |-> <<"REJECTED">>]
           \in [status: RowStatuses, moved: 0..1, back: 0..1, events: Seq(Events)]
    BY <2>1 DEF RowStatuses
  <2> QED
    BY <2>2, <2>3 DEF RequestWrites
<1>4. Goto(d, "commit") /\ UNCHANGED <<tables, holder, msg, known, result, failures>>
  BY DEF WriteRequested
<1>5. TypeOK'
  BY <1>2, <1>3, <1>4 DEF RaceInv, TypeOK, Goto, tables
<1>6. pc'[d] = "commit" /\ tx'[d] = w
  BY <1>2, <1>4 DEF RaceInv, TypeOK, Goto
<1>7. RequestOwns(d)' /\ ReplyKnows(d)'
  BY <1>1, <1>4, <1>6 DEF tables, Id, RequestOwns, ReplyKnows, AtRequest, AtReply
<1> QED
  BY <1>1, <1>2, <1>4, <1>5, <1>6, <1>7, QuietStep DEF RaceInv, TypeOK, Goto, tables

LEMMA FindSettlementStep ==
    ASSUME RaceInv, NEW d \in Deliveries, FindSettlement(d)
    PROVE  RaceInv'
<1>1. /\ msg[d].type = "reply"
      /\ \A s \in Settlements : holder[s] # d
  BY DEF FindSettlement, RaceInv, ReplyKnows, AtReply, HoldersNeverWait
<1>2. /\ UNCHANGED <<tables, tx, holder, msg, known, failures>>
      /\ \/ status[Id(d)] \notin {"none", "PENDING"} /\ End(d, "acked")
         \/ status[Id(d)] = "none" /\ End(d, "dead")
         \/ status[Id(d)] = "PENDING" /\ Goto(d, "settle") /\ UNCHANGED result
  BY DEF FindSettlement
<1>3. TypeOK'
  BY <1>2 DEF RaceInv, TypeOK, End, Goto, tables
<1>4. /\ UNCHANGED <<tables, tx, holder, msg, known>>
      /\ pc'[d] = "done" \/ (pc'[d] = "settle" /\ status[Id(d)] = "PENDING")
      /\ result'[d] = "acked" => result[d] = "acked" \/ status[Id(d)] \notin {"none", "PENDING"}
      /\ \A e \in Deliveries \ {d} : pc'[e] = pc[e] /\ result'[e] = result[e]
  BY <1>2 DEF RaceInv, TypeOK, End, Goto
<1>5. RequestOwns(d)' /\ ReplyKnows(d)'
  BY <1>1, <1>4 DEF tables, Id, RequestOwns, ReplyKnows, AtRequest, AtReply
<1> QED
  BY <1>1, <1>3, <1>4, <1>5, QuietStep DEF tables

\* markConfirmed and markReversed see the row as it is then, not as it was
\* read before the transaction.
LEMMA SettleStep ==
    ASSUME RaceInv, NEW d \in Deliveries, Settle(d)
    PROVE  RaceInv'
<1> DEFINE s == Id(d)
           u == IF status[s] = "PENDING" THEN Verdict[s] ELSE "none"
<1>1. /\ s \in Settlements /\ Verdict[s] \in Outcomes
      /\ msg[d].type = "reply"
      /\ status[s] \in {"PENDING", Verdict[s]}
      /\ \A q \in Settlements : holder[q] # d
  <2>1. pc[d] = "settle" /\ ReplyKnows(d)
    BY DEF Settle, RaceInv
  <2>2. s \in Settlements
    BY DEF RaceInv, TypeOK, Messages, Id
  <2> QED
    BY <2>1, <2>2, HubAssumption DEF ReplyKnows, AtReply, RaceInv, HoldersNeverWait
<1>2. /\ holder[s] = None
      /\ holder' = [holder EXCEPT ![s] = IF status[s] = "PENDING" THEN d ELSE None]
      /\ tx' = [tx EXCEPT ![d] = ReplyWrites(s, u)]
      /\ Goto(d, "commit")
      /\ UNCHANGED <<tables, msg, known, result, failures>>
  BY <1>1 DEF Settle, ReplyWrites, RowFree
<1>3. ReplyWrites(s, u) \in [status: RowStatuses, moved: 0..1, back: 0..1, events: Seq(Events)]
  BY <1>1 DEF ReplyWrites, RowStatuses, Events
<1>4. TypeOK'
  BY <1>1, <1>2, <1>3 DEF RaceInv, TypeOK, Goto, tables
<1>5. /\ pc'[d] = "commit" /\ tx'[d] = ReplyWrites(s, u)
      /\ holder'[s] = IF status[s] = "PENDING" THEN d ELSE None
  BY <1>1, <1>2 DEF RaceInv, TypeOK, Goto
<1>6. RequestOwns(d)'
  BY <1>1, <1>2, <1>5 DEF RequestOwns, AtRequest
<1>7. ReplyKnows(d)'
  <2>1. Id(d)' = s /\ status' = status
    BY <1>2 DEF Id, tables
  <2>2. CASE status[s] = "PENDING"
    BY <1>1, <1>5, <2>1, <2>2 DEF ReplyKnows, ReplyWrites, AtReply
  <2>3. CASE status[s] # "PENDING"
    BY <1>1, <1>5, <2>1, <2>3 DEF ReplyKnows, ReplyWrites, AtReply
  <2> QED
    BY <2>2, <2>3
<1>8. \A e \in Deliveries \ {d}, q \in Settlements : holder[q] = e <=> holder'[q] = e
  BY <1>1, <1>2, HubAssumption DEF RaceInv, TypeOK
<1>9. \A e \in Deliveries \ {d} : pc'[e] = pc[e] /\ tx'[e] = tx[e]
  BY <1>2 DEF RaceInv, TypeOK, Goto
<1> QED
  BY <1>1, <1>2, <1>4, <1>5, <1>6, <1>7, <1>8, <1>9, QuietStep DEF tables

----------------------------------------------------------------------------
\* Appending the events of a transaction that has one is appending that one.
LEMMA ConcatOne ==
    ASSUME NEW S, NEW q \in Seq(S), NEW e \in S
    PROVE  q \o <<e>> = Append(q, e)
  BY AppendIsConcat

\* What a COMMIT does to the tables: nothing, for a request whose insert found
\* the row, or one step of AtomicSettlement - an ending once more, for a reply
\* whose update found the row settled.  Who changes a status owns the row.
LEMMA CommitCases ==
    ASSUME RaceInv, NEW d \in Deliveries, pc[d] = "commit", Publish(d)
    PROVE  \/ /\ UNCHANGED <<status, legs, outbox>>
              /\ msg[d].type = "requested" /\ status[Id(d)] # "none"
           \/ /\ Ideal!Record(Id(d)) \/ Ideal!Refuse(Id(d))
              /\ holder[Id(d)] = d /\ msg[d].type = "requested"
           \/ /\ Ideal!Settle(Id(d), Verdict[Id(d)])
              /\ holder[Id(d)] = d /\ msg[d].type = "reply"
           \/ /\ Ideal!Repeat(Id(d))
              /\ status[Id(d)] = Verdict[Id(d)] /\ msg[d].type = "reply"
<1> DEFINE s == Id(d)
           w == tx[d]
<1>1. /\ s \in Settlements /\ Verdict[s] \in Outcomes
      /\ TypeOK
      /\ msg[d].type \in {"requested", "reply"}
      /\ RequestOwns(d) /\ ReplyKnows(d)
  BY HubAssumption DEF RaceInv, TypeOK, Messages, Id
<1>2. /\ status' = IF w.status = "none" THEN status ELSE [status EXCEPT ![s] = w.status]
      /\ legs' = [legs EXCEPT ![s] = [moved |-> @.moved + w.moved, back |-> @.back + w.back]]
      /\ outbox' = [outbox EXCEPT ![s] = @ \o w.events]
  BY DEF Publish
<1>3. /\ outbox[s] \in Seq(Events)
      /\ legs[s] = [moved |-> legs[s].moved, back |-> legs[s].back]
      /\ legs[s].moved \in Nat /\ legs[s].back \in Nat
  BY <1>1 DEF TypeOK
<1>4. \A e \in Events : outbox[s] \o <<e>> = Append(outbox[s], e)
  BY <1>3, ConcatOne
<1>5. CASE msg[d].type = "requested" /\ w = NoWrites /\ status[s] # "none"
  <2>1. w.status = "none" /\ w.moved = 0 /\ w.back = 0 /\ w.events = <<>>
    BY <1>5 DEF NoWrites
  <2>2. legs' = legs
    BY <1>1, <1>2, <1>3, <2>1 DEF TypeOK
  <2>3. outbox[s] \o <<>> = outbox[s]
    BY <1>3
  <2>4. outbox' = outbox
    BY <1>1, <1>2, <2>1, <2>3 DEF TypeOK
  <2> QED
    BY <1>2, <1>5, <2>1, <2>2, <2>4
<1>6. CASE /\ msg[d].type = "requested" /\ holder[s] = d /\ status[s] = "none"
           /\ w = [status |-> "PENDING", moved |-> 1, back |-> 0, events |-> <<"notify">>]
  <2>1. w.status = "PENDING" /\ w.moved = 1 /\ w.back = 0 /\ w.events = <<"notify">>
    BY <1>6
  <2>2. Ideal!Tell(s, "notify") /\ Ideal!Move(s, 1, 0)
    BY <1>2, <1>4, <2>1 DEF Ideal!Move, Ideal!Tell, Events
  <2>3. Ideal!Record(s)
    BY <1>2, <1>6, <2>1, <2>2 DEF Ideal!Record
  <2> QED
    BY <1>6, <2>3
<1>7. CASE /\ msg[d].type = "requested" /\ holder[s] = d /\ status[s] = "none"
           /\ w = [status |-> "REJECTED", moved |-> 0, back |-> 0, events |-> <<"REJECTED">>]
  <2>1. w.status = "REJECTED" /\ w.moved = 0 /\ w.back = 0 /\ w.events = <<"REJECTED">>
    BY <1>7
  <2>2. legs' = legs
    BY <1>1, <1>2, <1>3, <2>1 DEF TypeOK
  <2>3. Ideal!Tell(s, "REJECTED")
    BY <1>2, <1>4, <2>1 DEF Ideal!Tell, Events
  <2>4. Ideal!Refuse(s)
    BY <1>2, <1>7, <2>1, <2>2, <2>3 DEF Ideal!Refuse
  <2> QED
    BY <1>7, <2>4
<1>8. CASE /\ msg[d].type = "reply" /\ holder[s] = d /\ status[s] = "PENDING"
           /\ w = ReplyWrites(s, Verdict[s])
  <2>1. /\ w.status = Verdict[s] /\ w.status # "none" /\ Verdict[s] \in Events
        /\ w.moved = 0 /\ w.back = IF Verdict[s] = "REVERSED" THEN 1 ELSE 0
        /\ w.events = <<Verdict[s]>>
    BY <1>1, <1>8 DEF ReplyWrites, Outcomes, Events
  <2>2. Ideal!Tell(s, Verdict[s]) /\ Ideal!Move(s, 0, IF Verdict[s] = "REVERSED" THEN 1 ELSE 0)
    BY <1>2, <1>4, <2>1 DEF Ideal!Move, Ideal!Tell
  <2>3. Ideal!Settle(s, Verdict[s])
    BY <1>2, <1>8, <2>1, <2>2 DEF Ideal!Settle
  <2> QED
    BY <1>8, <2>3
<1>9. CASE /\ msg[d].type = "reply" /\ status[s] = Verdict[s]
           /\ w = ReplyWrites(s, "none")
  <2>1. /\ w.status = "none" /\ Verdict[s] \in Events
        /\ w.moved = 0 /\ w.back = IF Verdict[s] = "REVERSED" THEN 1 ELSE 0
        /\ w.events = <<Verdict[s]>>
    BY <1>1, <1>9 DEF ReplyWrites, Outcomes, Events
  <2>2. Ideal!Tell(s, Verdict[s]) /\ Ideal!Move(s, 0, IF Verdict[s] = "REVERSED" THEN 1 ELSE 0)
    BY <1>2, <1>4, <2>1 DEF Ideal!Move, Ideal!Tell
  <2>3. Ideal!Repeat(s)
    BY <1>1, <1>2, <1>9, <2>1, <2>2 DEF Ideal!Repeat, Outcomes
  <2> QED
    BY <1>9, <2>3
<1> QED
  BY <1>1, <1>5, <1>6, <1>7, <1>8, <1>9 DEF RequestOwns, ReplyKnows, RequestWrites

\* A step of AtomicSettlement moves one settlement, forward, and what the
\* banks are told of an ending is how it ends.
LEMMA IdealStep ==
    ASSUME TypeOK, EndingsHold, NEW s \in Settlements, Verdict[s] \in Outcomes,
           \/ Ideal!Record(s) \/ Ideal!Refuse(s) \/ Ideal!Settle(s, Verdict[s])
           \/ Ideal!Repeat(s)
    PROVE  /\ status' \in [Settlements -> RowStatuses]
           /\ legs' \in [Settlements -> [moved: Nat, back: Nat]]
           /\ outbox' \in [Settlements -> Seq(Events)]
           /\ \A q \in Settlements \ {s} : status'[q] = status[q]
           /\ status'[s] # "none"
           /\ status[s] \in Settled => status'[s] = status[s]
           /\ status[s] # "none" => status'[s] \in Settled
           /\ EndingsHold'
<1> DEFINE Grows(e) == outbox' = [outbox EXCEPT ![s] = Append(@, e)]
<1>1. /\ legs[s].moved \in Nat /\ legs[s].back \in Nat /\ outbox[s] \in Seq(Events)
      /\ status[s] \in RowStatuses
  BY DEF TypeOK
<1>2. \A e \in Events : Append(outbox[s], e) \in Seq(Events)
  BY <1>1
<1>3. ASSUME NEW e \in Events, Grows(e)
      PROVE  /\ outbox' \in [Settlements -> Seq(Events)]
             /\ \A q \in Settlements \ {s} : outbox'[q] = outbox[q]
             /\ \A i \in DOMAIN outbox'[s] : \/ outbox'[s][i] = e
                                             \/ i \in DOMAIN outbox[s] /\ outbox'[s][i] = outbox[s][i]
  <2>1. outbox'[s] = Append(outbox[s], e) /\ outbox' \in [Settlements -> Seq(Events)]
    BY <1>2, <1>3 DEF TypeOK
  <2>2. \A i \in DOMAIN Append(outbox[s], e) :
            \/ Append(outbox[s], e)[i] = e
            \/ i \in DOMAIN outbox[s] /\ Append(outbox[s], e)[i] = outbox[s][i]
    BY <1>1
  <2> QED
    BY <1>3, <2>1, <2>2 DEF TypeOK
<1>4. /\ status[s] \in Outcomes => status[s] = Verdict[s]
      /\ legs[s].moved = IF status[s] \in {"none", "REJECTED"} THEN 0 ELSE 1
      /\ legs[s].back > 0 <=> status[s] = "REVERSED"
      /\ \A i \in DOMAIN outbox[s] : outbox[s][i] \in Settled => outbox[s][i] = status[s]
  BY DEF EndingsHold
<1> DEFINE Goes(e, there, back, v) ==
              /\ Grows(e)
              /\ legs' = [legs EXCEPT ![s] = [moved |-> @.moved + there, back |-> @.back + back]]
              /\ status' = [status EXCEPT ![s] = v]
              /\ \/ status[s] = "none" /\ v = "PENDING" /\ e = "notify" /\ there = 1 /\ back = 0
                 \/ status[s] = "none" /\ v = "REJECTED" /\ e = "REJECTED" /\ there = 0 /\ back = 0
                 \/ /\ status[s] = "PENDING" \/ status[s] = Verdict[s]
                    /\ v = Verdict[s] /\ e = v /\ there = 0
                    /\ back = IF v = "REVERSED" THEN 1 ELSE 0
<1>5. PICK e \in Events, there \in 0..1, back \in 0..1, v \in RowStatuses : Goes(e, there, back, v)
  <2>1. CASE Ideal!Record(s)
    <3>1. Goes("notify", 1, 0, "PENDING")
      BY <2>1 DEF Ideal!Record, Ideal!Move, Ideal!Tell
    <3>2. "notify" \in Events /\ 1 \in 0..1 /\ 0 \in 0..1 /\ "PENDING" \in RowStatuses
      BY DEF Events, RowStatuses
    <3> HIDE DEF Goes
    <3> QED
      BY <3>1, <3>2
  <2>2. CASE Ideal!Refuse(s)
    <3>1. legs = [legs EXCEPT ![s] = [moved |-> @.moved + 0, back |-> @.back + 0]]
      BY <1>1 DEF TypeOK
    <3>2. Goes("REJECTED", 0, 0, "REJECTED")
      BY <2>2, <3>1 DEF Ideal!Refuse, Ideal!Tell
    <3>3. "REJECTED" \in Events /\ 0 \in 0..1 /\ "REJECTED" \in RowStatuses
      BY DEF Events, RowStatuses
    <3> HIDE DEF Goes
    <3> QED
      BY <3>2, <3>3
  <2> DEFINE back == IF Verdict[s] = "REVERSED" THEN 1 ELSE 0
  <2>3. back \in 0..1 /\ 0 \in 0..1 /\ Verdict[s] \in Events /\ Verdict[s] \in RowStatuses
    BY DEF Events, RowStatuses, Outcomes
  <2>4. CASE Ideal!Settle(s, Verdict[s])
    <3>1. Goes(Verdict[s], 0, back, Verdict[s])
      BY <2>4 DEF Ideal!Settle, Ideal!Move, Ideal!Tell
    <3> HIDE DEF Goes, back
    <3> QED
      BY <2>3, <3>1
  <2>5. CASE Ideal!Repeat(s)
    <3>1. status[s] = Verdict[s]
      BY <1>4, <2>5 DEF Ideal!Repeat, Outcomes
    <3>2. status = [status EXCEPT ![s] = Verdict[s]]
      BY <3>1 DEF TypeOK
    <3>3. Goes(Verdict[s], 0, back, Verdict[s])
      BY <2>5, <3>1, <3>2 DEF Ideal!Repeat, Ideal!Move, Ideal!Tell
    <3> HIDE DEF Goes, back
    <3> QED
      BY <2>3, <3>3
  <2> QED
    BY <2>1, <2>2, <2>4, <2>5
<1>6. /\ status'[s] = v /\ status' \in [Settlements -> RowStatuses]
      /\ \A q \in Settlements \ {s} : status'[q] = status[q] /\ legs'[q] = legs[q]
      /\ legs'[s].moved = legs[s].moved + there /\ legs'[s].back = legs[s].back + back
      /\ legs' \in [Settlements -> [moved: Nat, back: Nat]]
  BY <1>1, <1>5 DEF TypeOK
<1>7. \A i \in DOMAIN outbox'[s] : outbox'[s][i] \in Settled => outbox'[s][i] = v
  BY <1>3, <1>4, <1>5 DEF Settled, Outcomes
<1>8. EndingsHold'
  <2> SUFFICES ASSUME NEW q \in Settlements
      PROVE  /\ status'[q] \in Outcomes => status'[q] = Verdict[q]
             /\ legs'[q].moved = IF status'[q] \in {"none", "REJECTED"} THEN 0 ELSE 1
             /\ legs'[q].back > 0 <=> status'[q] = "REVERSED"
             /\ \A i \in DOMAIN outbox'[q] : outbox'[q][i] \in Settled => outbox'[q][i] = status'[q]
    BY DEF EndingsHold
  <2>1. CASE q # s
    BY <1>3, <1>5, <1>6, <2>1 DEF EndingsHold
  <2>2. CASE q = s
    BY <1>1, <1>4, <1>5, <1>6, <1>7, <2>2 DEF Outcomes
  <2> QED
    BY <2>1, <2>2
<1> QED
  BY <1>3, <1>5, <1>6, <1>8 DEF Settled, Outcomes

\* What a COMMIT makes visible takes one settlement one step further, and no
\* other delivery relied on where it was.
LEMMA PublishStep ==
    ASSUME RaceInv, NEW d \in Deliveries, pc[d] = "commit", Publish(d),
           \E r \in {"acked", "dead", "unacked"} : End(d, r),
           UNCHANGED <<banks, msg, known>>, failures' \in 0..MaxFailures
    PROVE  RaceInv'
<1> DEFINE s == Id(d)
<1>1. /\ s \in Settlements /\ Verdict[s] \in Outcomes
      /\ TypeOK
      /\ EndTx(d)
      /\ \A e \in Deliveries : /\ Id(e)' = Id(e) /\ Id(e) \in Settlements
                               /\ msg[e].type \in {"requested", "reply"}
  BY HubAssumption DEF RaceInv, TypeOK, Messages, Id, Publish
<1>2. /\ pc'[d] = "done"
      /\ \A e \in Deliveries \ {d} : pc'[e] = pc[e] /\ result'[e] = result[e]
      /\ pc' \in [Deliveries -> {"idle", "bank", "insert", "write", "find", "settle",
                                  "commit", "done"}]
      /\ result' \in [Deliveries -> {"none", "acked", "dead", "unacked"}]
  BY <1>1 DEF End, Goto, TypeOK
<1>3. \A e \in Deliveries \ {d}, q \in Settlements : holder[q] = e <=> holder'[q] = e
  BY <1>1, EndTxTypes, HubAssumption
<1>4. RequestOwns(d)' /\ ReplyKnows(d)'
  BY <1>2 DEF RequestOwns, ReplyKnows, AtRequest, AtReply
<1>5. CASE /\ UNCHANGED <<status, legs, outbox>>
           /\ msg[d].type = "requested" /\ status[s] # "none"
  <2>1. TypeOK'
    BY <1>1, <1>2, <1>5, EndTxTypes DEF TypeOK
  <2> QED
    BY <1>1, <1>2, <1>3, <1>4, <1>5, <2>1, EndTxTypes, QuietStep
<1>6. CASE \/ /\ Ideal!Record(s) \/ Ideal!Refuse(s)
              /\ holder[s] = d /\ msg[d].type = "requested"
           \/ /\ Ideal!Settle(s, Verdict[s])
              /\ holder[s] = d /\ msg[d].type = "reply"
           \/ /\ Ideal!Repeat(s)
              /\ status[s] = Verdict[s] /\ msg[d].type = "reply"
  <2>1. /\ status' \in [Settlements -> RowStatuses]
        /\ legs' \in [Settlements -> [moved: Nat, back: Nat]]
        /\ outbox' \in [Settlements -> Seq(Events)]
        /\ \A q \in Settlements \ {s} : status'[q] = status[q]
        /\ status'[s] # "none"
        /\ status[s] \in Settled => status'[s] = status[s]
        /\ status[s] # "none" => status'[s] \in Settled
        /\ EndingsHold'
    BY <1>1, <1>6, IdealStep DEF RaceInv
  <2>2. /\ holder[s] = d \/ status'[s] = status[s]
        /\ msg[d].type = "reply" => status[s] \in {"PENDING"} \cup Outcomes /\ status'[s] = Verdict[s]
    <3>1. CASE Ideal!Record(s) \/ Ideal!Refuse(s)
      BY <1>6, <3>1 DEF Ideal!Record, Ideal!Refuse, Ideal!Settle, Ideal!Repeat
    <3>2. CASE Ideal!Settle(s, Verdict[s])
      BY <1>1, <1>6, <3>2 DEF Ideal!Record, Ideal!Refuse, Ideal!Settle, Ideal!Repeat, TypeOK
    <3>3. CASE Ideal!Repeat(s)
      BY <1>1, <1>6, <3>3 DEF Ideal!Record, Ideal!Refuse, Ideal!Settle, Ideal!Repeat, TypeOK, Outcomes
    <3> QED
      BY <1>6, <3>1, <3>2, <3>3
  <2>3. TypeOK'
    BY <1>1, <1>2, <2>1, EndTxTypes DEF TypeOK
  <2>4. ASSUME NEW e \in Deliveries \ {d} PROVE RequestOwns(e)' /\ ReplyKnows(e)'
    <3>1. /\ RequestOwns(e) /\ ReplyKnows(e) /\ msg'[e] = msg[e]
          /\ Id(e)' = Id(e) /\ Id(e) \in Settlements /\ msg[e].type \in {"requested", "reply"}
      BY <1>1 DEF RaceInv
    <3>2. /\ pc'[e] = pc[e] /\ tx'[e] = tx[e] /\ known'[e] = known[e]
          /\ holder[Id(e)] = e <=> holder'[Id(e)] = e
      BY <1>1, <1>2, <1>3, EndTxTypes
    <3>3. CASE status'[Id(e)] = status[Id(e)]
      BY <3>1, <3>2, <3>3 DEF RequestOwns, ReplyKnows, ReplyWrites
    <3>4. CASE status'[Id(e)] # status[Id(e)]
      <4>1. Id(e) = s /\ holder[s] = d
        BY <2>1, <2>2, <3>1, <3>4
      <4>2. RequestOwns(e)'
        BY <2>1, <3>1, <3>2, <4>1 DEF RequestOwns
      <4>3. msg[e].type = "reply" /\ pc[e] \in {"settle", "commit"} => status'[s] = Verdict[s]
        <5> SUFFICES ASSUME msg[e].type = "reply", pc[e] \in {"settle", "commit"}
                     PROVE  status'[s] = Verdict[s]
          OBVIOUS
        <5>1. status[s] # "none"
          BY <1>1, <3>1, <4>1 DEF ReplyKnows, Outcomes
        <5>2. msg[d].type = "reply"
          BY <1>6, <5>1 DEF Ideal!Record, Ideal!Refuse
        <5> QED
          BY <2>2, <5>2
      <4>4. ReplyKnows(e)'
        BY <3>1, <3>2, <3>4, <4>1, <4>3, <1>1 DEF ReplyKnows, ReplyWrites, AtReply, Settled
      <4> QED
        BY <4>2, <4>4
    <3> QED
      BY <3>3, <3>4
  <2>5. HoldersNeverWait'
    <3>1. \A q \in Settlements : holder'[q] # d
      BY <1>1, EndTxTypes
    <3> QED
      BY <1>2, <1>3, <3>1 DEF RaceInv, HoldersNeverWait
  <2>6. AckMeansDone'
    <3> SUFFICES ASSUME NEW e \in Deliveries, result'[e] = "acked"
                 PROVE  status'[Id(e)] \notin
                           (IF msg[e].type = "reply" THEN {"none", "PENDING"} ELSE {"none"})
      BY <1>1 DEF AckMeansDone
    <3>1. CASE e = d
      BY <1>1, <2>1, <2>2, <3>1 DEF Outcomes
    <3>2. CASE e # d
      <4>1. status[Id(e)] \notin
                (IF msg[e].type = "reply" THEN {"none", "PENDING"} ELSE {"none"})
        BY <1>2, <3>2 DEF RaceInv, AckMeansDone
      <4>2. CASE Id(e) # s
        BY <1>1, <2>1, <4>1, <4>2
      <4>3. CASE Id(e) = s
        BY <1>1, <2>1, <4>1, <4>3 DEF Settled, Outcomes
      <4> QED
        BY <4>2, <4>3
    <3> QED
      BY <3>1, <3>2
  <2> QED
    BY <1>4, <2>1, <2>3, <2>4, <2>5, <2>6 DEF RaceInv
<1> QED
  BY <1>5, <1>6, CommitCases

LEMMA CommitStep ==
    ASSUME RaceInv, NEW d \in Deliveries, Commit(d) \/ CommitUnheard(d)
    PROVE  RaceInv'
<1>1. failures' \in 0..MaxFailures
  BY HubAssumption DEF RaceInv, TypeOK, Commit, CommitUnheard
<1> QED
  BY <1>1, PublishStep DEF Commit, CommitUnheard

LEMMA FailStep ==
    ASSUME RaceInv, NEW d \in Deliveries, Fail(d)
    PROVE  RaceInv'
<1>1. failures' \in 0..MaxFailures
  BY HubAssumption DEF RaceInv, TypeOK, Fail
<1> QED
  BY <1>1, RollbackStep DEF Fail

LEMMA StepRace == RaceInv /\ [Next]_vars => RaceInv'
<1> SUFFICES ASSUME RaceInv, [Next]_vars PROVE RaceInv'
  OBVIOUS
<1>1. ASSUME NEW b \in Banks, RegisterBank(b) PROVE RaceInv'
  BY <1>1, RegisterStep
<1>2. ASSUME NEW d \in Deliveries, Deliver(d) PROVE RaceInv'
  BY <1>2, DeliverStep
<1>3. ASSUME NEW d \in Deliveries, FindBank(d) PROVE RaceInv'
  BY <1>3, FindBankStep
<1>4. ASSUME NEW d \in Deliveries, InsertSettlement(d) PROVE RaceInv'
  BY <1>4, InsertSettlementStep
<1>5. ASSUME NEW d \in Deliveries, WriteRequested(d) PROVE RaceInv'
  BY <1>5, WriteRequestedStep
<1>6. ASSUME NEW d \in Deliveries, FindSettlement(d) PROVE RaceInv'
  BY <1>6, FindSettlementStep
<1>7. ASSUME NEW d \in Deliveries, Settle(d) PROVE RaceInv'
  BY <1>7, SettleStep
<1>8. ASSUME NEW d \in Deliveries, Commit(d) \/ CommitUnheard(d) PROVE RaceInv'
  BY <1>8, CommitStep
<1>9. ASSUME NEW d \in Deliveries, Fail(d) PROVE RaceInv'
  BY <1>9, FailStep
<1>10. CASE UNCHANGED vars
  BY <1>10 DEF vars, tables, RaceInv, TypeOK, HoldersNeverWait, RequestOwns, ReplyKnows,
               ReplyWrites, Id, EndingsHold, AckMeansDone
<1> QED
  BY <1>1, <1>2, <1>3, <1>4, <1>5, <1>6, <1>7, <1>8, <1>9, <1>10 DEF Next, Handle

LEMMA RaceInvariant == Spec => []RaceInv
<1> QED
  BY InitRace, StepRace, PTL DEF Spec

\* The guard of a delivery's next step, Handle(d).
Ready(d) ==
    \/ pc[d] \in {"bank", "write", "find", "commit"}
    \/ pc[d] = "insert" /\ (Refused(d) \/ RowFree(d))
    \/ pc[d] = "settle" /\ RowFree(d)

\* A delivery waits for a row only while the delivery that wrote it has a next
\* step to take, which waits for nothing: no circle, and no queue that grows.
NobodyStuck ==
    \A d \in Deliveries : pc[d] \notin {"idle", "done"} =>
        Ready(d) \/ \E e \in Deliveries : holder[Id(d)] = e /\ Ready(e)

\* What the tables say changes in steps of AtomicSettlement.
LEMMA StepIsIdeal ==
    ASSUME RaceInv, [Next]_vars
    PROVE  \/ UNCHANGED <<status, legs, outbox>>
           \/ \E d \in Deliveries :
                 \/ Ideal!Record(Id(d)) \/ Ideal!Refuse(Id(d)) \/ Ideal!Settle(Id(d), Verdict[Id(d)])
                 \/ /\ Ideal!Repeat(Id(d))
                    /\ pc[d] = "commit" /\ msg[d].type = "reply" /\ status[Id(d)] = Verdict[Id(d)]
<1>1. ASSUME NEW d \in Deliveries, Commit(d) \/ CommitUnheard(d)
      PROVE  \/ UNCHANGED <<status, legs, outbox>>
             \/ Ideal!Record(Id(d)) \/ Ideal!Refuse(Id(d)) \/ Ideal!Settle(Id(d), Verdict[Id(d)])
             \/ /\ Ideal!Repeat(Id(d))
                /\ pc[d] = "commit" /\ msg[d].type = "reply" /\ status[Id(d)] = Verdict[Id(d)]
  <2>1. pc[d] = "commit" /\ Publish(d)
    BY <1>1 DEF Commit, CommitUnheard
  <2> QED
    BY <2>1, CommitCases
<1>2. ASSUME NEW d \in Deliveries,
             \/ Deliver(d) \/ FindBank(d) \/ InsertSettlement(d) \/ WriteRequested(d)
             \/ FindSettlement(d) \/ Settle(d) \/ Fail(d)
      PROVE  UNCHANGED <<status, legs, outbox>>
  BY <1>2 DEF Deliver, FindBank, InsertSettlement, WriteRequested, FindSettlement, Settle, Fail,
              tables
<1>3. ASSUME NEW b \in Banks, RegisterBank(b) PROVE UNCHANGED <<status, legs, outbox>>
  BY <1>3 DEF RegisterBank
<1>4. CASE UNCHANGED vars
  BY <1>4 DEF vars, tables
<1> QED
  BY <1>1, <1>2, <1>3, <1>4 DEF Next, Handle

LEMMA IdsTyped ==
    ASSUME RaceInv, NEW d \in Deliveries
    PROVE  Id(d) \in Settlements /\ Verdict[Id(d)] \in Outcomes
  BY HubAssumption DEF RaceInv, TypeOK, Messages, Id

----------------------------------------------------------------------------
\* The Hub's tables, transactions and deliveries keep their types (TypeOK).
THEOREM TypeCorrect == Spec => []TypeOK
<1>1. RaceInv => TypeOK
  BY DEF RaceInv
<1> QED
  BY <1>1, RaceInvariant, PTL

\* No message is acknowledged before it is dealt with for good (AckMeansDone).
THEOREM AcksAlwaysDone == Spec => []AckMeansDone
<1>1. RaceInv => AckMeansDone
  BY DEF RaceInv
<1> QED
  BY <1>1, RaceInvariant, PTL

\* However many replies are handled at once: a settlement ends as the payee
\* bank answered, no bank is told another ending, reserves are moved once and
\* come back only if it is REVERSED (EndingsHold).
THEOREM EndingsAlwaysHold == Spec => []EndingsHold
<1>1. RaceInv => EndingsHold
  BY DEF RaceInv
<1> QED
  BY <1>1, RaceInvariant, PTL

\* settlements.service.ts:119-143: all that the status read before the
\* transaction can do wrong is to book and tell an ending once more.
THEOREM RacesOnlyRepeat == Spec => RepeatingSpec
<1> DEFINE Step == Ideal!Next \/ \E s \in Settlements : Ideal!Repeat(s)
<1>1. Init => Ideal!Init
  BY DEF Init, Ideal!Init
<1>2. RaceInv /\ [Next]_vars => [Step]_(Ideal!vars)
  <2> SUFFICES ASSUME RaceInv, [Next]_vars PROVE Step \/ UNCHANGED <<status, legs, outbox>>
    BY DEF Ideal!vars
  <2>1. ASSUME NEW d \in Deliveries,
               \/ Ideal!Record(Id(d)) \/ Ideal!Refuse(Id(d)) \/ Ideal!Settle(Id(d), Verdict[Id(d)])
               \/ Ideal!Repeat(Id(d))
        PROVE  Step
    BY <2>1, IdsTyped DEF Ideal!Next, Outcomes
  <2> QED
    BY <2>1, StepIsIdeal
<1> QED
  BY <1>1, <1>2, RaceInvariant, PTL DEF Spec, RepeatingSpec, Ideal!RepeatingSpec

\* settlements.service.ts:123: the status of a settled settlement never
\* changes again, whatever reads of it are stale.
THEOREM StatusStaysFinal ==
    Spec => [][\A s \in Settlements : status[s] \in Settled => status'[s] = status[s]]_vars
<1> DEFINE Final == \A s \in Settlements : status[s] \in Settled => status'[s] = status[s]
<1>1. RaceInv /\ [Next]_vars => [Final]_vars
  <2> SUFFICES ASSUME RaceInv, [Next]_vars PROVE Final
    OBVIOUS
  <2>1. CASE UNCHANGED <<status, legs, outbox>>
    BY <2>1
  <2>2. ASSUME NEW d \in Deliveries,
               \/ Ideal!Record(Id(d)) \/ Ideal!Refuse(Id(d)) \/ Ideal!Settle(Id(d), Verdict[Id(d)])
               \/ Ideal!Repeat(Id(d))
        PROVE  Final
    BY <2>2, IdsTyped, IdealStep DEF RaceInv
  <2> QED
    BY <2>1, <2>2, StepIsIdeal
<1> QED
  BY <1>1, RaceInvariant, PTL DEF Spec

\* No set of deliveries wait for one another (the safety half of
\* EveryDeliveryEnds), however many are handled at once.
THEOREM NobodyWaitsInACircle == Spec => []NobodyStuck
<1>1. RaceInv => NobodyStuck
  <2> SUFFICES ASSUME RaceInv, NEW d \in Deliveries, pc[d] \notin {"idle", "done"}
               PROVE  Ready(d) \/ \E e \in Deliveries : holder[Id(d)] = e /\ Ready(e)
    BY DEF NobodyStuck
  <2>1. /\ Id(d) \in Settlements /\ holder[Id(d)] \in Deliveries \cup {None}
        /\ pc[d] \in {"bank", "insert", "write", "find", "settle", "commit"}
    BY IdsTyped DEF RaceInv, TypeOK
  <2>2. CASE holder[Id(d)] = None
    BY <2>1, <2>2 DEF Ready, RowFree
  <2>3. CASE holder[Id(d)] \in Deliveries
    BY <2>1, <2>3 DEF Ready, RaceInv, HoldersNeverWait
  <2> QED
    BY <2>1, <2>2, <2>3
<1> QED
  BY <1>1, RaceInvariant, PTL

----------------------------------------------------------------------------
(***************************************************************************)
(* How often an ending can be repeated.                                    *)
(***************************************************************************)
\* Deliveries that read a settlement as PENDING before their transaction and
\* have yet to book and tell its ending.
Started(s) ==
    {d \in Deliveries : pc[d] \in {"settle", "commit"}
                        /\ msg[d] = [type |-> "reply", settlement |-> s]}

\* The ending of a settlement is told at least once and at most as often as
\* replies of it are handled at once, and a reversal is booked exactly as
\* often as it is told.
EndingsCounted ==
    \A s \in Settlements :
        /\ status[s] = "none" => outbox[s] = <<>>
        /\ status[s] \in {"PENDING", "REJECTED"} => Len(outbox[s]) = 1
        /\ status[s] \in Outcomes => Len(outbox[s]) - 1 \in 1..ReplyHandlers
        /\ legs[s].back = IF status[s] = "REVERSED" THEN Len(outbox[s]) - 1 ELSE 0

\* Once a settlement has ended nobody reads it as PENDING any more: what was
\* told and what may still be told are what was handled at that time.
RepeatInv ==
    /\ \A s \in Settlements :
          /\ Cardinality(Replying(s)) <= ReplyHandlers
          /\ status[s] \in Outcomes => Len(outbox[s]) - 1 + Cardinality(Started(s)) <= ReplyHandlers
    /\ EndingsCounted

LEMMA HandlersFinite ==
    ASSUME NEW s \in Settlements
    PROVE  /\ IsFiniteSet(Replying(s)) /\ Cardinality(Replying(s)) \in Nat
           /\ IsFiniteSet(Started(s)) /\ Cardinality(Started(s)) \in Nat
           /\ Cardinality(Started(s)) <= Cardinality(Replying(s))
<1>1. Replying(s) \subseteq Deliveries /\ Started(s) \subseteq Replying(s)
  BY DEF Replying, Started
<1>2. IsFiniteSet(Replying(s))
  BY <1>1, HubAssumption, FS_Subset
<1>3. IsFiniteSet(Started(s)) /\ Cardinality(Started(s)) <= Cardinality(Replying(s))
  BY <1>1, <1>2, FS_Subset
<1> QED
  BY <1>2, <1>3, FS_CardinalityType

LEMMA InitRepeat == Init => RepeatInv
<1> SUFFICES ASSUME Init, NEW s \in Settlements
             PROVE  /\ Cardinality(Replying(s)) <= ReplyHandlers
                    /\ status[s] = "none" /\ outbox[s] = <<>> /\ legs[s].back = 0
  BY DEF RepeatInv, EndingsCounted, Outcomes
<1>1. Replying(s) = {}
  BY DEF Init, Replying
<1>2. Cardinality(Replying(s)) = 0
  BY <1>1, FS_EmptySet
<1> QED
  BY <1>2, HubAssumption DEF Init

\* A step that leaves the tables alone, and lets nobody in that would repeat
\* an ending.
LEMMA RepeatQuiet ==
    ASSUME RepeatInv, UNCHANGED <<status, legs, outbox>>,
           \A s \in Settlements : Cardinality(Replying(s)') <= ReplyHandlers,
           \A s \in Settlements : status[s] \in Outcomes => Started(s)' \subseteq Started(s)
    PROVE  RepeatInv'
<1>1. EndingsCounted'
  BY DEF RepeatInv, EndingsCounted
<1>2. ASSUME NEW s \in Settlements, status[s] \in Outcomes
      PROVE  Len(outbox[s]) - 1 + Cardinality(Started(s)') <= ReplyHandlers
  <2>1. IsFiniteSet(Started(s)') /\ Cardinality(Started(s)') <= Cardinality(Started(s))
    BY <1>2, HandlersFinite, FS_Subset
  <2>2. Cardinality(Started(s)') \in Nat /\ Cardinality(Started(s)) \in Nat
    BY <2>1, HandlersFinite, FS_CardinalityType
  <2>3. /\ Len(outbox[s]) - 1 \in 1..ReplyHandlers
        /\ Len(outbox[s]) - 1 + Cardinality(Started(s)) <= ReplyHandlers
    BY <1>2 DEF RepeatInv, EndingsCounted
  <2> DEFINE n == Len(outbox[s]) - 1
             a == Cardinality(Started(s))
             b == Cardinality(Started(s)')
  <2>4. n \in Int /\ a \in Nat /\ b \in Nat /\ b <= a /\ n + a <= ReplyHandlers /\ ReplyHandlers \in Nat
    BY <2>1, <2>2, <2>3, HubAssumption
  <2> HIDE DEF n, a, b
  <2>5. n + b <= ReplyHandlers
    BY <2>4
  <2> QED
    BY <2>5 DEF n, b
<1>3. \A s \in Settlements : Cardinality(Replying(s))' = Cardinality(Replying(s)')
  OBVIOUS
<1> QED
  BY <1>1, <1>2, <1>3 DEF RepeatInv

\* A step of one delivery that adds nobody to those who handle a reply.
LEMMA RepliesOnlyLeave ==
    ASSUME RaceInv, RepeatInv, NEW d \in Deliveries, UNCHANGED msg,
           pc[d] \notin {"idle", "done"},
           \A e \in Deliveries \ {d} : pc'[e] = pc[e]
    PROVE  \A s \in Settlements : Cardinality(Replying(s)') <= ReplyHandlers
<1> SUFFICES ASSUME NEW s \in Settlements
             PROVE  Cardinality(Replying(s)') <= ReplyHandlers
  OBVIOUS
<1>1. Replying(s)' \subseteq Replying(s)
  BY DEF Replying
<1>2. /\ IsFiniteSet(Replying(s)') /\ Cardinality(Replying(s)') <= Cardinality(Replying(s))
      /\ Cardinality(Replying(s)) \in Nat
  BY <1>1, HandlersFinite, FS_Subset
<1>3. Cardinality(Replying(s)') \in Nat /\ Cardinality(Replying(s)) <= ReplyHandlers
  BY <1>2, FS_CardinalityType DEF RepeatInv
<1> QED
  BY <1>2, <1>3, HubAssumption

LEMMA RepeatDeliver ==
    ASSUME RaceInv, RepeatInv, NEW d \in Deliveries, Deliver(d)
    PROVE  RepeatInv'
<1>1. /\ UNCHANGED <<status, legs, outbox>> /\ msg' = msg
      /\ pc[d] = "idle" /\ pc'[d] \in {"bank", "find"}
      /\ \A e \in Deliveries \ {d} : pc'[e] = pc[e]
  BY DEF Deliver, tables, Goto, RaceInv, TypeOK
<1>2. \A s \in Settlements : Started(s)' \subseteq Started(s)
  BY <1>1 DEF Started
<1>3. ASSUME NEW s \in Settlements PROVE Cardinality(Replying(s)') <= ReplyHandlers
  <2>1. /\ IsFiniteSet(Replying(s)) /\ Cardinality(Replying(s)) \in Nat
        /\ Cardinality(Replying(s)) <= ReplyHandlers /\ ReplyHandlers \in Nat
    BY HandlersFinite, HubAssumption DEF RepeatInv
  <2>2. CASE msg[d] = [type |-> "reply", settlement |-> s]
    <3>1. Cardinality(Replying(s)) < ReplyHandlers
      BY <2>2 DEF Deliver, Id
    <3>2. Replying(s)' = Replying(s) \cup {d} /\ d \notin Replying(s)
      BY <1>1, <2>2 DEF Replying
    <3>3. Cardinality(Replying(s)') = Cardinality(Replying(s)) + 1
      BY <2>1, <3>2, FS_AddElement
    <3> QED
      BY <2>1, <3>1, <3>3
  <2>3. CASE msg[d] # [type |-> "reply", settlement |-> s]
    <3>1. Replying(s)' = Replying(s)
      BY <1>1, <2>3 DEF Replying
    <3> QED
      BY <2>1, <3>1
  <2> QED
    BY <2>2, <2>3
<1> QED
  BY <1>1, <1>2, <1>3, RepeatQuiet

\* A COMMIT: the reply that books and tells the ending is one fewer to do so.
LEMMA RepeatCommit ==
    ASSUME RaceInv, RepeatInv, NEW d \in Deliveries, pc[d] = "commit", Publish(d),
           \E r \in {"acked", "dead", "unacked"} : End(d, r), UNCHANGED msg
    PROVE  RepeatInv'
<1> SUFFICES ASSUME NEW s \in Settlements, s = Id(d) PROVE RepeatInv'
  BY IdsTyped
<1>1. Verdict[s] \in Outcomes /\ msg[d] \in Messages /\ TypeOK
  BY IdsTyped DEF RaceInv, TypeOK
<1>2. pc'[d] = "done" /\ \A e \in Deliveries \ {d} : pc'[e] = pc[e]
  BY <1>1 DEF End, Goto, TypeOK
<1>3. \A q \in Settlements : Cardinality(Replying(q)') <= ReplyHandlers
  BY <1>2, RepliesOnlyLeave
<1>4. \A q \in Settlements : Started(q)' \subseteq Started(q)
  BY <1>2 DEF Started
<1>5. CASE UNCHANGED <<status, legs, outbox>>
  BY <1>3, <1>4, <1>5, RepeatQuiet
<1>6. ASSUME NEW q \in Settlements \ {s},
             status'[q] = status[q], legs'[q] = legs[q], outbox'[q] = outbox[q]
      PROVE  /\ status'[q] = "none" => outbox'[q] = <<>>
             /\ status'[q] \in {"PENDING", "REJECTED"} => Len(outbox'[q]) = 1
             /\ status'[q] \in Outcomes => Len(outbox'[q]) - 1 \in 1..ReplyHandlers
             /\ legs'[q].back = IF status'[q] = "REVERSED" THEN Len(outbox'[q]) - 1 ELSE 0
             /\ status'[q] \in Outcomes =>
                   Len(outbox'[q]) - 1 + Cardinality(Started(q)') <= ReplyHandlers
  <2>1. Started(q)' = Started(q)
    BY <1>1, <1>2, <1>6 DEF Started, Id, Messages
  <2> QED
    BY <1>6, <2>1 DEF RepeatInv, EndingsCounted
<1>7. /\ outbox[s] \in Seq(Events) /\ Len(outbox[s]) \in Nat /\ legs[s].back \in Nat
      /\ \A e \in Events : Len(Append(outbox[s], e)) = Len(outbox[s]) + 1
  BY <1>1 DEF TypeOK
<1>8. CASE Ideal!Record(s) \/ Ideal!Refuse(s)
  <2>1. /\ status[s] = "none" /\ status'[s] \in {"PENDING", "REJECTED"}
        /\ \A q \in Settlements \ {s} : /\ status'[q] = status[q] /\ legs'[q] = legs[q]
                                        /\ outbox'[q] = outbox[q]
        /\ \E e \in Events : outbox'[s] = Append(outbox[s], e)
        /\ legs'[s].back = legs[s].back
    <3>1. CASE Ideal!Record(s)
      <4>1. /\ status' = [status EXCEPT ![s] = "PENDING"]
            /\ outbox' = [outbox EXCEPT ![s] = Append(@, "notify")]
            /\ legs' = [legs EXCEPT ![s] = [moved |-> @.moved + 1, back |-> @.back + 0]]
        BY <3>1 DEF Ideal!Record, Ideal!Tell, Ideal!Move
      <4>2. "notify" \in Events /\ legs[s].back + 0 = legs[s].back
        BY <1>7 DEF Events
      <4>3. legs'[s].back = legs[s].back + 0
        BY <1>1, <4>1 DEF TypeOK
      <4> QED
        BY <1>1, <3>1, <4>1, <4>2, <4>3 DEF TypeOK, Ideal!Record
    <3>2. CASE Ideal!Refuse(s)
      <4>1. "REJECTED" \in Events
        BY DEF Events
      <4> QED
        BY <1>1, <3>2, <4>1 DEF Ideal!Refuse, Ideal!Tell, TypeOK
    <3> QED
      BY <1>8, <3>1, <3>2
  <2>2. Len(outbox[s]) = 0 /\ legs[s].back = 0
    BY <1>1, <2>1 DEF RepeatInv, EndingsCounted
  <2>3. /\ Len(outbox'[s]) = 1 /\ legs'[s].back = 0
        /\ status'[s] # "none" /\ status'[s] \notin Outcomes
    BY <1>7, <2>1, <2>2 DEF Outcomes
  <2>4. EndingsCounted'
    BY <1>6, <2>1, <2>3 DEF EndingsCounted, Outcomes
  <2>5. \A q \in Settlements : status'[q] \in Outcomes =>
            Len(outbox'[q]) - 1 + Cardinality(Started(q)') <= ReplyHandlers
    BY <1>6, <2>1, <2>3
  <2> QED
    BY <1>3, <2>4, <2>5 DEF RepeatInv
<1>9. CASE /\ Ideal!Settle(s, Verdict[s]) \/ (Ideal!Repeat(s) /\ status[s] = Verdict[s])
           /\ msg[d].type = "reply"
  <2> DEFINE back == IF Verdict[s] = "REVERSED" THEN 1 ELSE 0
             n == Len(outbox[s]) - 1
             k == Cardinality(Started(s))
             k1 == Cardinality(Started(s)')
  <2>1. /\ status'[s] = Verdict[s] /\ status[s] \in {"PENDING", Verdict[s]}
        /\ \A q \in Settlements \ {s} : /\ status'[q] = status[q] /\ legs'[q] = legs[q]
                                        /\ outbox'[q] = outbox[q]
        /\ outbox'[s] = Append(outbox[s], Verdict[s])
        /\ legs'[s].back = legs[s].back + back
    BY <1>1, <1>7, <1>9 DEF Ideal!Settle, Ideal!Repeat, Ideal!Tell, Ideal!Move, TypeOK
  <2>2. Len(outbox'[s]) = Len(outbox[s]) + 1
    BY <1>1, <1>7, <2>1 DEF Events
  <2>3. msg[d] = [type |-> "reply", settlement |-> s]
    BY <1>1, <1>9 DEF Messages, Id
  <2>4. /\ IsFiniteSet(Started(s)) /\ Cardinality(Started(s)) \in Nat
        /\ Cardinality(Started(s)) <= ReplyHandlers /\ ReplyHandlers \in Nat
    BY <1>1, HandlersFinite, HubAssumption DEF RepeatInv
  <2>5. d \in Started(s) /\ Started(s)' = Started(s) \ {d}
    BY <1>2, <2>3 DEF Started
  <2>6. /\ Cardinality(Started(s)') = Cardinality(Started(s)) - 1
        /\ Cardinality(Started(s)') \in Nat
    <3>1. /\ IsFiniteSet(Started(s) \ {d})
          /\ Cardinality(Started(s) \ {d}) = Cardinality(Started(s)) - 1
      BY <2>4, <2>5, FS_RemoveElement
    <3>2. Cardinality(Started(s) \ {d}) \in Nat
      BY <3>1, FS_CardinalityType
    <3> QED
      BY <2>5, <3>1, <3>2
  <2>7. /\ n \in Nat /\ n + Cardinality(Started(s)) <= ReplyHandlers
        /\ legs[s].back = IF status[s] = "REVERSED" THEN n ELSE 0
        /\ status[s] = "PENDING" => n = 0
    <3>1. CASE status[s] = "PENDING"
      <4>1. Len(outbox[s]) = 1 /\ legs[s].back = 0
        BY <3>1 DEF RepeatInv, EndingsCounted
      <4>2. n = 0
        BY <4>1
      <4> HIDE DEF n, k
      <4>3. n + k <= ReplyHandlers
        BY <2>4, <4>2 DEF k
      <4> QED
        BY <3>1, <4>1, <4>2, <4>3 DEF k
    <3>2. CASE status[s] = Verdict[s]
      BY <1>1, <3>2 DEF RepeatInv, EndingsCounted, Outcomes
    <3> QED
      BY <2>1, <3>1, <3>2
  <2>8. Len(outbox'[s]) - 1 = n + 1
    BY <1>7, <2>2
  <2>9. n + 1 + Cardinality(Started(s)') <= ReplyHandlers /\ n + 1 \in 1..ReplyHandlers
    <3>1. /\ n \in Nat /\ k \in Nat /\ k1 \in Nat /\ ReplyHandlers \in Nat
          /\ k1 = k - 1 /\ n + k <= ReplyHandlers
      BY <2>4, <2>6, <2>7
    <3> HIDE DEF n, k, k1
    <3>2. n + 1 + k1 <= ReplyHandlers /\ n + 1 \in 1..ReplyHandlers
      BY <3>1
    <3> QED
      BY <3>2 DEF k1
  <2>10. legs'[s].back = IF Verdict[s] = "REVERSED" THEN n + 1 ELSE 0
    <3>1. /\ legs'[s].back = legs[s].back + back
          /\ n \in Nat /\ (status[s] = "PENDING" => n = 0)
          /\ legs[s].back = IF status[s] = "REVERSED" THEN n ELSE 0
          /\ Verdict[s] \in {"CONFIRMED", "REVERSED"}
          /\ status[s] \in {"PENDING", Verdict[s]}
      BY <1>1, <2>1, <2>7 DEF Outcomes
    <3> HIDE DEF n
    <3>2. CASE Verdict[s] = "REVERSED"
      <4>1. legs[s].back = n
        BY <3>1, <3>2
      <4> QED
        BY <3>1, <3>2, <4>1
    <3>3. CASE Verdict[s] = "CONFIRMED"
      <4>1. legs[s].back = 0
        BY <3>1, <3>3
      <4> QED
        BY <3>1, <3>3, <4>1
    <3> QED
      BY <3>1, <3>2, <3>3
  <2>11. EndingsCounted'
    <3> SUFFICES ASSUME NEW q \in Settlements
                 PROVE  /\ status'[q] = "none" => outbox'[q] = <<>>
                        /\ status'[q] \in {"PENDING", "REJECTED"} => Len(outbox'[q]) = 1
                        /\ status'[q] \in Outcomes => Len(outbox'[q]) - 1 \in 1..ReplyHandlers
                        /\ legs'[q].back = IF status'[q] = "REVERSED" THEN Len(outbox'[q]) - 1 ELSE 0
      BY DEF EndingsCounted
    <3>1. CASE q = s
      BY <1>1, <2>1, <2>8, <2>9, <2>10, <3>1 DEF Outcomes
    <3>2. CASE q # s
      BY <1>6, <2>1, <3>2
    <3> QED
      BY <3>1, <3>2
  <2>12. \A q \in Settlements : status'[q] \in Outcomes =>
             Len(outbox'[q]) - 1 + Cardinality(Started(q)') <= ReplyHandlers
    BY <1>6, <2>1, <2>8, <2>9
  <2> QED
    BY <1>3, <2>11, <2>12 DEF RepeatInv
<1> QED
  BY <1>5, <1>8, <1>9, CommitCases

LEMMA StepRepeat == RaceInv /\ RepeatInv /\ [Next]_vars => RepeatInv'
<1> SUFFICES ASSUME RaceInv, RepeatInv, [Next]_vars PROVE RepeatInv'
  OBVIOUS
<1>1. ASSUME NEW d \in Deliveries, Deliver(d) PROVE RepeatInv'
  BY <1>1, RepeatDeliver
<1>2. ASSUME NEW d \in Deliveries,
             FindBank(d) \/ InsertSettlement(d) \/ WriteRequested(d)
      PROVE  RepeatInv'
  <2>1. msg[d].type = "requested" /\ pc[d] \notin {"idle", "done"}
    BY <1>2 DEF FindBank, InsertSettlement, WriteRequested, RaceInv, RequestOwns, AtRequest
  <2>2. /\ UNCHANGED <<status, legs, outbox>> /\ msg' = msg
        /\ \A e \in Deliveries \ {d} : pc'[e] = pc[e]
    BY <1>2 DEF FindBank, InsertSettlement, WriteRequested, tables, Goto, Rollback, End, RaceInv, TypeOK
  <2>3. \A s \in Settlements : Started(s)' \subseteq Started(s)
    BY <2>1, <2>2 DEF Started
  <2> QED
    BY <2>1, <2>2, <2>3, RepliesOnlyLeave, RepeatQuiet
<1>3. ASSUME NEW d \in Deliveries, FindSettlement(d) PROVE RepeatInv'
  <2>1. /\ UNCHANGED <<status, legs, outbox>> /\ msg' = msg /\ pc[d] = "find"
        /\ \A e \in Deliveries \ {d} : pc'[e] = pc[e]
        /\ pc'[d] = "done" \/ (pc'[d] = "settle" /\ status[Id(d)] = "PENDING")
    BY <1>3 DEF FindSettlement, tables, Goto, End, RaceInv, TypeOK
  <2>2. \A s \in Settlements : status[s] \in Outcomes => Started(s)' \subseteq Started(s)
    BY <2>1 DEF Started, Id, Outcomes
  <2> QED
    BY <2>1, <2>2, RepliesOnlyLeave, RepeatQuiet
<1>4. ASSUME NEW d \in Deliveries, Settle(d) \/ Fail(d) PROVE RepeatInv'
  <2>1. /\ UNCHANGED <<status, legs, outbox>> /\ msg' = msg
        /\ pc[d] \notin {"idle", "done"}
        /\ pc[d] = "settle" \/ pc'[d] = "done"
        /\ \A e \in Deliveries \ {d} : pc'[e] = pc[e]
    BY <1>4 DEF Settle, Fail, Rollback, tables, Goto, End, RaceInv, TypeOK
  <2>2. \A s \in Settlements : Started(s)' \subseteq Started(s)
    BY <2>1 DEF Started
  <2> QED
    BY <2>1, <2>2, RepliesOnlyLeave, RepeatQuiet
<1>5. ASSUME NEW d \in Deliveries, Commit(d) \/ CommitUnheard(d) PROVE RepeatInv'
  <2>1. /\ pc[d] = "commit" /\ Publish(d) /\ UNCHANGED msg
        /\ \E r \in {"acked", "dead", "unacked"} : End(d, r)
    BY <1>5 DEF Commit, CommitUnheard
  <2> QED
    BY <2>1, RepeatCommit
<1>6. ASSUME UNCHANGED <<status, legs, outbox, pc, msg>> PROVE RepeatInv'
  BY <1>6 DEF RepeatInv, EndingsCounted, Replying, Started
<1>7. ASSUME NEW b \in Banks, RegisterBank(b) PROVE RepeatInv'
  BY <1>6, <1>7 DEF RegisterBank
<1>8. CASE UNCHANGED vars
  BY <1>6, <1>8 DEF vars, tables
<1> QED
  BY <1>1, <1>2, <1>3, <1>4, <1>5, <1>7, <1>8 DEF Next, Handle

\* settlements.service.ts:119-124: the check made before the transaction lets
\* an ending be booked and told again, never more often than replies of that
\* settlement were handled at once, and money and message always alike
\* (EndingsCounted).
THEOREM EndingsRepeatNoMore == Spec => []EndingsCounted
<1>1. RepeatInv => EndingsCounted
  BY DEF RepeatInv
<1> QED
  BY <1>1, InitRepeat, StepRepeat, RaceInvariant, PTL DEF Spec

----------------------------------------------------------------------------
(***************************************************************************)
(* Two replies between the check and the COMMIT are all that goes wrong.   *)
(***************************************************************************)
\* Two deliveries have read the same settlement as PENDING, and neither has
\* booked its ending yet.
RepliesOverlap ==
    \E s \in Settlements : \E d, e \in Started(s) : d # e

\* What a reply read before its transaction is still so at its commit.
ReplyIsFirst ==
    \A d \in Deliveries :
        msg[d].type = "reply" /\ pc[d] \in {"settle", "commit"} => status[Id(d)] = "PENDING"

AloneInv ==
    /\ ReplyIsFirst
    /\ ReservesFollowStatus
    /\ OneOutcomePerSettlement

LEMMA InitAlone == Init => AloneInv
<1> SUFFICES ASSUME Init PROVE AloneInv
  OBVIOUS
<1>1. \A s \in Settlements : /\ status[s] = "none"
                              /\ legs[s] = [moved |-> 0, back |-> 0]
                              /\ outbox[s] = <<>>
  BY DEF Init
<1>2. ReplyIsFirst
  BY DEF Init, ReplyIsFirst
<1>3. ReservesFollowStatus
  BY <1>1 DEF ReservesFollowStatus
<1>4. OneOutcomePerSettlement
  BY <1>1 DEF OneOutcomePerSettlement, Outcomes
<1> QED
  BY <1>2, <1>3, <1>4 DEF AloneInv

\* A step of one delivery that leaves the tables alone.
LEMMA AloneQuiet ==
    ASSUME RaceInv, AloneInv, NEW d \in Deliveries,
           UNCHANGED <<status, legs, outbox, msg>>,
           \A e \in Deliveries \ {d} : pc'[e] = pc[e],
           msg[d].type = "reply" /\ pc'[d] \in {"settle", "commit"} => status[Id(d)] = "PENDING"
    PROVE  AloneInv'
<1>1. ReplyIsFirst'
  BY DEF AloneInv, ReplyIsFirst, Id
<1>2. ReservesFollowStatus' /\ OneOutcomePerSettlement'
  BY DEF AloneInv, ReservesFollowStatus, OneOutcomePerSettlement
<1> QED
  BY <1>1, <1>2 DEF AloneInv

LEMMA PairAppend ==
    ASSUME NEW S, NEW a \in S, NEW b \in S
    PROVE  Append(<<a>>, b) = <<a, b>>
<1>1. <<a>> \in Seq(S) /\ <<a, b>> \in Seq(S) /\ Len(<<a>>) = 1 /\ Len(<<a, b>>) = 2
  OBVIOUS
<1>2. /\ Append(<<a>>, b) \in Seq(S) /\ Len(Append(<<a>>, b)) = 2
      /\ Append(<<a>>, b)[1] = a /\ Append(<<a>>, b)[2] = b
  BY <1>1, AppendProperties
<1>3. \A i \in 1..2 : Append(<<a>>, b)[i] = <<a, b>>[i]
  BY <1>2
<1> QED
  BY <1>1, <1>2, <1>3, SeqEqual

\* A COMMIT: a reply's is the first of its settlement, so it repeats nothing, and
\* no other reply has read what it overwrites.
LEMMA AloneCommit ==
    ASSUME RaceInv, AloneInv, ~RepliesOverlap, NEW d \in Deliveries, pc[d] = "commit", Publish(d),
           \E r \in {"acked", "dead", "unacked"} : End(d, r), UNCHANGED msg
    PROVE  AloneInv'
<1> DEFINE s == Id(d)
<1>1. /\ s \in Settlements /\ Verdict[s] \in Outcomes /\ TypeOK /\ EndingsHold
      /\ \A e \in Deliveries : Id(e)' = Id(e) /\ Id(e) \in Settlements /\ msg[e] \in Messages
  BY IdsTyped DEF RaceInv, TypeOK, Messages, Id
<1>2. pc'[d] = "done" /\ \A e \in Deliveries \ {d} : pc'[e] = pc[e]
  BY <1>1 DEF End, Goto, TypeOK
<1>3. CASE UNCHANGED <<status, legs, outbox>>
  BY <1>2, <1>3, AloneQuiet
<1>4. CASE \/ /\ Ideal!Record(s) \/ Ideal!Refuse(s)
              /\ msg[d].type = "requested"
           \/ Ideal!Settle(s, Verdict[s]) /\ msg[d].type = "reply"
  <2>1. \A q \in Settlements \ {s} : status'[q] = status[q]
    BY <1>1, <1>4, IdealStep
  <2>2. ReplyIsFirst'
    <3> SUFFICES ASSUME NEW e \in Deliveries, msg[e].type = "reply", pc'[e] \in {"settle", "commit"}
                 PROVE  status'[Id(e)] = "PENDING"
      BY <1>1 DEF ReplyIsFirst
    <3>1. e # d /\ pc[e] = pc'[e] /\ status[Id(e)] = "PENDING"
      BY <1>2 DEF AloneInv, ReplyIsFirst
    <3>2. CASE Id(e) # s
      BY <1>1, <2>1, <3>1, <3>2
    <3>3. CASE Id(e) = s
      <4>1. status[s] # "none"
        BY <3>1, <3>3
      <4>2. msg[d].type = "reply"
        BY <1>4, <4>1 DEF Ideal!Record, Ideal!Refuse
      <4>3. d \in Started(s) /\ e \in Started(s)
        BY <1>1, <3>1, <3>3, <4>2 DEF Messages, Id, Started
      <4> QED
        BY <1>1, <3>1, <4>3 DEF RepliesOverlap
    <3> QED
      BY <3>2, <3>3
  <2>4. /\ legs[s] = [moved |-> IF status[s] \in {"none", "REJECTED"} THEN 0 ELSE 1,
                      back |-> IF status[s] = "REVERSED" THEN 1 ELSE 0]
        /\ status[s] = "none" => outbox[s] = <<>>
        /\ status[s] = "PENDING" => outbox[s] = <<"notify">>
    BY <1>1 DEF AloneInv, ReservesFollowStatus, OneOutcomePerSettlement
  <2>5. CASE Ideal!Record(s)
    <3>1. /\ status' = [status EXCEPT ![s] = "PENDING"] /\ outbox' = [outbox EXCEPT ![s] = <<"notify">>]
          /\ legs' = [legs EXCEPT ![s] = [moved |-> 1, back |-> 0]]
      BY <1>1, <2>4, <2>5 DEF Ideal!Record, Ideal!Move, Ideal!Tell, TypeOK
    <3> QED
      BY <1>1, <2>2, <3>1 DEF AloneInv, ReservesFollowStatus, OneOutcomePerSettlement, TypeOK, Outcomes
  <2>6. CASE Ideal!Refuse(s)
    <3>1. /\ status' = [status EXCEPT ![s] = "REJECTED"] /\ outbox' = [outbox EXCEPT ![s] = <<"REJECTED">>]
          /\ legs' = legs /\ legs[s] = [moved |-> 0, back |-> 0]
      BY <1>1, <2>4, <2>6 DEF Ideal!Refuse, Ideal!Tell, TypeOK
    <3> QED
      BY <1>1, <2>2, <3>1 DEF AloneInv, ReservesFollowStatus, OneOutcomePerSettlement, TypeOK, Outcomes
  <2>7. CASE Ideal!Settle(s, Verdict[s])
    <3>1. Append(<<"notify">>, Verdict[s]) = <<"notify", Verdict[s]>>
      <4>1. "notify" \in Events /\ Verdict[s] \in Events
        BY <1>1 DEF Events
      <4> QED
        BY <4>1, PairAppend
    <3>2. /\ status' = [status EXCEPT ![s] = Verdict[s]]
          /\ outbox' = [outbox EXCEPT ![s] = <<"notify", Verdict[s]>>]
          /\ legs' = [legs EXCEPT ![s] =
                         [moved |-> 1, back |-> IF Verdict[s] = "REVERSED" THEN 1 ELSE 0]]
      <4>1. /\ status[s] = "PENDING" /\ outbox[s] = <<"notify">>
            /\ legs[s].moved = 1 /\ legs[s].back = 0
        BY <2>4, <2>7 DEF Ideal!Settle
      <4> QED
        <5> DEFINE b == IF Verdict[s] = "REVERSED" THEN 1 ELSE 0
        <5>1. /\ status' = [status EXCEPT ![s] = Verdict[s]]
              /\ outbox' = [outbox EXCEPT ![s] = Append(@, Verdict[s])]
              /\ legs' = [legs EXCEPT ![s] = [moved |-> @.moved + 0, back |-> @.back + b]]
          BY <2>7 DEF Ideal!Settle, Ideal!Move, Ideal!Tell
        <5>2. b \in Nat /\ 1 + 0 = 1 /\ 0 + b = b
          OBVIOUS
        <5> HIDE DEF b
        <5>3. legs' = [legs EXCEPT ![s] = [moved |-> 1, back |-> b]]
          BY <1>1, <4>1, <5>1, <5>2 DEF TypeOK
        <5>4. outbox' = [outbox EXCEPT ![s] = <<"notify", Verdict[s]>>]
          BY <1>1, <3>1, <4>1, <5>1 DEF TypeOK
        <5> QED
          BY <5>1, <5>3, <5>4 DEF b
    <3> QED
      BY <1>1, <2>2, <3>2 DEF AloneInv, ReservesFollowStatus, OneOutcomePerSettlement, TypeOK, Outcomes
  <2> QED
    BY <1>4, <2>5, <2>6, <2>7
<1>5. ~(status[s] = Verdict[s] /\ msg[d].type = "reply")
  BY <1>1 DEF AloneInv, ReplyIsFirst, Outcomes
<1> QED
  BY <1>3, <1>4, <1>5, CommitCases

LEMMA StepAlone == RaceInv /\ AloneInv /\ ~RepliesOverlap /\ [Next]_vars => AloneInv'
<1> SUFFICES ASSUME RaceInv, AloneInv, ~RepliesOverlap, [Next]_vars PROVE AloneInv'
  OBVIOUS
<1>1. ASSUME NEW b \in Banks, RegisterBank(b) PROVE AloneInv'
  BY <1>1 DEF RegisterBank, AloneInv, ReplyIsFirst, ReservesFollowStatus,
              OneOutcomePerSettlement, Id
<1>2. ASSUME NEW d \in Deliveries, Deliver(d) PROVE AloneInv'
  <2>1. pc'[d] \in {"bank", "find"} /\ \A e \in Deliveries \ {d} : pc'[e] = pc[e]
    BY <1>2 DEF Deliver, Goto, RaceInv, TypeOK
  <2> QED
    BY <1>2, <2>1, AloneQuiet DEF Deliver, tables
<1>3. ASSUME NEW d \in Deliveries,
             FindBank(d) \/ InsertSettlement(d) \/ WriteRequested(d)
      PROVE  AloneInv'
  <2>1. msg[d].type = "requested"
    BY <1>3 DEF FindBank, InsertSettlement, WriteRequested, RaceInv, RequestOwns, AtRequest
  <2>2. /\ UNCHANGED <<status, legs, outbox, msg>>
        /\ \A e \in Deliveries \ {d} : pc'[e] = pc[e]
    BY <1>3 DEF FindBank, InsertSettlement, WriteRequested, tables, Goto, Rollback, End, RaceInv, TypeOK
  <2> QED
    BY <2>1, <2>2, AloneQuiet
<1>4. ASSUME NEW d \in Deliveries, FindSettlement(d) PROVE AloneInv'
  <2>1. /\ UNCHANGED <<status, legs, outbox, msg>>
        /\ \A e \in Deliveries \ {d} : pc'[e] = pc[e]
        /\ pc'[d] = "done" \/ (pc'[d] = "settle" /\ status[Id(d)] = "PENDING")
    BY <1>4 DEF FindSettlement, tables, Goto, End, RaceInv, TypeOK
  <2> QED
    BY <2>1, AloneQuiet
<1>5. ASSUME NEW d \in Deliveries, Settle(d) PROVE AloneInv'
  <2>1. msg[d].type = "reply" /\ status[Id(d)] = "PENDING"
    BY <1>5 DEF Settle, RaceInv, ReplyKnows, AtReply, AloneInv, ReplyIsFirst
  <2>2. /\ UNCHANGED <<status, legs, outbox, msg>>
        /\ \A e \in Deliveries \ {d} : pc'[e] = pc[e]
    BY <1>5 DEF Settle, tables, Goto, RaceInv, TypeOK
  <2> QED
    BY <2>1, <2>2, AloneQuiet
<1>6. ASSUME NEW d \in Deliveries, Commit(d) \/ CommitUnheard(d) PROVE AloneInv'
  <2>1. /\ pc[d] = "commit" /\ Publish(d) /\ UNCHANGED msg
        /\ \E r \in {"acked", "dead", "unacked"} : End(d, r)
    BY <1>6 DEF Commit, CommitUnheard
  <2> QED
    BY <2>1, AloneCommit
<1>7. ASSUME NEW d \in Deliveries, Fail(d) PROVE AloneInv'
  <2>1. /\ UNCHANGED <<status, legs, outbox, msg>> /\ pc'[d] = "done"
        /\ \A e \in Deliveries \ {d} : pc'[e] = pc[e]
    BY <1>7 DEF Fail, Rollback, End, Goto, tables, RaceInv, TypeOK
  <2> QED
    BY <2>1, AloneQuiet
<1>8. CASE UNCHANGED vars
  BY <1>8 DEF vars, tables, AloneInv, ReplyIsFirst, ReservesFollowStatus,
              OneOutcomePerSettlement, Id
<1> QED
  BY <1>1, <1>2, <1>3, <1>4, <1>5, <1>6, <1>7, <1>8 DEF Next, Handle

LEMMA AloneUntilOverlap == Spec => []AloneInv \/ <>RepliesOverlap
BY InitAlone, StepAlone, RaceInvariant, PTL DEF Spec

\* settlements.service.ts:119-143, settlement.repository.ts:80-84: the reserves of
\* every settlement move once, and back once exactly when it is REVERSED
\* (ReservesFollowStatus), unless two replies read one as PENDING before either
\* books it: no redelivery, failure, lost commit or unknown bank does it alone.
THEOREM OnlyOverlapDoublesReserves == Spec => []ReservesFollowStatus \/ <>RepliesOverlap
<1>1. AloneInv => ReservesFollowStatus
  BY DEF AloneInv
<1> QED
  BY <1>1, AloneUntilOverlap, PTL

\* And the outbox tells each bank what the settlement's row says, once
\* (OneOutcomePerSettlement), with the same exception and no other.
THEOREM OnlyOverlapTellsTwice == Spec => []OneOutcomePerSettlement \/ <>RepliesOverlap
<1>1. AloneInv => OneOutcomePerSettlement
  BY DEF AloneInv
<1> QED
  BY <1>1, AloneUntilOverlap, PTL

\* Each COMMIT that changes the tables is one step of AtomicSettlement, and every
\* other step none (SettlementSpec), in every run in which no two replies do so.
THEOREM OnlyOverlapBreaksAtomicity == Spec => SettlementSpec \/ <>RepliesOverlap
<1>1. Init => Ideal!Init
  BY DEF Init, Ideal!Init
<1>2. RaceInv /\ AloneInv /\ [Next]_vars => [Ideal!Next]_(Ideal!vars)
  <2> SUFFICES ASSUME RaceInv, AloneInv, [Next]_vars
               PROVE  Ideal!Next \/ UNCHANGED <<status, legs, outbox>>
    BY DEF Ideal!vars
  <2>1. ASSUME NEW d \in Deliveries,
               \/ Ideal!Record(Id(d)) \/ Ideal!Refuse(Id(d)) \/ Ideal!Settle(Id(d), Verdict[Id(d)])
        PROVE  Ideal!Next
    BY <2>1, IdsTyped DEF Ideal!Next, Outcomes
  <2>2. ASSUME NEW d \in Deliveries
        PROVE  ~(pc[d] = "commit" /\ msg[d].type = "reply" /\ status[Id(d)] = Verdict[Id(d)])
    BY <2>2, IdsTyped DEF AloneInv, ReplyIsFirst, Outcomes
  <2> QED
    BY <2>1, <2>2, StepIsIdeal
<1> QED
  BY <1>1, <1>2, RaceInvariant, AloneUntilOverlap, PTL DEF Spec, SettlementSpec, Ideal!Spec
=============================================================================
