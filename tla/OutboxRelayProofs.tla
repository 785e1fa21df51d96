-------------------------- MODULE OutboxRelayProofs --------------------------
(***************************************************************************)
(* For any number of rows, ticks, failures and outages and any batch size: *)
(* no row is written to the channel twice unless something failed, and a   *)
(* row marked published was written.  SKIP LOCKED keeps the batches of     *)
(* overlapping ticks apart; what a batch has written and not committed is  *)
(* written again only after the tick that wrote it failed.                 *)
(***************************************************************************)
EXTENDS OutboxRelay, SequenceTheorems, FiniteSetTheorems, WellFoundedInduction, TLAPS

\* What a tick has written of its batch and not committed as published.
Sent(k) == (claimed[k] \ todo[k]) \cup (IF pc[k] = "mark" THEN {NextRow(todo[k])} ELSE {})

\* Batches are unpublished rows, and no row is in two of them.
BatchesApart ==
    /\ \A k \in Ticks :
          /\ pc[k] = "idle" => claimed[k] = {}
          /\ pc[k] = "mark" => todo[k] # {}
          /\ claimed[k] \subseteq inserted \ published
    /\ \A k, j \in Ticks : k # j => claimed[k] \cap claimed[j] = {}

OnItsWay(r) ==
    /\ written[r] > 0
    /\ r \in Range(pipe) \cup queue \cup consumed \/ failures > 0

\* A row may be one copy ahead of the failures while a tick has it in hand, or
\* when it is published; without a channel nobody has it in hand.
CopiesCounted ==
    \A r \in Rows \ published :
        \/ written[r] <= failures
        \/ open /\ written[r] = 1 + failures /\ \E k \in Ticks : r \in Sent(k)

RelayInv ==
    /\ TypeOK
    /\ BatchesApart
    /\ CopiesCounted
    /\ \A k \in Ticks : \A r \in Sent(k) : OnItsWay(r)
    /\ ExtraCopiesNeedFailures
    /\ PublishedWasSent

----------------------------------------------------------------------------
\* Rows are numbered: any set of them has a least one.
LEMMA LeastRow ==
    ASSUME NEW S \in SUBSET Rows, S # {}
    PROVE  \E r \in S : \A q \in S : r <= q
<1>1. S \subseteq Nat
  BY RelayAssumption
<1> DEFINE R == {ss \in Nat \X Nat : ss[1] < ss[2]}
<1>2. IsWellFoundedOn(R, Nat)
  BY NatLessThanWellFounded, Zenon DEF OpToRel
<1> HIDE DEF R
<1>3. PICK r \in S : \A q \in S : ~(<<q, r>> \in R)
  BY <1>1, <1>2, WFMin
<1>4. \A q, r1 \in Nat : q < r1 => <<q, r1>> \in R
  BY DEF R
<1>5. ASSUME NEW q \in S PROVE ~(q < r)
  BY <1>1, <1>3, <1>4
<1>6. \A q \in S : r <= q
  BY <1>1, <1>5
<1> QED
  BY <1>6

\* A batch has a next row.
LEMMA NextRowIn ==
    ASSUME NEW S \in SUBSET Rows, S # {}
    PROVE  NextRow(S) \in S
  BY LeastRow DEF NextRow

LEMMA RangeAppend ==
    ASSUME NEW s \in Seq(Rows), NEW r \in Rows
    PROVE  Range(Append(s, r)) = Range(s) \cup {r}
<1>1. <<r>> \in Seq(Rows) /\ Range(<<r>>) = {r}
  BY DEF Range
<1>2. Append(s, r) = s \o <<r>>
  BY AppendIsConcat
<1>3. \A q \in Seq(Rows) : Range(s \o q) = Range(s) \cup Range(q)
  BY RangeConcatenation
<1> QED
  BY <1>1, <1>2, <1>3, Zenon

LEMMA RangeCons ==
    ASSUME NEW s \in Seq(Rows), NEW r \in Rows
    PROVE  Range(<<r>> \o s) = {r} \cup Range(s)
<1>1. <<r>> \in Seq(Rows) /\ Range(<<r>>) = {r}
  BY DEF Range
<1>2. \A q \in Seq(Rows) : Range(q \o s) = Range(q) \cup Range(s)
  BY RangeConcatenation
<1> QED
  BY <1>1, <1>2, Zenon

LEMMA RangeTail ==
    ASSUME NEW s \in Seq(Rows), s # <<>>
    PROVE  /\ Head(s) \in Rows
           /\ Tail(s) \in Seq(Rows)
           /\ Range(s) = Range(Tail(s)) \cup {Head(s)}
<1>1. /\ Head(s) \in Rows /\ Tail(s) \in Seq(Rows)
      /\ s = <<Head(s)>> \o Tail(s)
  BY HeadTailProperties
<1>2. Range(<<Head(s)>> \o Tail(s)) = {Head(s)} \cup Range(Tail(s))
  BY <1>1, RangeCons, Zenon
<1> QED
  BY <1>1, <1>2, Zenon

LEMMA InitRelay == Init => RelayInv
<1> SUFFICES ASSUME Init PROVE RelayInv
  OBVIOUS
<1>1. TypeOK
  BY RelayAssumption DEF Init, TypeOK
<1>2. \A k \in Ticks : pc[k] = "idle" /\ claimed[k] = {} /\ todo[k] = {}
  BY DEF Init
<1>3. BatchesApart
  BY <1>2 DEF BatchesApart
<1>4. \A k \in Ticks : Sent(k) = {}
  BY <1>2 DEF Sent
<1>5. CopiesCounted /\ ExtraCopiesNeedFailures /\ PublishedWasSent
  BY DEF Init, CopiesCounted, ExtraCopiesNeedFailures, PublishedWasSent
<1> QED
  BY <1>1, <1>3, <1>4, <1>5 DEF RelayInv

----------------------------------------------------------------------------
LEMMA SentInBatch ==
    ASSUME TypeOK, BatchesApart, NEW k \in Ticks
    PROVE  /\ Sent(k) \subseteq claimed[k]
           /\ claimed[k] \subseteq Rows
           /\ pc[k] = "mark" => NextRow(todo[k]) \in todo[k]
<1>1. claimed[k] \subseteq Rows /\ todo[k] \subseteq claimed[k] /\ todo[k] \in SUBSET Rows
  BY DEF TypeOK
<1>2. pc[k] = "mark" => NextRow(todo[k]) \in todo[k]
  BY <1>1, NextRowIn DEF BatchesApart
<1> QED
  BY <1>1, <1>2 DEF Sent

\* The broker and the business transactions do not move the ticks.
LEMMA OutsideStep ==
    ASSUME RelayInv, TypeOK', UNCHANGED <<published, pc, claimed, todo, open, written, failures>>,
           inserted \subseteq inserted',
           Range(pipe) \cup queue \cup consumed \subseteq Range(pipe') \cup queue' \cup consumed'
    PROVE  RelayInv'
<1>1. BatchesApart'
  BY DEF RelayInv, BatchesApart
<1>2. \A k \in Ticks : Sent(k)' = Sent(k)
  BY DEF Sent
<1>3. CopiesCounted'
  BY <1>2 DEF RelayInv, CopiesCounted
<1>4. \A k \in Ticks : \A r \in Sent(k)' : OnItsWay(r)'
  BY <1>2 DEF RelayInv, OnItsWay
<1>5. ExtraCopiesNeedFailures' /\ PublishedWasSent'
  BY DEF RelayInv, ExtraCopiesNeedFailures, PublishedWasSent
<1> QED
  BY <1>1, <1>3, <1>4, <1>5 DEF RelayInv

LEMMA InsertStep ==
    ASSUME RelayInv, NEW r \in Rows, Insert(r)
    PROVE  RelayInv'
<1>1. TypeOK'
  BY DEF RelayInv, TypeOK, Insert, broker
<1> QED
  BY <1>1, OutsideStep DEF Insert, broker

LEMMA ConsumeStep ==
    ASSUME RelayInv, NEW r \in Rows, Consume(r)
    PROVE  RelayInv'
<1>1. TypeOK'
  BY DEF RelayInv, TypeOK, Consume, rows
<1> QED
  BY <1>1, OutsideStep DEF Consume, rows

LEMMA AcceptStep ==
    ASSUME RelayInv, Accept
    PROVE  RelayInv'
<1>1. /\ Head(pipe) \in Rows /\ Tail(pipe) \in Seq(Rows)
      /\ Range(pipe) = Range(Tail(pipe)) \cup {Head(pipe)}
  BY RangeTail DEF RelayInv, TypeOK, Accept
<1>2. TypeOK'
  BY <1>1 DEF RelayInv, TypeOK, Accept, rows
<1>3. Range(pipe') = Range(Tail(pipe)) /\ queue' = queue \cup {Head(pipe)} /\ consumed' = consumed
  BY DEF Accept
<1> QED
  BY <1>1, <1>2, <1>3, OutsideStep DEF Accept, rows

LEMMA ClaimStep ==
    ASSUME RelayInv, NEW k \in Ticks, Claim(k)
    PROVE  RelayInv'
<1>1. PICK batch \in SUBSET (inserted \ (published \cup Locked)) :
         /\ claimed' = [claimed EXCEPT ![k] = batch]
         /\ todo' = [todo EXCEPT ![k] = batch]
  BY DEF Claim, FirstRows, Claimable
<1>2. pc[k] = "idle" /\ pc' = [pc EXCEPT ![k] = "publish"]
      /\ UNCHANGED <<rows, broker, written, failures>>
  BY DEF Claim
<1>3. TypeOK'
  BY <1>1, <1>2 DEF RelayInv, TypeOK, rows, broker
<1>4. BatchesApart'
  BY <1>1, <1>2 DEF RelayInv, TypeOK, BatchesApart, Locked, rows
<1>5. claimed[k] = {} /\ todo[k] = {}
  BY <1>2 DEF RelayInv, TypeOK, BatchesApart
<1>6. \A j \in Ticks : Sent(j)' = Sent(j)
  BY <1>1, <1>2, <1>5 DEF RelayInv, TypeOK, Sent
<1>7. CopiesCounted'
  BY <1>2, <1>6 DEF RelayInv, CopiesCounted, rows, broker
<1>8. \A j \in Ticks : \A r \in Sent(j)' : OnItsWay(r)'
  BY <1>2, <1>6 DEF RelayInv, OnItsWay, rows, broker
<1>9. ExtraCopiesNeedFailures' /\ PublishedWasSent'
  BY <1>2 DEF RelayInv, ExtraCopiesNeedFailures, PublishedWasSent, rows, broker
<1> QED
  BY <1>3, <1>4, <1>7, <1>8, <1>9 DEF RelayInv

LEMMA PublishStep ==
    ASSUME RelayInv, NEW k \in Ticks, Publish(k)
    PROVE  RelayInv'
<1>1. PICK r \in todo[k] : r = NextRow(todo[k])
  BY NextRowIn DEF RelayInv, TypeOK, Publish
<1>2. /\ pc[k] = "publish" /\ open
      /\ pipe' = Append(pipe, r)
      /\ written' = [written EXCEPT ![r] = @ + 1]
      /\ pc' = [pc EXCEPT ![k] = "mark"]
      /\ UNCHANGED <<rows, claimed, todo, open, queue, consumed, failures>>
  BY <1>1 DEF Publish
<1>3. /\ r \in Rows /\ r \in claimed[k] /\ r \notin published
      /\ \A j \in Ticks \ {k} : r \notin claimed[j]
  BY DEF RelayInv, TypeOK, BatchesApart
<1>4. Range(pipe') = Range(pipe) \cup {r}
  BY <1>2, <1>3, RangeAppend DEF RelayInv, TypeOK
<1>5. TypeOK'
  BY <1>2, <1>3 DEF RelayInv, TypeOK, rows
<1>6. BatchesApart'
  BY <1>1, <1>2 DEF RelayInv, TypeOK, BatchesApart, rows
<1>7. r \notin UNION {Sent(j) : j \in Ticks}
  <2>1. \A j \in Ticks \ {k} : r \notin Sent(j)
    BY <1>3, SentInBatch DEF RelayInv
  <2>2. r \notin Sent(k)
    BY <1>2 DEF Sent
  <2> QED
    BY <2>1, <2>2
<1>8. written[r] <= failures
  BY <1>3, <1>7 DEF RelayInv, CopiesCounted
<1>9. \A j \in Ticks : Sent(j)' = IF j = k THEN Sent(j) \cup {r} ELSE Sent(j)
  BY <1>1, <1>2 DEF RelayInv, TypeOK, Sent
<1>10. CopiesCounted'
  <2> SUFFICES ASSUME NEW q \in Rows, q \notin published
               PROVE  \/ written'[q] <= failures
                      \/ open /\ written'[q] = 1 + failures /\ \E j \in Ticks : q \in Sent(j)'
    BY <1>2 DEF CopiesCounted, rows
  <2>1. CASE q = r
    BY <1>2, <1>3, <1>8, <1>9, <2>1, RelayAssumption DEF RelayInv, TypeOK
  <2>2. CASE q # r
    <3>1. written'[q] = written[q]
      BY <1>2, <1>3, <2>2 DEF RelayInv, TypeOK
    <3>2. \/ written[q] <= failures
          \/ open /\ written[q] = 1 + failures /\ \E j \in Ticks : q \in Sent(j)
      BY DEF RelayInv, CopiesCounted
    <3> QED
      BY <1>9, <3>1, <3>2
  <2> QED
    BY <2>1, <2>2
<1>11. \A q \in Rows : OnItsWay(q) \/ q = r => OnItsWay(q)'
  BY <1>2, <1>3, <1>4 DEF RelayInv, TypeOK, OnItsWay
<1>12. \A j \in Ticks : \A q \in Sent(j)' : OnItsWay(q)'
  BY <1>3, <1>9, <1>11, SentInBatch DEF RelayInv
<1>13. ExtraCopiesNeedFailures'
  BY <1>2, <1>3, <1>8, RelayAssumption DEF RelayInv, TypeOK, ExtraCopiesNeedFailures
<1>14. PublishedWasSent'
  BY <1>2, <1>3, <1>4 DEF RelayInv, TypeOK, PublishedWasSent, rows
<1> QED
  BY <1>5, <1>6, <1>10, <1>12, <1>13, <1>14 DEF RelayInv

\* What a tick has in hand when it ends is one copy ahead, if that was counted.
LEMMA EndTickStep ==
    ASSUME RelayInv, NEW k \in Ticks, EndTick(k), UNCHANGED <<rows, broker, written>>,
           failures' \in 0..MaxFailures, failures <= failures', open => failures < failures'
    PROVE  RelayInv'
<1>1. TypeOK'
  BY DEF RelayInv, TypeOK, EndTick, rows, broker
<1>2. BatchesApart'
  BY DEF RelayInv, TypeOK, BatchesApart, EndTick, rows, broker
<1>3. failures \in Nat /\ failures' \in Nat /\ written \in [Rows -> Nat]
  BY RelayAssumption DEF RelayInv, TypeOK
<1>4. CopiesCounted'
  <2> SUFFICES ASSUME NEW q \in Rows, q \notin published PROVE written[q] <= failures'
    BY DEF CopiesCounted, rows
  <2>1. \/ written[q] <= failures
        \/ open /\ written[q] = 1 + failures
    BY DEF RelayInv, CopiesCounted
  <2> QED
    BY <1>3, <2>1
<1>5. \A j \in Ticks : Sent(j)' \subseteq Sent(j)
  BY DEF RelayInv, TypeOK, EndTick, Sent
<1>6. \A j \in Ticks : \A q \in Sent(j)' : OnItsWay(q)'
  BY <1>3, <1>5 DEF RelayInv, OnItsWay, broker
<1>7. ExtraCopiesNeedFailures'
  BY <1>3 DEF RelayInv, ExtraCopiesNeedFailures
<1>8. PublishedWasSent'
  BY <1>3 DEF RelayInv, PublishedWasSent, rows, broker
<1> QED
  BY <1>1, <1>2, <1>4, <1>6, <1>7, <1>8 DEF RelayInv

LEMMA PublishThrowsStep ==
    ASSUME RelayInv, NEW k \in Ticks, PublishThrows(k)
    PROVE  RelayInv'
<1>1. failures' = failures /\ failures \in 0..MaxFailures /\ ~open
  BY DEF RelayInv, TypeOK, PublishThrows
<1> QED
  BY <1>1, EndTickStep, RelayAssumption DEF PublishThrows

LEMMA FailStep ==
    ASSUME RelayInv, NEW k \in Ticks, Fail(k)
    PROVE  RelayInv'
<1>1. failures' = failures + 1 /\ failures' \in 0..MaxFailures /\ failures \in Nat
  BY RelayAssumption DEF RelayInv, TypeOK, Fail, Break
<1> QED
  BY <1>1, EndTickStep DEF Fail

LEMMA MarkPublishedStep ==
    ASSUME RelayInv, NEW k \in Ticks, MarkPublished(k)
    PROVE  RelayInv'
<1>1. PICK r \in todo[k] : r = NextRow(todo[k])
  BY SentInBatch DEF RelayInv, MarkPublished
<1>2. /\ pc[k] = "mark"
      /\ todo' = [todo EXCEPT ![k] = todo[k] \ {r}]
      /\ pc' = [pc EXCEPT ![k] = "publish"]
      /\ UNCHANGED <<rows, claimed, broker, written, failures>>
  BY <1>1 DEF MarkPublished, RelayInv, TypeOK
<1>3. TypeOK'
  BY <1>2 DEF RelayInv, TypeOK, rows, broker
<1>4. BatchesApart'
  BY <1>2 DEF RelayInv, TypeOK, BatchesApart, rows
<1>5. \A j \in Ticks : Sent(j)' = Sent(j)
  <2>1. Sent(k)' = Sent(k)
    BY <1>1, <1>2 DEF RelayInv, TypeOK, Sent
  <2>2. \A j \in Ticks \ {k} : Sent(j)' = Sent(j)
    BY <1>2 DEF RelayInv, TypeOK, Sent
  <2> QED
    BY <2>1, <2>2
<1>6. CopiesCounted'
  BY <1>2, <1>5 DEF RelayInv, CopiesCounted, rows, broker
<1>7. \A j \in Ticks : \A q \in Sent(j)' : OnItsWay(q)'
  BY <1>2, <1>5 DEF RelayInv, OnItsWay, broker
<1>8. ExtraCopiesNeedFailures' /\ PublishedWasSent'
  BY <1>2 DEF RelayInv, ExtraCopiesNeedFailures, PublishedWasSent, rows, broker
<1> QED
  BY <1>3, <1>4, <1>6, <1>7, <1>8 DEF RelayInv

LEMMA CommitStep ==
    ASSUME RelayInv, NEW k \in Ticks, Commit(k)
    PROVE  RelayInv'
<1>1. /\ pc[k] = "publish" /\ todo[k] = {}
      /\ published' = published \cup claimed[k]
      /\ EndTick(k)
      /\ UNCHANGED <<inserted, broker, written, failures>>
  BY DEF Commit
<1>2. Sent(k) = claimed[k] /\ claimed[k] \subseteq inserted /\ claimed[k] \subseteq Rows
  BY <1>1 DEF RelayInv, TypeOK, BatchesApart, Sent
<1>3. TypeOK'
  BY <1>1, <1>2 DEF RelayInv, TypeOK, EndTick, broker
<1>4. BatchesApart'
  BY <1>1 DEF RelayInv, TypeOK, BatchesApart, EndTick
<1>5. \A j \in Ticks : Sent(j)' = IF j = k THEN {} ELSE Sent(j)
  BY <1>1 DEF RelayInv, TypeOK, EndTick, Sent
<1>6. CopiesCounted'
  <2> SUFFICES ASSUME NEW q \in Rows, q \notin published, q \notin claimed[k]
               PROVE  \/ written[q] <= failures
                      \/ open /\ written[q] = 1 + failures /\ \E j \in Ticks : q \in Sent(j)'
    BY <1>1 DEF CopiesCounted, broker
  <2>1. \/ written[q] <= failures
        \/ open /\ written[q] = 1 + failures /\ \E j \in Ticks : q \in Sent(j)
    BY DEF RelayInv, CopiesCounted
  <2> QED
    BY <1>2, <1>5, <2>1
<1>7. \A j \in Ticks : \A q \in Sent(j)' : OnItsWay(q)'
  BY <1>1, <1>5 DEF RelayInv, OnItsWay, broker
<1>8. ExtraCopiesNeedFailures'
  BY <1>1 DEF RelayInv, ExtraCopiesNeedFailures
<1>9. \A q \in claimed[k] : OnItsWay(q)
  BY <1>2 DEF RelayInv
<1>10. PublishedWasSent'
  BY <1>1, <1>9 DEF RelayInv, PublishedWasSent, OnItsWay, broker
<1> QED
  BY <1>3, <1>4, <1>6, <1>7, <1>8, <1>10 DEF RelayInv

LEMMA OutageStep ==
    ASSUME RelayInv, Outage
    PROVE  RelayInv'
<1>1. /\ open /\ ~open'
      /\ failures' = failures + 1 /\ failures' \in 0..MaxFailures /\ failures \in Nat
      /\ UNCHANGED <<rows, pc, claimed, todo, consumed, written>>
  BY RelayAssumption DEF RelayInv, TypeOK, Outage, Break
<1>9. open' = FALSE /\ pipe' = <<>> /\ queue' \subseteq queue
  BY DEF Outage
<1>10. pipe' \in Seq(Rows) /\ queue' \subseteq Rows
  <2>1. queue \subseteq Rows
    BY DEF RelayInv, TypeOK
  <2>2. <<>> \in Seq(Rows)
    OBVIOUS
  <2> QED
    BY <1>9, <2>1, <2>2
<1>11. open' \in BOOLEAN
  BY <1>9
<1>2. TypeOK'
  BY <1>1, <1>10, <1>11 DEF RelayInv, TypeOK, rows
<1>3. BatchesApart'
  BY <1>1 DEF RelayInv, BatchesApart, rows
<1>4. \A j \in Ticks : Sent(j)' = Sent(j)
  BY <1>1 DEF Sent
<1>5. CopiesCounted'
  <2>1. \A r \in Rows : written'[r] <= failures'
    BY <1>1 DEF RelayInv, TypeOK, ExtraCopiesNeedFailures
  <2> QED
    BY <2>1 DEF CopiesCounted
<1>6. \A j \in Ticks : \A q \in Sent(j)' : OnItsWay(q)'
  BY <1>1, <1>4 DEF RelayInv, OnItsWay
<1>7. ExtraCopiesNeedFailures'
  BY <1>1 DEF RelayInv, TypeOK, ExtraCopiesNeedFailures
<1>8. PublishedWasSent'
  BY <1>1 DEF RelayInv, PublishedWasSent, rows
<1> QED
  BY <1>2, <1>3, <1>5, <1>6, <1>7, <1>8 DEF RelayInv

LEMMA RestartStep ==
    ASSUME RelayInv, Restart
    PROVE  RelayInv'
<1>1. /\ ~open
      /\ pc' = [k \in Ticks |-> "idle"]
      /\ claimed' = [k \in Ticks |-> {}]
      /\ todo' = [k \in Ticks |-> {}]
      /\ UNCHANGED <<rows, pipe, queue, consumed, written, failures>>
  BY DEF Restart
<1>2. TypeOK'
  BY <1>1 DEF RelayInv, TypeOK, Restart, rows
<1>3. BatchesApart'
  BY <1>1 DEF BatchesApart
<1>4. \A j \in Ticks : Sent(j)' = {}
  BY <1>1 DEF Sent
<1>5. CopiesCounted'
  BY <1>1 DEF RelayInv, CopiesCounted, rows
<1>6. ExtraCopiesNeedFailures' /\ PublishedWasSent'
  BY <1>1 DEF RelayInv, ExtraCopiesNeedFailures, PublishedWasSent, rows
<1> QED
  BY <1>2, <1>3, <1>4, <1>5, <1>6 DEF RelayInv

----------------------------------------------------------------------------
LEMMA StepRelay == RelayInv /\ [Next]_vars => RelayInv'
<1> SUFFICES ASSUME RelayInv, [Next]_vars PROVE RelayInv'
  OBVIOUS
<1>1. ASSUME NEW r \in Rows, Insert(r) \/ Consume(r) PROVE RelayInv'
  BY <1>1, InsertStep, ConsumeStep
<1>2. ASSUME NEW k \in Ticks, Tick(k) PROVE RelayInv'
  BY <1>2, ClaimStep, PublishStep, PublishThrowsStep, MarkPublishedStep, CommitStep DEF Tick
<1>3. ASSUME NEW k \in Ticks, Fail(k) PROVE RelayInv'
  BY <1>3, FailStep
<1>4. CASE Accept \/ Outage \/ Restart
  BY <1>4, AcceptStep, OutageStep, RestartStep
<1>5. CASE UNCHANGED vars
  <2>1. TypeOK'
    BY <1>5 DEF RelayInv, TypeOK, vars, rows, broker
  <2> QED
    BY <1>5, <2>1, OutsideStep DEF vars, rows, broker
<1> QED
  BY <1>1, <1>2, <1>3, <1>4, <1>5 DEF Next

LEMMA RelayInvariant == Spec => []RelayInv
<1> QED
  BY InitRelay, StepRelay, PTL DEF Spec

\* Ticks that race never write a row twice: every extra copy costs a failure
\* (ExtraCopiesNeedFailures).
THEOREM CopiesAlwaysCost == Spec => []ExtraCopiesNeedFailures
<1>1. RelayInv => ExtraCopiesNeedFailures
  BY DEF RelayInv
<1> QED
  BY <1>1, RelayInvariant, PTL

\* A row is marked published only once its message was written, and the
\* message is then on its way unless something failed (PublishedWasSent).
THEOREM PublishedAlwaysSent == Spec => []PublishedWasSent
<1>1. RelayInv => PublishedWasSent
  BY DEF RelayInv
<1> QED
  BY <1>1, RelayInvariant, PTL

\* The outbox, its ticks and the channel keep their types (TypeOK).
THEOREM TypeCorrect == Spec => []TypeOK
<1>1. RelayInv => TypeOK
  BY DEF RelayInv
<1> QED
  BY <1>1, RelayInvariant, PTL

\* A row that is published stays so, and is not written to the channel again.
LeftAlone ==
    \A r \in published : r \in published' /\ written'[r] = written[r]

\* An event that is marked published is done with: no step unmarks it or sends
\* it again.  So an outage that empties the channel's buffer loses it for good,
\* and only the reconciliation sweep can end its payment.
THEOREM PublishedIsLeftAlone == Spec => [][LeftAlone]_vars
<1>1. ASSUME RelayInv, Next PROVE LeftAlone
  <2>1. CASE \E k \in Ticks : Publish(k)
    <3>1. PICK k \in Ticks : Publish(k)
      BY <2>1
    <3>2. todo[k] \in SUBSET Rows /\ todo[k] # {} /\ todo[k] \subseteq claimed[k]
      BY <1>1, <3>1 DEF Publish, RelayInv, TypeOK
    <3>3. NextRow(todo[k]) \in claimed[k]
      BY <3>2, NextRowIn, Zenon
    <3>5. NextRow(todo[k]) \notin published
      BY <1>1, <3>3 DEF RelayInv, BatchesApart
    <3>4. published' = published /\ \A r \in published : written'[r] = written[r]
      BY <1>1, <3>1, <3>5 DEF Publish, rows, RelayInv, TypeOK
    <3> QED
      BY <3>4, Zenon DEF LeftAlone
  <2>2. CASE ~\E k \in Ticks : Publish(k)
    <3>1. published \subseteq published' /\ written' = written
      BY <1>1, <2>2 DEF Next, Tick, Insert, Consume, Claim, PublishThrows, MarkPublished, Commit,
         Fail, Accept, Outage, Restart, rows
    <3> QED
      BY <3>1 DEF LeftAlone
  <2> QED
    BY <2>1, <2>2
<1>2. RelayInv /\ [Next]_vars => [LeftAlone]_vars
  BY <1>1
<1> QED
  BY <1>2, RelayInvariant, PTL DEF Spec

\* What travels was committed first, and written by a tick that had claimed it.
OnlyCommittedTravels ==
    Range(pipe) \cup queue \cup consumed \subseteq {r \in inserted : written[r] > 0}

LEMMA TravelStep ==
    RelayInv /\ OnlyCommittedTravels /\ [Next]_vars => OnlyCommittedTravels'
<1> SUFFICES ASSUME RelayInv, OnlyCommittedTravels, [Next]_vars PROVE OnlyCommittedTravels'
  OBVIOUS
<1>1. /\ pipe \in Seq(Rows) /\ inserted \subseteq Rows /\ written \in [Rows -> Nat]
      /\ \A r \in Range(pipe) \cup queue \cup consumed : r \in inserted /\ written[r] > 0
  BY DEF RelayInv, TypeOK, OnlyCommittedTravels
<1>2. ASSUME inserted \subseteq inserted', written' = written,
             Range(pipe') \cup queue' \cup consumed' \subseteq Range(pipe) \cup queue \cup consumed
      PROVE  OnlyCommittedTravels'
  BY <1>1, <1>2 DEF OnlyCommittedTravels
<1>3. ASSUME NEW k \in Ticks, Publish(k) PROVE OnlyCommittedTravels'
  <2> DEFINE r == NextRow(todo[k])
  <2>1. /\ pipe' = Append(pipe, r) /\ written' = [written EXCEPT ![r] = @ + 1]
        /\ UNCHANGED <<inserted, queue, consumed>>
    BY <1>3 DEF Publish, rows
  <2>2. todo[k] \in SUBSET Rows /\ todo[k] # {} /\ todo[k] \subseteq claimed[k]
    BY <1>3 DEF Publish, RelayInv, TypeOK
  <2>3. r \in claimed[k] /\ r \in Rows
    BY <2>2, NextRowIn, Zenon
  <2>4. r \in inserted
    BY <2>3 DEF RelayInv, BatchesApart
  <2> HIDE DEF r
  <2>5. Range(pipe') = Range(pipe) \cup {r}
    BY <1>1, <2>1, <2>3, RangeAppend
  <2>6. written'[r] > 0 /\ \A q \in Rows \ {r} : written'[q] = written[q]
    BY <1>1, <2>1, <2>3
  <2>7. ASSUME NEW q \in Range(pipe') \cup queue' \cup consumed'
        PROVE  q \in inserted' /\ written'[q] > 0
    <3>1. CASE q = r
      BY <2>1, <2>4, <2>6, <3>1
    <3>2. CASE q # r
      BY <1>1, <2>1, <2>5, <2>6, <2>7, <3>2
    <3> QED
      BY <3>1, <3>2
  <2> QED
    BY <2>7 DEF OnlyCommittedTravels
<1>4. CASE Accept
  <2>1. /\ UNCHANGED <<inserted, written, consumed>> /\ pipe # <<>>
        /\ pipe' = Tail(pipe) /\ queue' = queue \cup {Head(pipe)}
    BY <1>4 DEF Accept, rows
  <2>2. Range(pipe) = Range(Tail(pipe)) \cup {Head(pipe)}
    BY <1>1, <2>1, RangeTail
  <2> QED
    BY <1>2, <2>1, <2>2
<1>5. CASE Outage
  <2>1. Range(pipe') = {} /\ queue' \subseteq queue /\ UNCHANGED <<inserted, written, consumed>>
    BY <1>5 DEF Outage, rows, Range
  <2> QED
    BY <1>2, <2>1
<1>6. ASSUME NEW r \in Rows, Insert(r) \/ Consume(r) PROVE OnlyCommittedTravels'
  BY <1>2, <1>6 DEF Insert, Consume, rows, broker
<1>7. ASSUME NEW k \in Ticks,
             Claim(k) \/ PublishThrows(k) \/ MarkPublished(k) \/ Commit(k) \/ Fail(k)
      PROVE  OnlyCommittedTravels'
  BY <1>2, <1>7 DEF Claim, PublishThrows, MarkPublished, Commit, Fail, rows, broker
<1>8. CASE Restart \/ UNCHANGED vars
  BY <1>2, <1>8 DEF Restart, vars, rows, broker
<1> QED
  BY <1>3, <1>4, <1>5, <1>6, <1>7, <1>8 DEF Next, Tick

\* README.md:78, the dual-write problem: no consumer ever acts on an event whose business
\* transaction has not committed, whatever ticks overlap, fail or start again;
\* this is what the outbox is for.
THEOREM ConsumersSeeCommittedOnly == Spec => []OnlyCommittedTravels
<1>1. Init => OnlyCommittedTravels
  BY DEF Init, OnlyCommittedTravels, Range
<1> QED
  BY <1>1, TravelStep, RelayInvariant, PTL DEF Spec

\* The guard of Tick(k): a batch in hand goes on, published or thrown back;
\* without one there must be rows to claim.
Ready(k) == pc[k] \in {"publish", "mark"} \/ (pc[k] = "idle" /\ FirstRows(Claimable, BatchSize) # {})

\* While a committed event waits, some tick has a step to take.
BacklogIsServed == inserted # published => \E k \in Ticks : Ready(k)

LEMMA FirstRowsSome ==
    ASSUME NEW S \in SUBSET Rows, S # {}
    PROVE  FirstRows(S, BatchSize) # {}
<1>1. S \subseteq Nat
  BY RelayAssumption
<1>2. PICK r \in S : \A q \in S : r <= q
  BY LeastRow
<1>3. {q \in S : q < r} = {}
  <2>1. ASSUME NEW q \in S PROVE ~(q < r)
    BY <1>1, <1>2
  <2> QED
    BY <2>1
<1>4. Cardinality({q \in S : q < r}) < BatchSize
  BY <1>3, FS_EmptySet, RelayAssumption
<1>5. r \in FirstRows(S, BatchSize)
  BY <1>2, <1>4 DEF FirstRows
<1> QED
  BY <1>5

\* SKIP LOCKED hides no row for good: the rows that one tick skips another has
\* in hand, and that one waits for nothing (the safety half of
\* EveryEventPublished).
THEOREM BacklogAlwaysServed ==
    ASSUME Ticks # {}
    PROVE  Spec => []BacklogIsServed
<1>1. RelayInv => BacklogIsServed
  <2> SUFFICES ASSUME RelayInv, inserted # published PROVE \E k \in Ticks : Ready(k)
    BY DEF BacklogIsServed
  <2>1. /\ pc \in [Ticks -> {"idle", "publish", "mark"}]
        /\ inserted \subseteq Rows /\ published \subseteq inserted
    BY DEF RelayInv, TypeOK
  <2>2. CASE \E k \in Ticks : pc[k] # "idle"
    BY <2>1, <2>2 DEF Ready
  <2>3. CASE \A k \in Ticks : pc[k] = "idle"
    <3>1. Locked = {}
      BY <2>3 DEF Locked, RelayInv, BatchesApart
    <3>2. Claimable \in SUBSET Rows /\ Claimable # {}
      BY <2>1, <3>1 DEF Claimable
    <3>3. FirstRows(Claimable, BatchSize) # {}
      BY <3>2, FirstRowsSome
    <3> QED
      BY <2>3, <3>3 DEF Ready
  <2> QED
    BY <2>2, <2>3
<1> QED
  BY <1>1, RelayInvariant, PTL
=============================================================================
