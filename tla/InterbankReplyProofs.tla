------------------------ MODULE InterbankReplyProofs ------------------------
(***************************************************************************)
(* For any number of transfers, deliveries, sweeps and failures: a terminal*)
(* status stays, an acknowledged outcome has settled its transfer, and, of *)
(* the transfers whose request is not late, the payer is refunded once and *)
(* exactly when the Hub did not move the money - or a client's transfer has*)
(* the key of the refund.                                                  *)
(***************************************************************************)
EXTENDS InterbankReply, TLAPS

Working == {"find", "confirm", "insert", "mark", "commit"}

\* What an outcome rests on: the Hub's row, which is settled, or that there is
\* none and, the request not being late, there will be none.
Grounded(t, o) ==
    IF o = "CONFIRMED" THEN hub[t] = "CONFIRMED"
    ELSE \/ hub[t] \in {"REVERSED", "REJECTED"}
         \/ hub[t] = "none" /\ stale[t]

\* Where each caller of handle() is, and what its transaction holds.
CallerInv(p) ==
    /\ pc[p] \in Working => cur[p] \in Transfers
    /\ pc[p] \in Working /\ cur[p] \in OnTime => Grounded(cur[p], outcome[p])
    /\ pc[p] = "confirm" => outcome[p] = "CONFIRMED"
    /\ pc[p] \in {"insert", "mark", "commit"} => outcome[p] # "CONFIRMED"
    /\ pc[p] \notin {"mark", "commit"} => tx[p] = NoWrites
    /\ pc[p] \in {"mark", "commit"} =>
         IF tx[p].reversals = 1
         THEN keyHolder[cur[p]] = p /\ key[cur[p]] = "none"
         ELSE tx[p].reversals = 0 /\ key[cur[p]] # "none"
    /\ pc[p] = "mark" => tx[p].status = "none"
    /\ pc[p] = "commit" =>
         IF tx[p].status = "none" THEN status[cur[p]] # "DEBITED"
         ELSE rowHolder[cur[p]] = p /\ status[cur[p]] = "DEBITED"

\* The rows of a transfer whose request is not late.
TransferInv(t) ==
    /\ reversals[t] = IF key[t] = "refund" THEN 1 ELSE 0
    /\ key[t] = "refund" => status[t] = "COMPENSATED"
    /\ status[t] = "COMPENSATED" => key[t] # "none"
    /\ status[t] = "CONFIRMED" => hub[t] = "CONFIRMED"
    /\ status[t] = "COMPENSATED" => Grounded(t, "REJECTED")

AckInv(d) ==
    result[d] = "acked" => /\ pc[d] = "done" /\ cur[d] \in Transfers
                           /\ status[cur[d]] # "DEBITED"

ReplyInv ==
    /\ TypeOK
    /\ \A p \in Callers : CallerInv(p)
    /\ \A t \in OnTime : TransferInv(t)
    /\ \A d \in Deliveries : AckInv(d)
    /\ \A w \in Sweepers : \A t \in todo[w] : stale[t]

----------------------------------------------------------------------------
LEMMA InitReply == Init => ReplyInv
<1> SUFFICES ASSUME Init PROVE ReplyInv
  OBVIOUS
<1>1. TypeOK
  BY ReplyAssumption DEF Init, TypeOK, NoWrites, Callers
<1>2. \A p \in Callers : CallerInv(p)
  BY DEF Init, CallerInv, Working
<1>3. \A t \in OnTime : TransferInv(t)
  BY DEF Init, TransferInv, OnTime
<1>4. \A d \in Deliveries : AckInv(d)
  BY DEF Init, AckInv
<1> QED
  BY <1>1, <1>2, <1>3, <1>4 DEF Init, ReplyInv

LEMMA EndTxTypes ==
    ASSUME TypeOK, NEW p \in Callers, EndTx(p)
    PROVE  /\ tx' \in [Callers -> [status: {"none", "COMPENSATED"}, reversals: 0..1]]
           /\ keyHolder' \in [Transfers -> Callers \cup {None}]
           /\ rowHolder' \in [Transfers -> Callers \cup {None}]
           /\ tx'[p] = NoWrites
           /\ \A q \in Callers \ {p} : tx'[q] = tx[q]
           /\ \A q \in Callers \ {p}, t \in Transfers : /\ keyHolder[t] = q => keyHolder'[t] = q
                                                        /\ rowHolder[t] = q => rowHolder'[t] = q
BY ReplyAssumption DEF TypeOK, EndTx, NoWrites

\* The Hub's rows and the clock move, never against what is grounded on them.
LEMMA GroundedStays ==
    ASSUME ReplyInv, NEW u \in Transfers,
           HubRecords(u) \/ HubSettles(u) \/ GrowStale(u)
    PROVE  ReplyInv'
<1> USE DEF ReplyInv
<1>1. \A t \in OnTime, o \in {"none"} \cup Final : Grounded(t, o) => Grounded(t, o)'
  BY DEF HubRecords, HubSettles, GrowStale, Grounded, OnTime, TypeOK
<1>2. \A t \in Transfers : stale[t] => stale'[t]
  BY DEF HubRecords, HubSettles, GrowStale, TypeOK
<1>3. UNCHANGED <<bankA, pc, cur, outcome, todo, result, failures>>
  BY DEF HubRecords, HubSettles, GrowStale
<1>4. TypeOK'
  <2>1. hub' \in [Transfers -> {"none", "PENDING"} \cup Final] /\ stale' \in [Transfers -> BOOLEAN]
    <3>1. CASE HubRecords(u)
      BY <3>1 DEF HubRecords, TypeOK, Final
    <3>2. CASE HubSettles(u)
      BY <3>2 DEF HubSettles, TypeOK, Final
    <3>3. CASE GrowStale(u)
      BY <3>3 DEF GrowStale, TypeOK
    <3> QED
      BY <3>1, <3>2, <3>3
  <2> QED
    BY <1>3, <2>1 DEF TypeOK, bankA
<1>5. \A p \in Callers : CallerInv(p)'
  <2> SUFFICES ASSUME NEW p \in Callers PROVE CallerInv(p)'
    OBVIOUS
  <2>1. CallerInv(p) /\ outcome[p] \in {"none"} \cup Final
    BY DEF TypeOK
  <2>2. pc[p] \in Working /\ cur[p] \in OnTime => Grounded(cur[p], outcome[p])'
    BY <1>1, <1>3, <2>1 DEF CallerInv, Grounded
  <2> QED
    BY <1>3, <2>1, <2>2 DEF CallerInv, bankA
<1>6. \A t \in OnTime : TransferInv(t)'
  <2>1. \A t \in OnTime : hub[t] = "CONFIRMED" => hub'[t] = "CONFIRMED"
    BY DEF HubRecords, HubSettles, GrowStale, OnTime, TypeOK
  <2> QED
    BY <1>1, <1>3, <2>1 DEF TransferInv, bankA, Final
<1>7. \A d \in Deliveries : AckInv(d)'
  BY <1>3 DEF AckInv, bankA
<1>8. \A w \in Sweepers : \A t \in todo'[w] : stale'[t]
  BY <1>2, <1>3 DEF TypeOK
<1> QED
  BY <1>4, <1>5, <1>6, <1>7, <1>8

\* A step of one caller that leaves the committed rows alone.
LEMMA QuietStep ==
    ASSUME ReplyInv, TypeOK', NEW p \in Callers,
           UNCHANGED <<status, reversals, key, hub, stale>>,
           CallerInv(p)', p \in Deliveries => AckInv(p)',
           \A w \in Sweepers : \A t \in todo'[w] : stale[t],
           \A q \in Callers \ {p} :
               /\ pc'[q] = pc[q] /\ tx'[q] = tx[q] /\ cur'[q] = cur[q] /\ outcome'[q] = outcome[q]
               /\ \A t \in Transfers : /\ keyHolder[t] = q => keyHolder'[t] = q
                                       /\ rowHolder[t] = q => rowHolder'[t] = q,
           \A d \in Deliveries \ {p} : result'[d] = result[d]
    PROVE  ReplyInv'
<1> USE DEF ReplyInv
<1>1. \A q \in Callers \ {p} : CallerInv(q)'
  <2> SUFFICES ASSUME NEW q \in Callers \ {p} PROVE CallerInv(q)'
    OBVIOUS
  <2>1. CallerInv(q)
    OBVIOUS
  <2> QED
    BY <2>1 DEF CallerInv, Grounded, OnTime, Working
<1>2. \A t \in OnTime : TransferInv(t)'
  BY DEF TransferInv, Grounded
<1>3. \A d \in Deliveries \ {p} : AckInv(d)'
  BY DEF AckInv, Callers
<1> QED
  BY <1>1, <1>2, <1>3


\* What a caller is about stays grounded while only this caller moves.
LEMMA SweepSteps ==
    ASSUME ReplyInv, NEW w \in Sweepers,
           Sweep(w) \/ \E t \in Transfers : AskHubFails(w, t)
    PROVE  ReplyInv'
<1> USE DEF ReplyInv
<1>1. w \in Callers /\ w \notin Deliveries
  BY ReplyAssumption DEF Callers
<1>2. UNCHANGED <<bankA, hub, stale, result>>
  BY DEF Sweep, StartSweep, EndSweep, AskHub, AskHubFails
<1>3. /\ \A q \in Callers \ {w} : pc'[q] = pc[q] /\ cur'[q] = cur[q] /\ outcome'[q] = outcome[q]
      /\ \A v \in Sweepers : \A t \in todo'[v] : stale[t]
  BY DEF Sweep, StartSweep, EndSweep, AskHub, AskHubFails, Goto, TypeOK
<1>4. TypeOK'
  <2>1. CASE StartSweep(w)
    BY <1>1, <2>1 DEF StartSweep, Goto, TypeOK, bankA
  <2>4. CASE EndSweep(w)
    BY <1>1, <2>4 DEF EndSweep, Goto, TypeOK, bankA
  <2>2. ASSUME NEW t \in Transfers, AskHub(w, t) PROVE TypeOK'
    <3>1. pc' \in [Callers -> {"idle", "find", "confirm", "insert", "mark", "commit", "sweep", "done"}]
      BY <1>1, <2>2 DEF AskHub, Goto, TypeOK
    <3>3. cur' \in [Callers -> Transfers \cup {None}]
      BY <1>1, <2>2 DEF AskHub, TypeOK
    <3>4. todo' \in [Sweepers -> SUBSET Transfers]
      BY <2>2 DEF AskHub, TypeOK
    <3>2. outcome' \in [Callers -> {"none"} \cup Final]
      <4>1. CASE hub[t] = "PENDING"
        BY <2>2, <4>1 DEF AskHub, TypeOK
      <4>2. CASE hub[t] # "PENDING"
        <5>1. hub[t] \in {"none"} \cup Final
          BY <4>2 DEF TypeOK
        <5>2. (IF hub[t] = "none" THEN "REJECTED" ELSE hub[t]) \in Final
          BY <5>1 DEF Final
        <5> QED
          BY <1>1, <2>2, <4>2, <5>2 DEF AskHub, TypeOK
      <4> QED
        BY <4>1, <4>2
    <3> QED
      BY <1>2, <2>2, <3>1, <3>2, <3>3, <3>4 DEF AskHub, TypeOK, bankA
  <2>3. ASSUME NEW t \in Transfers, AskHubFails(w, t) PROVE TypeOK'
    BY <2>3, ReplyAssumption DEF AskHubFails, TypeOK, bankA
  <2> QED
    BY <2>1, <2>2, <2>3, <2>4 DEF Sweep
<1>5. CallerInv(w)'
  <2>1. CASE StartSweep(w) \/ EndSweep(w)
    BY <1>1, <2>1 DEF StartSweep, EndSweep, Goto, CallerInv, Working, TypeOK, bankA
  <2>2. ASSUME NEW t \in Transfers, AskHub(w, t) PROVE CallerInv(w)'
    <3>1. CASE hub[t] = "PENDING"
      BY <1>1, <2>2, <3>1 DEF AskHub, CallerInv, Working, TypeOK, bankA, Grounded, OnTime
    <3>2. CASE hub[t] # "PENDING"
      <4>1. /\ cur'[w] = t /\ pc'[w] = "find"
            /\ outcome'[w] = IF hub[t] = "none" THEN "REJECTED" ELSE hub[t]
            /\ tx'[w] = NoWrites
        BY <1>1, <2>2, <3>2 DEF AskHub, Goto, CallerInv, TypeOK, bankA
      <4>2. stale[t] /\ hub[t] \in {"none"} \cup Final
        BY <2>2, <3>2 DEF AskHub, TypeOK
      <4>3. UNCHANGED <<hub, stale>>
        BY <1>2
      <4>4. Grounded(t, outcome[w])'
        BY <4>1, <4>2, <4>3 DEF Grounded, Final
      <4> QED
        BY <4>1, <4>4, <2>2 DEF CallerInv, Working
    <3> QED
      BY <3>1, <3>2
  <2>3. ASSUME NEW t \in Transfers, AskHubFails(w, t) PROVE CallerInv(w)'
    BY <1>1, <2>3 DEF AskHubFails, CallerInv, Working, TypeOK, bankA, Grounded, OnTime
  <2> QED
    BY <2>1, <2>2, <2>3 DEF Sweep
<1> QED
  BY <1>1, <1>2, <1>3, <1>4, <1>5, QuietStep DEF bankA

LEMMA DeliverStep ==
    ASSUME ReplyInv, NEW d \in Deliveries, NEW t \in Transfers, Deliver(d, t)
    PROVE  ReplyInv'
<1> USE DEF ReplyInv
<1>1. d \in Callers
  BY DEF Callers
<1>2. /\ hub[t] \in Final /\ pc[d] = "idle"
      /\ cur'[d] = t /\ outcome'[d] = hub[t] /\ pc'[d] = "find" /\ tx'[d] = NoWrites
      /\ UNCHANGED <<bankA, hub, stale, todo, result>>
      /\ \A q \in Callers \ {d} : pc'[q] = pc[q] /\ cur'[q] = cur[q] /\ outcome'[q] = outcome[q]
  BY <1>1 DEF Deliver, Goto, CallerInv, TypeOK, bankA
<1>3. TypeOK'
  BY <1>1 DEF Deliver, Goto, TypeOK, bankA
<1>4. CallerInv(d)'
  <2>1. hub[t] \in {"CONFIRMED", "REVERSED", "REJECTED"} /\ hub' = hub /\ outcome'[d] = hub[t]
    BY <1>2 DEF Final
  <2>2. Grounded(t, outcome[d])'
    BY <2>1 DEF Grounded
  <2> QED
    BY <1>2, <2>2 DEF CallerInv, Working
<1>5. AckInv(d)'
  BY <1>2 DEF AckInv
<1> QED
  BY <1>1, <1>2, <1>3, <1>4, <1>5, QuietStep DEF bankA

\* Where a caller is after handle() returned or threw.
LEMMA ReturnTypes ==
    ASSUME TypeOK, NEW p \in Callers, Return(p) \/ Throw(p)
    PROVE  /\ pc' \in [Callers -> {"idle", "find", "confirm", "insert", "mark", "commit", "sweep", "done"}]
           /\ todo' \in [Sweepers -> SUBSET Transfers]
           /\ result' \in [Deliveries -> {"none", "acked", "dead", "unacked"}]
           /\ pc'[p] \in {"done", "sweep", "idle"}
           /\ p \in Deliveries => pc'[p] = "done"
           /\ Throw(p) /\ p \in Deliveries => result'[p] # "acked"
           /\ \A q \in Callers \ {p} : pc'[q] = pc[q]
           /\ \A w \in Sweepers : todo'[w] \subseteq todo[w]
           /\ \A d \in Deliveries \ {p} : result'[d] = result[d]
<1>1. CASE p \in Deliveries
  <2>1. Goto(p, "done") /\ todo' = todo
    BY <1>1 DEF Return, Throw
  <2>2. PICK r \in {"acked", "dead", "unacked"} :
            result' = [result EXCEPT ![p] = r] /\ (Throw(p) => r # "acked")
    BY <1>1 DEF Return, Throw
  <2>3. result' \in [Deliveries -> {"none", "acked", "dead", "unacked"}]
    BY <1>1, <2>2 DEF TypeOK
  <2> QED
    BY <1>1, <2>1, <2>2, <2>3 DEF TypeOK, Goto
<1>2. CASE p \notin Deliveries
  <2>1. p \in Sweepers /\ result' = result
    BY <1>2 DEF Return, Throw, Callers
  <2>2. todo' \in [Sweepers -> SUBSET Transfers] /\ \A w \in Sweepers : todo'[w] \subseteq todo[w]
    BY <1>2, <2>1 DEF TypeOK, Return, Throw
  <2>3. Goto(p, "sweep") \/ Goto(p, "idle")
    BY <1>2 DEF Return, Throw
  <2> QED
    BY <1>2, <2>1, <2>2, <2>3 DEF TypeOK, Goto
<1> QED
  BY <1>1, <1>2

LEMMA FindStep ==
    ASSUME ReplyInv, NEW p \in Callers, FindInterbank(p)
    PROVE  ReplyInv'
<1> USE DEF ReplyInv
<1>1. cur[p] \in Transfers /\ CallerInv(p) /\ pc[p] = "find" /\ tx[p] = NoWrites
  BY DEF FindInterbank, CallerInv, Working
<1>2. UNCHANGED <<bankA, hub, stale, cur, outcome, failures>>
  BY DEF FindInterbank
<1>3. CASE status[cur[p]] # "DEBITED"
  <2>1. Return(p)
    BY <1>3 DEF FindInterbank
  <2>2. TypeOK'
    BY <1>2, <2>1, ReturnTypes DEF TypeOK, bankA
  <2>3. CallerInv(p)'
    BY <1>1, <1>2, <2>1, ReturnTypes DEF CallerInv, Working, bankA
  <2>4. p \in Deliveries => AckInv(p)'
    BY <1>1, <1>2, <1>3, <2>1, ReturnTypes DEF AckInv, bankA
  <2>5. \A w \in Sweepers : \A t \in todo'[w] : stale[t]
    BY <2>1, ReturnTypes
  <2> QED
    BY <1>2, <2>1, <2>2, <2>3, <2>4, <2>5, ReturnTypes, QuietStep DEF bankA
<1>4. CASE status[cur[p]] = "DEBITED"
  <2>1. /\ pc' = [pc EXCEPT ![p] = IF outcome[p] = "CONFIRMED" THEN "confirm" ELSE "insert"]
        /\ UNCHANGED <<todo, result>>
    BY <1>4 DEF FindInterbank, Goto
  <2>2. TypeOK'
    BY <1>2, <2>1 DEF TypeOK, bankA
  <2>3. CallerInv(p)'
    BY <1>1, <1>2, <2>1 DEF CallerInv, Working, TypeOK, Grounded, OnTime, bankA
  <2>4. p \in Deliveries => AckInv(p)'
    BY <1>1, <1>2, <2>1 DEF AckInv, bankA
  <2> QED
    BY <1>2, <2>1, <2>2, <2>3, <2>4, QuietStep DEF TypeOK, bankA
<1> QED
  BY <1>3, <1>4

\* The reversal is buffered by one caller, or somebody has committed it.
LEMMA InsertStep ==
    ASSUME ReplyInv, NEW p \in Callers, InsertReversal(p)
    PROVE  ReplyInv'
<1> USE DEF ReplyInv
<1> DEFINE t == cur[p]
<1>1. t \in Transfers /\ CallerInv(p) /\ pc[p] = "insert" /\ tx[p] = NoWrites /\ keyHolder[t] = None
  BY DEF InsertReversal, CallerInv, Working
<1>2. /\ UNCHANGED <<status, reversals, key, rowHolder, hub, stale, cur, outcome, todo, result, failures>>
      /\ pc' = [pc EXCEPT ![p] = "mark"]
  BY DEF InsertReversal, Goto
<1>3. IF key[t] # "none"
      THEN UNCHANGED <<tx, keyHolder>>
      ELSE /\ keyHolder' = [keyHolder EXCEPT ![t] = p]
           /\ tx' = [tx EXCEPT ![p] = [status |-> "none", reversals |-> 1]]
  BY DEF InsertReversal
<1>4. TypeOK'
  <2>1. /\ keyHolder' \in [Transfers -> Callers \cup {None}]
        /\ tx' \in [Callers -> [status: {"none", "COMPENSATED"}, reversals: 0..1]]
    <3>1. CASE key[t] # "none"
      BY <1>3, <3>1 DEF TypeOK
    <3>2. CASE key[t] = "none"
      <4>1. keyHolder' \in [Transfers -> Callers \cup {None}]
        BY <1>1, <1>3, <3>2 DEF TypeOK
      <4>2. tx' = [tx EXCEPT ![p] = [status |-> "none", reversals |-> 1]]
        BY <1>3, <3>2
      <4>3. [status |-> "none", reversals |-> 1]
              \in [status: {"none", "COMPENSATED"}, reversals: 0..1]
        OBVIOUS
      <4>4. tx \in [Callers -> [status: {"none", "COMPENSATED"}, reversals: 0..1]]
        BY DEF TypeOK
      <4> QED
        BY <4>1, <4>2, <4>3, <4>4
    <3> QED
      BY <3>1, <3>2
  <2> QED
    BY <1>2, <2>1 DEF TypeOK
<1>5. CallerInv(p)'
  <2>1. pc'[p] = "mark" /\ cur'[p] = t /\ outcome'[p] = outcome[p] /\ outcome[p] # "CONFIRMED"
    BY <1>1, <1>2 DEF CallerInv, TypeOK
  <2>2. t \in OnTime => Grounded(t, outcome[p])
    BY <1>1 DEF CallerInv, Working
  <2>3. IF key[t] # "none" THEN tx'[p] = NoWrites
        ELSE /\ tx'[p] = [status |-> "none", reversals |-> 1]
             /\ keyHolder'[t] = p
    BY <1>1, <1>3 DEF TypeOK
  <2> QED
    BY <1>1, <1>2, <2>1, <2>2, <2>3 DEF CallerInv, Grounded, NoWrites, Working
<1>6. p \in Deliveries => AckInv(p)'
  BY <1>1, <1>2 DEF AckInv
<1>7. \A q \in Callers \ {p} :
         /\ pc'[q] = pc[q] /\ tx'[q] = tx[q]
         /\ \A u \in Transfers : keyHolder[u] = q => keyHolder'[u] = q
  BY <1>1, <1>2, <1>3, ReplyAssumption DEF TypeOK
<1> QED
  BY <1>2, <1>4, <1>5, <1>6, <1>7, QuietStep

LEMMA MarkStep ==
    ASSUME ReplyInv, NEW p \in Callers, MarkCompensated(p)
    PROVE  ReplyInv'
<1> USE DEF ReplyInv
<1> DEFINE t == cur[p]
<1>1. /\ t \in Transfers /\ CallerInv(p) /\ pc[p] = "mark" /\ tx[p].status = "none"
      /\ rowHolder[t] = None
  BY DEF MarkCompensated, CallerInv, Working
<1>2. /\ UNCHANGED <<status, reversals, key, keyHolder, hub, stale, cur, outcome, todo, result, failures>>
      /\ pc' = [pc EXCEPT ![p] = "commit"]
  BY DEF MarkCompensated, Goto
<1>3. IF status[t] = "DEBITED"
      THEN /\ rowHolder' = [rowHolder EXCEPT ![t] = p]
           /\ tx' = [tx EXCEPT ![p] = [status |-> "COMPENSATED", reversals |-> tx[p].reversals]]
      ELSE UNCHANGED <<rowHolder, tx>>
  BY DEF MarkCompensated
<1>4. TypeOK'
  <2>1. /\ rowHolder' \in [Transfers -> Callers \cup {None}]
        /\ tx' \in [Callers -> [status: {"none", "COMPENSATED"}, reversals: 0..1]]
    <3>1. CASE status[t] # "DEBITED"
      BY <1>3, <3>1 DEF TypeOK
    <3>2. CASE status[t] = "DEBITED"
      <4>1. p \in Callers /\ tx[p].reversals \in 0..1 
        BY DEF TypeOK
      <4>2. rowHolder' \in [Transfers -> Callers \cup {None}]
        BY <1>1, <1>3, <3>2 DEF TypeOK
      <4>3. [status |-> "COMPENSATED", reversals |-> tx[p].reversals]
              \in [status: {"none", "COMPENSATED"}, reversals: 0..1]
        BY <4>1
      <4> QED
        BY <1>3, <3>2, <4>2, <4>3 DEF TypeOK
    <3> QED
      BY <3>1, <3>2
  <2> QED
    BY <1>2, <2>1 DEF TypeOK
<1>5. CallerInv(p)'
  <2>1. pc'[p] = "commit" /\ cur'[p] = t /\ outcome'[p] = outcome[p] /\ outcome[p] # "CONFIRMED"
    BY <1>1, <1>2 DEF CallerInv, TypeOK
  <2>2. t \in OnTime => Grounded(t, outcome[p])
    BY <1>1 DEF CallerInv, Working
  <2>3. /\ tx'[p].reversals = tx[p].reversals
        /\ IF status[t] = "DEBITED" THEN tx'[p].status = "COMPENSATED" /\ rowHolder'[t] = p
           ELSE tx'[p].status = "none"
    BY <1>1, <1>3 DEF TypeOK
  <2> QED
    BY <1>1, <1>2, <2>1, <2>2, <2>3 DEF CallerInv, Grounded, Working
<1>6. p \in Deliveries => AckInv(p)'
  BY <1>1, <1>2 DEF AckInv
<1>7. \A q \in Callers \ {p} :
         /\ pc'[q] = pc[q] /\ tx'[q] = tx[q]
         /\ \A u \in Transfers : rowHolder[u] = q => rowHolder'[u] = q
  BY <1>1, <1>2, <1>3, ReplyAssumption DEF TypeOK
<1> QED
  BY <1>2, <1>4, <1>5, <1>6, <1>7, QuietStep

LEMMA FailStep ==
    ASSUME ReplyInv, NEW p \in Callers, Fail(p)
    PROVE  ReplyInv'
<1> USE DEF ReplyInv
<1>1. /\ EndTx(p) /\ Throw(p) /\ pc[p] # "done"
      /\ UNCHANGED <<status, reversals, key, hub, stale, cur, outcome>>
      /\ failures' \in 0..MaxFailures
  BY ReplyAssumption DEF Fail, TypeOK
<1>2. TypeOK'
  BY <1>1, EndTxTypes, ReturnTypes DEF TypeOK
<1>3. CallerInv(p)'
  BY <1>1, EndTxTypes, ReturnTypes DEF CallerInv, Working
<1>4. p \in Deliveries => AckInv(p)'
  BY <1>1, ReturnTypes DEF AckInv
<1>5. \A w \in Sweepers : \A t \in todo'[w] : stale[t]
  BY <1>1, ReturnTypes
<1> QED
  BY <1>1, <1>2, <1>3, <1>4, <1>5, EndTxTypes, ReturnTypes, QuietStep

----------------------------------------------------------------------------
\* The rows of the caller's transfer change: nobody else's transaction relied
\* on them, and every other transfer's rows stay.
LEMMA RowsStep ==
    ASSUME ReplyInv, TypeOK', NEW p \in Callers, NEW t \in Transfers,
           UNCHANGED <<hub, stale, cur, outcome>>,
           \A u \in Transfers \ {t} : /\ status'[u] = status[u] /\ reversals'[u] = reversals[u]
                                      /\ key'[u] = key[u],
           status[t] # "DEBITED" => status'[t] # "DEBITED",
           key[t] # "none" => key'[t] # "none",
           \A q \in Callers \ {p} : rowHolder[t] = q => status'[t] = status[t],
           \A q \in Callers \ {p} : keyHolder[t] = q => key'[t] = key[t],
           t \in OnTime => TransferInv(t)',
           CallerInv(p)', p \in Deliveries => AckInv(p)',
           \A w \in Sweepers : \A u \in todo'[w] : stale[u],
           \A q \in Callers \ {p} :
               /\ pc'[q] = pc[q] /\ tx'[q] = tx[q]
               /\ \A u \in Transfers : /\ keyHolder[u] = q => keyHolder'[u] = q
                                       /\ rowHolder[u] = q => rowHolder'[u] = q,
           \A d \in Deliveries \ {p} : result'[d] = result[d]
    PROVE  ReplyInv'
<1> USE DEF ReplyInv
<1>1. \A q \in Callers \ {p} : CallerInv(q)'
  <2> SUFFICES ASSUME NEW q \in Callers \ {p} PROVE CallerInv(q)'
    OBVIOUS
  <2>1. CallerInv(q)
    OBVIOUS
  <2>2. CASE cur[q] = t
    BY <2>1, <2>2 DEF CallerInv, Grounded, OnTime, Working, TypeOK
  <2>3. CASE cur[q] # t
    BY <2>1, <2>3 DEF CallerInv, Grounded, OnTime, Working
  <2> QED
    BY <2>2, <2>3
<1>2. \A u \in OnTime : TransferInv(u)'
  BY DEF TransferInv, Grounded, OnTime
<1>3. \A d \in Deliveries \ {p} : AckInv(d)'
  <2> SUFFICES ASSUME NEW d \in Deliveries \ {p} PROVE AckInv(d)'
    OBVIOUS
  <2>1. AckInv(d) /\ d \in Callers
    BY DEF Callers
  <2> QED
    BY <2>1 DEF AckInv
<1> QED
  BY <1>1, <1>2, <1>3

\* A CONFIRMED outcome is grounded on the Hub's row.
LEMMA ConfirmStep ==
    ASSUME ReplyInv, NEW p \in Callers, MarkConfirmed(p) \/ ConfirmUnheard(p)
    PROVE  ReplyInv'
<1> USE DEF ReplyInv
<1> DEFINE t == cur[p]
<1>1. /\ t \in Transfers /\ CallerInv(p) /\ pc[p] = "confirm" /\ tx[p] = NoWrites
      /\ rowHolder[t] = None
      /\ status' = [status EXCEPT ![t] = IF @ = "DEBITED" THEN "CONFIRMED" ELSE @]
      /\ UNCHANGED <<reversals, key, tx, keyHolder, rowHolder, hub, stale, cur, outcome>>
  BY DEF MarkConfirmed, ConfirmUnheard, ConfirmRow, Settled, CallerInv, Working
<1>2. Return(p) \/ Throw(p)
  BY DEF MarkConfirmed, ConfirmUnheard
<1>3. failures' \in 0..MaxFailures
  BY ReplyAssumption DEF MarkConfirmed, ConfirmUnheard, TypeOK
<1>4. TypeOK'
  <2>1. status' \in [Transfers -> {"DEBITED", "CONFIRMED", "COMPENSATED"}]
    BY <1>1 DEF TypeOK
  <2> QED
    BY <1>1, <1>2, <1>3, <2>1, ReturnTypes DEF TypeOK
<1>5. /\ \A u \in Transfers \ {t} : status'[u] = status[u]
      /\ status'[t] = IF status[t] = "DEBITED" THEN "CONFIRMED" ELSE status[t]
  BY <1>1 DEF TypeOK
<1>6. ASSUME t \in OnTime PROVE TransferInv(t)'
  <2>1. hub[t] = "CONFIRMED"
    BY <1>1, <1>6 DEF CallerInv, Grounded, Working
  <2> QED
    BY <1>1, <1>5, <1>6, <2>1 DEF TransferInv, Grounded
<1>7. CallerInv(p)'
  BY <1>1, <1>2, ReturnTypes DEF CallerInv, Working
<1>8. p \in Deliveries => AckInv(p)'
  BY <1>1, <1>2, <1>5, ReturnTypes DEF AckInv
<1>9. \A q \in Callers \ {p} : rowHolder[t] # q
  BY <1>1, ReplyAssumption
<1>10. \A w \in Sweepers : \A u \in todo'[w] : stale[u]
  BY <1>2, ReturnTypes
<1> QED
  BY <1>1, <1>2, <1>4, <1>5, <1>6, <1>7, <1>8, <1>9, <1>10, ReturnTypes, RowsStep

\* A compensation commits its reversal if nobody else has, and its status if
\* the row is DEBITED; of a transfer that is on time it does both or neither.
LEMMA CommitStep ==
    ASSUME ReplyInv, NEW p \in Callers, Commit(p) \/ CommitUnheard(p)
    PROVE  ReplyInv'
<1> USE DEF ReplyInv
<1>0. PICK t \in Transfers : t = cur[p]
  BY DEF Commit, CommitUnheard, CallerInv, Working
<1>1. /\ t = cur[p] /\ CallerInv(p) /\ pc[p] = "commit" /\ EndTx(p)
      /\ status' = [status EXCEPT ![t] = IF tx[p].status = "none" THEN @ ELSE tx[p].status]
      /\ reversals' = [reversals EXCEPT ![t] = @ + tx[p].reversals]
      /\ key' = [key EXCEPT ![t] = IF tx[p].reversals = 0 THEN @ ELSE "refund"]
      /\ UNCHANGED <<hub, stale, cur, outcome>>
  BY <1>0 DEF Commit, CommitUnheard, Publish
<1>2. Return(p) \/ Throw(p)
  BY DEF Commit, CommitUnheard
<1>3. failures' \in 0..MaxFailures
  BY ReplyAssumption DEF Commit, CommitUnheard, TypeOK
<1>4. /\ tx[p].status \in {"none", "COMPENSATED"} /\ tx[p].reversals \in 0..1
  BY DEF TypeOK
<1>5. /\ status'[t] = IF tx[p].status = "none" THEN status[t] ELSE "COMPENSATED"
      /\ reversals'[t] = reversals[t] + tx[p].reversals
      /\ key'[t] = IF tx[p].reversals = 0 THEN key[t] ELSE "refund"
      /\ \A u \in Transfers \ {t} : /\ status'[u] = status[u] /\ reversals'[u] = reversals[u]
                                    /\ key'[u] = key[u]
  BY <1>1, <1>4 DEF TypeOK
<1>6. TypeOK'
  <2>1. status' \in [Transfers -> {"DEBITED", "CONFIRMED", "COMPENSATED"}]
    BY <1>1, <1>4 DEF TypeOK
  <2>2. reversals' \in [Transfers -> Nat]
    BY <1>1, <1>4 DEF TypeOK
  <2>3. key' \in [Transfers -> {"none", "refund", "client"}]
    BY <1>1, <1>4 DEF TypeOK
  <2> QED
    BY <1>1, <1>2, <1>3, <2>1, <2>2, <2>3, EndTxTypes, ReturnTypes DEF TypeOK
<1>7. ASSUME t \in OnTime PROVE TransferInv(t)'
  <2>1. /\ TransferInv(t) /\ Grounded(t, outcome[p]) /\ outcome[p] # "CONFIRMED"
    BY <1>1, <1>7 DEF CallerInv, Working
  <2>2. status[t] # "CONFIRMED" /\ Grounded(t, "REJECTED")
    BY <2>1 DEF TransferInv, Grounded
  <2>3. CASE tx[p].reversals = 1
    <3>1. key[t] = "none" /\ reversals[t] = 0
      BY <1>1, <2>1, <2>3 DEF CallerInv, TransferInv
    <3>2. status[t] = "DEBITED"
      BY <1>1, <2>1, <2>2, <3>1 DEF TransferInv, TypeOK
    <3>3. status'[t] = "COMPENSATED" /\ key'[t] = "refund" /\ reversals'[t] = 1
      BY <1>1, <1>5, <2>3, <3>1, <3>2 DEF CallerInv
    <3> QED
      BY <1>1, <2>2, <3>3 DEF TransferInv, Grounded
  <2>4. CASE tx[p].reversals = 0
    <3>1. key[t] # "none" /\ status'[t] = "COMPENSATED"
      <4>1. key[t] # "none"
        BY <1>1, <2>4 DEF CallerInv
      <4>2. tx[p].status = "none" => status[t] = "COMPENSATED"
        BY <1>1, <2>2 DEF CallerInv, TypeOK
      <4> QED
        BY <1>4, <1>5, <4>1, <4>2
    <3>2. key'[t] = key[t] /\ reversals'[t] = reversals[t]
      BY <1>5, <2>4 DEF TypeOK
    <3> QED
      BY <1>1, <2>1, <2>2, <3>1, <3>2 DEF TransferInv, Grounded
  <2> QED
    BY <1>4, <2>3, <2>4
<1>8. CallerInv(p)'
  BY <1>1, <1>2, EndTxTypes, ReturnTypes DEF CallerInv, Working
<1>9. status'[t] # "DEBITED"
  BY <1>1, <1>4, <1>5 DEF CallerInv
<1>10. p \in Deliveries => AckInv(p)'
  BY <1>1, <1>2, <1>9, ReturnTypes DEF AckInv
<1>11. \A q \in Callers \ {p} : rowHolder[t] = q => status'[t] = status[t]
  BY <1>1, <1>5 DEF CallerInv
<1>18. \A q \in Callers \ {p} : keyHolder[t] = q => key'[t] = key[t]
  <2>1. \A q \in Callers \ {p} : keyHolder[t] = q => tx[p].reversals = 0
    BY <1>1, <1>4 DEF CallerInv
  <2>2. tx[p].reversals = 0 => key'[t] = key[t]
    BY <1>1, <1>4 DEF TypeOK
  <2> QED
    BY <2>1, <2>2
<1>12. \A w \in Sweepers : \A u \in todo'[w] : stale[u]
  BY <1>2, ReturnTypes
<1>13. key[t] # "none" => key'[t] # "none"
  BY <1>5
<1>14. \A q \in Callers \ {p} :
          /\ pc'[q] = pc[q] /\ tx'[q] = tx[q]
          /\ \A u \in Transfers : /\ keyHolder[u] = q => keyHolder'[u] = q
                                  /\ rowHolder[u] = q => rowHolder'[u] = q
  BY <1>1, <1>2, EndTxTypes, ReturnTypes
<1>15. \A d \in Deliveries \ {p} : result'[d] = result[d]
  BY <1>2, ReturnTypes
<1>16. UNCHANGED <<hub, stale, cur, outcome>>
  BY <1>1
<1>17. \A u \in Transfers \ {t} : /\ status'[u] = status[u] /\ reversals'[u] = reversals[u]
                                  /\ key'[u] = key[u]
  BY <1>5
<1>20. t \in OnTime => TransferInv(t)'
  BY <1>7
<1>21. status[t] # "DEBITED" => status'[t] # "DEBITED"
  BY <1>9
<1> QED
  BY <1>6, <1>11, <1>18, <1>20, <1>21, <1>8, <1>10, <1>12, <1>13, <1>14, <1>15, <1>16, <1>17,
     RowsStep

\* Nobody's transaction has the key that a client's transfer takes.
LEMMA ClientStep ==
    ASSUME ReplyInv, NEW u \in Transfers, ClientTakesKey(u)
    PROVE  ReplyInv'
<1> USE DEF ReplyInv
<1>1. /\ key[u] = "none" /\ keyHolder[u] = None
      /\ key' = [key EXCEPT ![u] = "client"]
      /\ UNCHANGED <<status, reversals, tx, keyHolder, rowHolder, hub, stale, pc, cur,
                     outcome, todo, result, failures>>
  BY DEF ClientTakesKey
<1>2. /\ key'[u] = "client"
      /\ \A t \in Transfers \ {u} : key'[t] = key[t]
  BY <1>1 DEF TypeOK
<1>3. TypeOK'
  BY <1>1 DEF TypeOK
<1>4. \A p \in Callers : CallerInv(p)'
  <2> SUFFICES ASSUME NEW p \in Callers PROVE CallerInv(p)'
    OBVIOUS
  <2>1. CallerInv(p) /\ p # None
    BY ReplyAssumption
  <2>2. pc[p] \in {"mark", "commit"} => cur[p] \in Transfers
    BY <2>1 DEF CallerInv, Working
  <2> QED
    BY <1>1, <1>2, <2>1, <2>2 DEF CallerInv, Grounded
<1>5. \A t \in OnTime : TransferInv(t)'
  BY <1>1, <1>2 DEF TransferInv, Grounded, OnTime
<1>6. \A d \in Deliveries : AckInv(d)'
  BY <1>1 DEF AckInv
<1> QED
  BY <1>1, <1>3, <1>4, <1>5, <1>6

----------------------------------------------------------------------------
LEMMA StepReply == ReplyInv /\ [Next]_vars => ReplyInv'
<1> SUFFICES ASSUME ReplyInv, [Next]_vars PROVE ReplyInv'
  OBVIOUS
<1>1. CASE UNCHANGED vars
  BY <1>1 DEF vars, bankA, ReplyInv, TypeOK, CallerInv, TransferInv, AckInv, Grounded, Working
<1>2. ASSUME NEW p \in Callers, Handle(p) \/ CommitUnheard(p) \/ ConfirmUnheard(p) \/ Fail(p)
      PROVE  ReplyInv'
  BY <1>2, FindStep, ConfirmStep, InsertStep, MarkStep, CommitStep, FailStep DEF Handle
<1> QED
  BY <1>1, <1>2, GroundedStays, ClientStep, DeliverStep, SweepSteps DEF Next

LEMMA ReplyInvariant == Spec => []ReplyInv
BY InitReply, StepReply, PTL DEF Spec

\* The payer of a transfer whose request is not late is refunded exactly when
\* it is COMPENSATED and no client's transfer has the key of its refund, and
\* once, however outcome messages, sweeps and clients' transfers overlap.
THEOREM RefundAlwaysFollows == Spec => []RefundFollowsStatus
<1>1. ReplyInv => RefundFollowsStatus
  BY DEF ReplyInv, TypeOK, TransferInv, RefundFollowsStatus, OnTime
<1> QED
  BY <1>1, ReplyInvariant, PTL

\* Bank A and the Hub never disagree on such a transfer: a 404 that a sweep
\* compensates stays a 404.
THEOREM AlwaysAgreesWithHub == Spec => []OnTimeAgreesWithHub
<1>1. ReplyInv => OnTimeAgreesWithHub
  <2> SUFFICES ASSUME ReplyInv, NEW t \in OnTime PROVE Agreed(t)
    BY DEF OnTimeAgreesWithHub
  <2>1. TransferInv(t)
    BY DEF ReplyInv
  <2> QED
    BY <2>1 DEF TransferInv, Grounded, Agreed
<1> QED
  BY <1>1, ReplyInvariant, PTL

\* An outcome the consumer acknowledged has settled its transfer.
THEOREM AcksAlwaysSettle == Spec => []AckedMeansSettled
<1>1. ReplyInv => AckedMeansSettled
  BY DEF ReplyInv, AckInv, AckedMeansSettled
<1> QED
  BY <1>1, ReplyInvariant, PTL

\* Bank A's rows, and those of the deliveries and sweeps that settle them, keep
\* their types (TypeOK).
THEOREM TypeCorrect == Spec => []TypeOK
<1>1. ReplyInv => TypeOK
  BY DEF ReplyInv
<1> QED
  BY <1>1, ReplyInvariant, PTL

----------------------------------------------------------------------------
(***************************************************************************)
(* InterbankReply implements AtomicClosing.  ReplyInv says nothing of a    *)
(* transfer whose request is late; this does, of every one.                *)
(***************************************************************************)

\* What a caller is about to do is what the abstract Bank A may do.
Allowed(p) ==
    pc[p] \in Working =>
        IF outcome[p] = "CONFIRMED" THEN hub[cur[p]] = "CONFIRMED" ELSE Ideal!Refusable(cur[p])

\* Refunded once, under the key of the refund, and never left DEBITED then.
Booked(t) ==
    /\ reversals[t] = IF key[t] = "refund" THEN 1 ELSE 0
    /\ key[t] = "refund" => status[t] # "DEBITED"
    /\ status[t] = "COMPENSATED" => key[t] # "none"

\* Only an open transaction holds a key or a row, its own transfer's, and the
\* row only with the key, unless a client's transfer has that.
HoldersAlive ==
    \A t \in Transfers :
        /\ keyHolder[t] # None =>
             pc[keyHolder[t]] \in {"mark", "commit"} /\ cur[keyHolder[t]] = t /\ key[t] = "none"
        /\ rowHolder[t] # None =>
             pc[rowHolder[t]] = "commit" /\ (rowHolder[t] = keyHolder[t] \/ key[t] = "client")

ClosingInv ==
    /\ \A p \in Callers : Allowed(p)
    /\ \A t \in Transfers : Booked(t)
    /\ HoldersAlive

clients == {t \in Transfers : key[t] = "client"}
closing == <<status, reversals, clients, hub, stale>>

LEMMA InitClosing == Init => ClosingInv
BY DEF Init, ClosingInv, Allowed, Booked, HoldersAlive, Working

\* A verdict once allowed stays allowed, late request or not.
LEMMA RefusableStays ==
    ASSUME ReplyInv, NEW u \in Transfers, NEW t \in Transfers,
           HubRecords(u) \/ HubSettles(u) \/ GrowStale(u)
    PROVE  /\ Ideal!Refusable(t) => Ideal!Refusable(t)'
           /\ hub[t] = "CONFIRMED" => hub'[t] = "CONFIRMED"
BY DEF HubRecords, HubSettles, GrowStale, Ideal!Refusable, ReplyInv, TypeOK

LEMMA EnvironmentClosing ==
    ASSUME ReplyInv, ClosingInv, NEW u \in Transfers,
           HubRecords(u) \/ HubSettles(u) \/ GrowStale(u)
    PROVE  ClosingInv' /\ (Ideal!HubRecords(u) \/ Ideal!HubSettles(u) \/ Ideal!Expire(u))
<1> USE DEF ReplyInv
<1>1. UNCHANGED <<bankA, pc, cur, outcome>>
  BY DEF HubRecords, HubSettles, GrowStale
<1>2. \A p \in Callers : Allowed(p)'
  <2> SUFFICES ASSUME NEW p \in Callers, pc[p] \in Working PROVE Allowed(p)'
    BY <1>1 DEF Allowed
  <2>1. PICK t \in Transfers : t = cur[p] /\ cur'[p] = t /\ outcome'[p] = outcome[p]
    BY <1>1 DEF CallerInv
  <2>2. /\ Ideal!Refusable(t) => Ideal!Refusable(t)'
        /\ hub[t] = "CONFIRMED" => hub'[t] = "CONFIRMED"
    BY RefusableStays
  <2>3. IF outcome[p] = "CONFIRMED" THEN hub[t] = "CONFIRMED" ELSE Ideal!Refusable(t)
    BY <2>1 DEF ClosingInv, Allowed, Ideal!Refusable
  <2>4. IF outcome'[p] = "CONFIRMED" THEN hub'[t] = "CONFIRMED" ELSE Ideal!Refusable(t)'
    BY <2>1, <2>2, <2>3
  <2> QED
    BY <2>1, <2>4 DEF Allowed, Ideal!Refusable
<1>3. (\A t \in Transfers : Booked(t)') /\ HoldersAlive'
  BY <1>1 DEF ClosingInv, Booked, HoldersAlive, bankA
<1>4. HubRecords(u) => Ideal!HubRecords(u)
  BY DEF HubRecords, bankA, Ideal!HubRecords, Ideal!HubMoves
<1>5. HubSettles(u) => Ideal!HubSettles(u)
  BY DEF HubSettles, bankA, Ideal!HubSettles, Ideal!HubMoves
<1>6. GrowStale(u) => Ideal!Expire(u)
  BY DEF GrowStale, bankA, Ideal!Expire
<1> QED
  BY <1>2, <1>3, <1>4, <1>5, <1>6 DEF ClosingInv

\* A step of p that leaves the committed rows alone.
LEMMA QuietClosing ==
    ASSUME ReplyInv, ClosingInv, NEW p \in Callers,
           UNCHANGED <<status, reversals, key, hub, stale>>,
           Allowed(p)', HoldersAlive',
           \A q \in Callers \ {p} : pc'[q] = pc[q] /\ cur'[q] = cur[q] /\ outcome'[q] = outcome[q]
    PROVE  ClosingInv' /\ UNCHANGED closing
<1>1. \A q \in Callers \ {p} : Allowed(q)'
  BY DEF ClosingInv, Allowed, Ideal!Refusable
<1>2. \A t \in Transfers : Booked(t)'
  BY DEF ClosingInv, Booked
<1> QED
  BY <1>1, <1>2 DEF ClosingInv, closing, clients

\* A caller that takes no lock and is in no transaction disturbs no holder.
LEMMA FreeHandsClosing ==
    ASSUME ReplyInv, HoldersAlive, NEW p \in Callers,
           UNCHANGED <<key, keyHolder, rowHolder>>, pc[p] \notin {"mark", "commit"},
           \A q \in Callers \ {p} : pc'[q] = pc[q] /\ cur'[q] = cur[q]
    PROVE  HoldersAlive'
BY DEF HoldersAlive, ReplyInv, TypeOK

LEMMA EndedHoldsNothing ==
    ASSUME ReplyInv, HoldersAlive, NEW p \in Callers, EndTx(p),
           \A t \in Transfers : /\ key[t] = "client" => key'[t] = "client"
                                /\ keyHolder[t] \notin {None, p} => key'[t] = key[t],
           \A q \in Callers \ {p} : pc'[q] = pc[q] /\ cur'[q] = cur[q]
    PROVE  HoldersAlive'
<1> SUFFICES ASSUME NEW t \in Transfers
             PROVE  /\ keyHolder'[t] # None =>
                         /\ pc'[keyHolder'[t]] \in {"mark", "commit"} /\ cur'[keyHolder'[t]] = t
                         /\ key'[t] = "none"
                    /\ rowHolder'[t] # None =>
                         /\ pc'[rowHolder'[t]] = "commit"
                         /\ rowHolder'[t] = keyHolder'[t] \/ key'[t] = "client"
  BY DEF HoldersAlive
<1>1. keyHolder[t] \in Callers \cup {None} /\ rowHolder[t] \in Callers \cup {None}
  BY DEF ReplyInv, TypeOK
<1>2. /\ keyHolder'[t] = IF keyHolder[t] = p THEN None ELSE keyHolder[t]
      /\ rowHolder'[t] = IF rowHolder[t] = p THEN None ELSE rowHolder[t]
  BY DEF EndTx
<1> QED
  BY <1>1, <1>2 DEF HoldersAlive

\* The key a client's transfer takes is nobody's, and no refund has it.
LEMMA ClientClosing ==
    ASSUME ReplyInv, ClosingInv, NEW u \in Transfers, ClientTakesKey(u)
    PROVE  ClosingInv' /\ Ideal!ClientTakesKey(u)
<1>1. /\ key[u] = "none" /\ keyHolder[u] = None
      /\ UNCHANGED <<status, reversals, keyHolder, rowHolder, hub, stale, pc, cur, outcome>>
      /\ key' = [key EXCEPT ![u] = "client"]
  BY DEF ClientTakesKey
<1>2. /\ key'[u] = "client"
      /\ \A t \in Transfers \ {u} : key'[t] = key[t]
  BY <1>1 DEF ReplyInv, TypeOK
<1>3. /\ \A p \in Callers : Allowed(p)'
      /\ \A t \in Transfers : Booked(t)'
  BY <1>1, <1>2 DEF ClosingInv, Allowed, Booked, Ideal!Refusable
<1>4. HoldersAlive'
  BY <1>1, <1>2 DEF ClosingInv, HoldersAlive
<1>5. Ideal!ClientTakesKey(u)
  <2>1. u \notin clients /\ clients' = clients \cup {u}
    BY <1>1, <1>2 DEF clients
  <2>2. reversals[u] = 0 /\ status[u] # "COMPENSATED"
    BY <1>1 DEF ClosingInv, Booked
  <2> QED
    BY <1>1, <2>1, <2>2 DEF Ideal!ClientTakesKey, clients
<1> QED
  BY <1>3, <1>4, <1>5 DEF ClosingInv

LEMMA SweepClosing ==
    ASSUME ReplyInv, ClosingInv, NEW w \in Sweepers,
           Sweep(w) \/ \E t \in Transfers : AskHubFails(w, t)
    PROVE  ClosingInv' /\ UNCHANGED closing
<1> USE DEF ReplyInv
<1>1. w \in Callers
  BY DEF Callers
<1>2. UNCHANGED <<bankA, hub, stale>>
  BY DEF Sweep, StartSweep, EndSweep, AskHub, AskHubFails
<1>3. \A q \in Callers \ {w} : pc'[q] = pc[q] /\ cur'[q] = cur[q] /\ outcome'[q] = outcome[q]
  BY DEF Sweep, StartSweep, EndSweep, AskHub, AskHubFails, Goto, TypeOK
<1>4. pc[w] \in {"idle", "sweep"}
  BY DEF Sweep, StartSweep, EndSweep, AskHub, AskHubFails
<1>5. Allowed(w)'
  <2>1. ASSUME NEW t \in Transfers, AskHub(w, t), hub[t] # "PENDING" PROVE Allowed(w)'
    <3>1. /\ cur'[w] = t
          /\ outcome'[w] = IF hub[t] = "none" THEN "REJECTED" ELSE hub[t]
      BY <1>1, <2>1 DEF AskHub, TypeOK
    <3>2. stale[t] /\ hub[t] \in {"none", "CONFIRMED", "REVERSED", "REJECTED"}
      BY <2>1 DEF AskHub, TypeOK, Final
    <3>3. IF outcome'[w] = "CONFIRMED" THEN hub[t] = "CONFIRMED" ELSE Ideal!Refusable(t)
      BY <3>1, <3>2 DEF Ideal!Refusable
    <3>4. (Ideal!Refusable(t) => Ideal!Refusable(cur[w])') /\ hub'[cur'[w]] = hub[t]
      BY <1>2, <3>1 DEF Ideal!Refusable
    <3> QED
      BY <3>3, <3>4 DEF Allowed
  <2>2. (~\E t \in Transfers : AskHub(w, t) /\ hub[t] # "PENDING") => pc'[w] \in {"idle", "sweep"}
    BY <1>1, <1>4 DEF Sweep, StartSweep, EndSweep, AskHub, AskHubFails, Goto, TypeOK
  <2> QED
    BY <2>1, <2>2 DEF Allowed, Working
<1>6. HoldersAlive'
  BY <1>1, <1>2, <1>3, <1>4, FreeHandsClosing DEF ClosingInv, bankA
<1> QED
  BY <1>1, <1>2, <1>3, <1>5, <1>6, QuietClosing DEF bankA

LEMMA DeliverClosing ==
    ASSUME ReplyInv, ClosingInv, NEW d \in Deliveries, NEW t \in Transfers, Deliver(d, t)
    PROVE  ClosingInv' /\ UNCHANGED closing
<1> USE DEF ReplyInv
<1>1. d \in Callers
  BY DEF Callers
<1>2. /\ hub[t] \in Final /\ pc[d] = "idle"
      /\ cur'[d] = t /\ outcome'[d] = hub[t]
      /\ UNCHANGED <<bankA, hub, stale>>
      /\ \A q \in Callers \ {d} : pc'[q] = pc[q] /\ cur'[q] = cur[q] /\ outcome'[q] = outcome[q]
  BY <1>1 DEF Deliver, Goto, TypeOK
<1>3. Allowed(d)'
  <2>1. IF outcome'[d] = "CONFIRMED" THEN hub[t] = "CONFIRMED" ELSE Ideal!Refusable(t)
    BY <1>2 DEF Final, Ideal!Refusable
  <2>2. (Ideal!Refusable(t) => Ideal!Refusable(cur[d])') /\ hub'[cur'[d]] = hub[t]
    BY <1>2 DEF Ideal!Refusable
  <2> QED
    BY <2>1, <2>2 DEF Allowed
<1>4. HoldersAlive'
  BY <1>1, <1>2, FreeHandsClosing DEF ClosingInv, bankA
<1> QED
  BY <1>1, <1>2, <1>3, <1>4, QuietClosing DEF bankA

LEMMA HandleQuietClosing ==
    ASSUME ReplyInv, ClosingInv, NEW p \in Callers,
           FindInterbank(p) \/ InsertReversal(p) \/ MarkCompensated(p) \/ Fail(p)
    PROVE  ClosingInv' /\ UNCHANGED closing
<1> USE DEF ReplyInv
<1>1. UNCHANGED <<status, reversals, key, hub, stale, cur, outcome>>
  BY DEF FindInterbank, InsertReversal, MarkCompensated, Fail, bankA
<1>2. \A q \in Callers \ {p} : pc'[q] = pc[q]
  BY ReturnTypes DEF FindInterbank, InsertReversal, MarkCompensated, Fail, Goto, TypeOK
<1>3. Allowed(p)'
  <2>1. pc'[p] \in Working => pc[p] \in Working
    BY ReturnTypes DEF FindInterbank, InsertReversal, MarkCompensated, Fail, Working
  <2> QED
    BY <1>1, <2>1 DEF ClosingInv, Allowed, Ideal!Refusable
<1>4. HoldersAlive'
  <2>1. CASE FindInterbank(p)
    BY <1>1, <1>2, <2>1, FreeHandsClosing DEF FindInterbank, bankA, ClosingInv
  <2>2. CASE Fail(p)
    BY <1>1, <1>2, <2>2, EndedHoldsNothing DEF Fail, ClosingInv
  <2>3. CASE InsertReversal(p)
    <3>1. /\ UNCHANGED <<rowHolder, cur>> /\ pc[p] = "insert" /\ pc'[p] = "mark"
          /\ \A t \in Transfers : keyHolder'[t] \in {keyHolder[t], p}
          /\ \A t \in Transfers :
               keyHolder'[t] # keyHolder[t] => t = cur[p] /\ keyHolder[t] = None
      BY <2>3 DEF InsertReversal, Goto, TypeOK
    <3>2. \A t \in Transfers : keyHolder'[t] # keyHolder[t] => key[t] = "none"
      BY <2>3 DEF InsertReversal, TypeOK
    <3> QED
      BY <1>1, <1>2, <3>1, <3>2 DEF ClosingInv, HoldersAlive, TypeOK
  <2>4. CASE MarkCompensated(p)
    <3>1. /\ UNCHANGED <<keyHolder, cur>> /\ pc[p] = "mark" /\ pc'[p] = "commit"
          /\ \A t \in Transfers : rowHolder'[t] \in {rowHolder[t], p}
          /\ \A t \in Transfers :
               rowHolder'[t] # rowHolder[t] => t = cur[p] /\ status[t] = "DEBITED"
      BY <2>4 DEF MarkCompensated, Goto, TypeOK
    <3>2. \A t \in Transfers : t = cur[p] /\ status[t] = "DEBITED" =>
                                 keyHolder[t] = p \/ key[t] = "client"
      BY <3>1 DEF ClosingInv, Booked, CallerInv, TypeOK
    <3> QED
      BY <1>1, <1>2, <3>1, <3>2 DEF ClosingInv, HoldersAlive, TypeOK
  <2> QED
    BY <2>1, <2>2, <2>3, <2>4
<1> QED
  BY <1>1, <1>2, <1>3, <1>4, QuietClosing

\* The committed rows of t change: what every other transfer shows stays.
LEMMA RowsClosing ==
    ASSUME ReplyInv, ClosingInv, NEW p \in Callers, NEW t \in Transfers,
           UNCHANGED <<hub, stale, cur, outcome>>,
           \A u \in Transfers \ {t} : /\ status'[u] = status[u] /\ reversals'[u] = reversals[u]
                                      /\ key'[u] = key[u],
           pc'[p] \notin Working, \A q \in Callers \ {p} : pc'[q] = pc[q],
           Booked(t)', HoldersAlive'
    PROVE  ClosingInv'
<1>1. \A q \in Callers : Allowed(q)'
  BY DEF ClosingInv, Allowed, Ideal!Refusable
<1>2. \A u \in Transfers : Booked(u)'
  BY DEF ClosingInv, Booked
<1> QED
  BY <1>1, <1>2 DEF ClosingInv

LEMMA ConfirmClosing ==
    ASSUME ReplyInv, ClosingInv, NEW p \in Callers, MarkConfirmed(p) \/ ConfirmUnheard(p)
    PROVE  ClosingInv' /\ (Ideal!Confirm(cur[p]) \/ UNCHANGED closing)
<1> USE DEF ReplyInv
<1>0. PICK t \in Transfers : t = cur[p]
  BY DEF MarkConfirmed, ConfirmUnheard, ConfirmRow, CallerInv, Working
<1>1. /\ pc[p] = "confirm"
      /\ status' = [status EXCEPT ![t] = IF @ = "DEBITED" THEN "CONFIRMED" ELSE @]
      /\ UNCHANGED <<reversals, key, tx, keyHolder, rowHolder, hub, stale, cur, outcome>>
      /\ Return(p) \/ Throw(p)
  BY <1>0 DEF MarkConfirmed, ConfirmUnheard, ConfirmRow, Settled
<1>2. hub[t] = "CONFIRMED"
  BY <1>0, <1>1 DEF ClosingInv, Allowed, CallerInv, Working
<1>3. Booked(t) /\ status[t] \in {"DEBITED", "CONFIRMED", "COMPENSATED"}
  BY DEF ClosingInv, TypeOK
<1>4. /\ status'[t] = IF status[t] = "DEBITED" THEN "CONFIRMED" ELSE status[t]
      /\ \A u \in Transfers \ {t} : status'[u] = status[u]
  BY <1>1 DEF TypeOK
<1>5. Booked(t)'
  BY <1>1, <1>3, <1>4 DEF Booked
<1>6. /\ pc'[p] \notin Working
      /\ \A q \in Callers \ {p} : pc'[q] = pc[q]
  BY <1>1, ReturnTypes DEF Working
<1>7. HoldersAlive'
  BY <1>1, <1>6, FreeHandsClosing DEF ClosingInv
<1>8. ClosingInv'
  BY <1>1, <1>4, <1>5, <1>6, <1>7, RowsClosing
<1>9. CASE status[t] = "DEBITED"
  <2>1. status' = [status EXCEPT ![t] = "CONFIRMED"]
    BY <1>1, <1>9
  <2> QED
    BY <1>0, <1>1, <1>2, <1>8, <1>9, <2>1 DEF Ideal!Confirm, clients
<1>10. CASE status[t] # "DEBITED"
  <2>1. status' = status
    BY <1>1, <1>10 DEF TypeOK
  <2> QED
    BY <1>1, <1>8, <2>1 DEF closing, clients
<1> QED
  BY <1>9, <1>10

\* A compensation refunds under its key once; beside a status that is not its
\* own only if the request was late.
LEMMA CommitClosing ==
    ASSUME ReplyInv, ClosingInv, NEW p \in Callers, Commit(p) \/ CommitUnheard(p)
    PROVE  /\ ClosingInv'
           /\ Ideal!Compensate(cur[p]) \/ Ideal!RefundBeside(cur[p]) \/ UNCHANGED closing
<1> USE DEF ReplyInv
<1>0. PICK t \in Transfers : t = cur[p]
  BY DEF Commit, CommitUnheard, CallerInv, Working
<1>1. /\ CallerInv(p) /\ pc[p] = "commit" /\ EndTx(p)
      /\ status' = [status EXCEPT ![t] = IF tx[p].status = "none" THEN @ ELSE tx[p].status]
      /\ reversals' = [reversals EXCEPT ![t] = @ + tx[p].reversals]
      /\ key' = [key EXCEPT ![t] = IF tx[p].reversals = 0 THEN @ ELSE "refund"]
      /\ UNCHANGED <<hub, stale, cur, outcome>>
      /\ Return(p) \/ Throw(p)
  BY <1>0 DEF Commit, CommitUnheard, Publish
<1>2. /\ tx[p].status \in {"none", "COMPENSATED"} /\ tx[p].reversals \in 0..1
      /\ status[t] \in {"DEBITED", "CONFIRMED", "COMPENSATED"} /\ reversals[t] \in Nat
      /\ Booked(t)
  BY DEF TypeOK, ClosingInv
<1>3. /\ status'[t] = IF tx[p].status = "none" THEN status[t] ELSE "COMPENSATED"
      /\ reversals'[t] = reversals[t] + tx[p].reversals
      /\ key'[t] = IF tx[p].reversals = 0 THEN key[t] ELSE "refund"
      /\ \A u \in Transfers \ {t} : /\ status'[u] = status[u] /\ reversals'[u] = reversals[u]
                                    /\ key'[u] = key[u]
  BY <1>1, <1>2 DEF TypeOK
<1>4. outcome[p] # "CONFIRMED" /\ Ideal!Refusable(t)
  BY <1>0, <1>1 DEF CallerInv, ClosingInv, Allowed, Working
<1>5. /\ pc'[p] \notin Working
      /\ \A q \in Callers \ {p} : pc'[q] = pc[q]
  BY <1>1, ReturnTypes DEF Working
<1>6. HoldersAlive'
  <2>1. \A u \in Transfers : key'[u] # key[u] => u = t /\ key[t] = "none" /\ keyHolder[t] = p
    BY <1>0, <1>1, <1>2, <1>3 DEF CallerInv
  <2> QED
    BY <1>1, <1>5, <2>1, EndedHoldsNothing DEF ClosingInv
<1>7. IF tx[p].status = "none" THEN status[t] # "DEBITED" ELSE status[t] = "DEBITED"
  BY <1>0, <1>1 DEF CallerInv
<1>8. /\ clients' = clients
      /\ t \in clients <=> key[t] = "client"
  <2>1. tx[p].reversals # 0 => key[t] = "none"
    BY <1>0, <1>1, <1>2 DEF CallerInv
  <2> QED
    BY <1>3, <2>1 DEF clients
<1>9. CASE tx[p].reversals = 1
  <2>1. key[t] = "none" /\ reversals[t] = 0
    BY <1>0, <1>1, <1>2, <1>9 DEF CallerInv, Booked
  <2>2. reversals'[t] = 1 /\ key'[t] = "refund" /\ status'[t] # "DEBITED"
    BY <1>2, <1>3, <1>7, <1>9, <2>1
  <2>3. ClosingInv'
    <3>1. Booked(t)'
      BY <2>2 DEF Booked
    <3> QED
      BY <1>1, <1>3, <1>5, <1>6, <3>1, RowsClosing
  <2>4. reversals' = [reversals EXCEPT ![t] = 1]
    BY <1>1, <1>9, <2>1 DEF TypeOK
  <2>5. CASE status[t] = "DEBITED"
    <3>1. status' = [status EXCEPT ![t] = "COMPENSATED"]
      BY <1>1, <1>2, <1>7, <2>5
    <3> QED
      BY <1>0, <1>1, <1>4, <1>8, <2>1, <2>3, <2>4, <2>5, <3>1 DEF Ideal!Compensate, clients
  <2>6. CASE status[t] # "DEBITED"
    <3>1. status[t] = "CONFIRMED"
      BY <1>2, <2>1, <2>6 DEF Booked
    <3>2. status' = status
      BY <1>1, <1>7, <2>6 DEF TypeOK
    <3>3. t \in LateRequests
      <4>1. t \in OnTime => hub[t] = "CONFIRMED"
        BY <3>1 DEF TransferInv
      <4>2. t \in OnTime => Grounded(t, outcome[p])
        BY <1>0, <1>1 DEF CallerInv, Working
      <4> QED
        BY <1>4, <4>1, <4>2 DEF Grounded, OnTime
    <3> QED
      BY <1>0, <1>1, <1>4, <1>8, <2>1, <2>3, <2>4, <3>1, <3>2, <3>3 DEF Ideal!RefundBeside, clients
  <2> QED
    BY <2>5, <2>6
<1>10. CASE tx[p].reversals = 0
  <2>1. key[t] # "none"
    BY <1>0, <1>1, <1>10 DEF CallerInv
  <2>2. reversals' = reversals /\ key'[t] = key[t] /\ reversals'[t] = reversals[t]
    BY <1>1, <1>3, <1>10 DEF TypeOK
  <2>3. ClosingInv'
    <3>1. Booked(t)'
      BY <1>2, <1>3, <2>1, <2>2 DEF Booked
    <3> QED
      BY <1>1, <1>3, <1>5, <1>6, <3>1, RowsClosing
  <2>4. CASE status[t] = "DEBITED"
    <3>1. t \in clients
      BY <1>2, <1>8, <2>1, <2>4 DEF Booked, ReplyInv, TypeOK
    <3>2. status' = [status EXCEPT ![t] = "COMPENSATED"]
      BY <1>1, <1>2, <1>7, <2>4
    <3> QED
      BY <1>0, <1>1, <1>4, <1>8, <2>2, <2>3, <2>4, <3>1, <3>2 DEF Ideal!Compensate, clients
  <2>5. CASE status[t] # "DEBITED"
    <3>1. status' = status
      BY <1>1, <1>7, <2>5 DEF TypeOK
    <3> QED
      BY <1>1, <1>8, <2>2, <2>3, <3>1 DEF closing
  <2> QED
    BY <2>4, <2>5
<1> QED
  BY <1>2, <1>9, <1>10

LEMMA ClosingStep ==
    ReplyInv /\ ClosingInv /\ [Next]_vars => ClosingInv' /\ [Ideal!Next]_(Ideal!vars)
<1> SUFFICES ASSUME ReplyInv, ClosingInv, [Next]_vars
             PROVE  ClosingInv' /\ (Ideal!Next \/ UNCHANGED closing)
  BY DEF Ideal!vars, closing, clients
<1>1. ASSUME NEW t \in Transfers, HubRecords(t) \/ HubSettles(t) \/ GrowStale(t)
      PROVE  ClosingInv' /\ Ideal!Next
  BY <1>1, EnvironmentClosing DEF Ideal!Next
<1>4. ASSUME NEW t \in Transfers, ClientTakesKey(t)
      PROVE  ClosingInv' /\ Ideal!Next
  BY <1>4, ClientClosing DEF Ideal!Next
<1>2. ASSUME NEW p \in Callers, MarkConfirmed(p) \/ ConfirmUnheard(p) \/ Commit(p)
                                \/ CommitUnheard(p)
      PROVE  ClosingInv' /\ (Ideal!Next \/ UNCHANGED closing)
  <2>1. cur[p] \in Transfers
    BY <1>2 DEF MarkConfirmed, ConfirmUnheard, ConfirmRow, Commit, CommitUnheard, ReplyInv,
                CallerInv, Working
  <2> QED
    BY <1>2, <2>1, ConfirmClosing, CommitClosing DEF Ideal!Next
<1>3. CASE UNCHANGED vars
  <2>1. ClosingInv'
    BY <1>3 DEF vars, bankA, ClosingInv, Allowed, Booked, HoldersAlive, Ideal!Refusable
  <2> QED
    BY <1>3, <2>1 DEF vars, bankA, closing, clients
<1> QED
  BY <1>1, <1>2, <1>3, <1>4, SweepClosing, DeliverClosing, HandleQuietClosing DEF Next, Handle

LEMMA ClosingInvariant == Spec => [](ReplyInv /\ ClosingInv)
<1>1. ReplyInv /\ ClosingInv /\ [Next]_vars => (ReplyInv /\ ClosingInv)'
  BY StepReply, ClosingStep
<1>2. Init => ReplyInv /\ ClosingInv
  BY InitReply, InitClosing
<1> QED
  BY <1>1, <1>2, PTL DEF Spec

\* Overlapping outcomes, redeliveries and sweeps, failures and lost commits, late
\* requests and clients that send the refund's key included: to its books Bank A
\* does what AtomicClosing does, one transfer closed in one step, as the Hub
\* decided, and refunded in that step unless its key was taken (ClosingSpec).
THEOREM ClosedAtOneInstant == Spec => ClosingSpec
<1>1. Init => Ideal!Init
  BY DEF Init, Ideal!Init
<1>2. ReplyInv /\ ClosingInv /\ [Next]_vars => [Ideal!Next]_(Ideal!vars)
  BY ClosingStep
<1> QED
  BY <1>1, <1>2, ClosingInvariant, PTL DEF Spec, ClosingSpec, Ideal!Spec

\* interbank-transfer.repository.ts:53-57: a status that has left DEBITED is
\* never written again, late request or not.
THEOREM TerminalStaysFinal ==
    Spec => [][\A t \in Transfers : status[t] # "DEBITED" => status'[t] = status[t]]_vars
<1> DEFINE Final1 == \A t \in Transfers : status[t] # "DEBITED" => status'[t] = status[t]
<1>1. ReplyInv /\ ClosingInv /\ [Next]_vars => [Final1]_vars
  <2> SUFFICES ASSUME ReplyInv, ClosingInv, Next PROVE Final1
    OBVIOUS
  <2>1. Ideal!Next \/ UNCHANGED closing
    BY ClosingStep DEF Ideal!vars, closing, clients
  <2>2. ASSUME Ideal!Next PROVE Final1
    BY <2>2 DEF Ideal!Next, Ideal!HubRecords, Ideal!HubSettles, Ideal!HubMoves, Ideal!Expire,
                Ideal!Confirm, Ideal!Compensate, Ideal!RefundBeside, Ideal!ClientTakesKey, ReplyInv, TypeOK
  <2> QED
    BY <2>1, <2>2 DEF closing
<1> QED
  BY <1>1, ClosingInvariant, PTL DEF Spec

\* A payer is refunded at most once, even when the request was late; and of the
\* transfers that say COMPENSATED those miss the refund whose key a client's
\* transfer has, and no other.
THEOREM NeverRefundedTwice ==
    Spec => [](\A t \in Transfers :
                 /\ reversals[t] \in {0, 1}
                 /\ status[t] = "COMPENSATED" => (reversals[t] = 0 <=> key[t] = "client"))
<1> DEFINE Once == \A t \in Transfers :
                     /\ reversals[t] \in {0, 1}
                     /\ status[t] = "COMPENSATED" => (reversals[t] = 0 <=> key[t] = "client")
<1>1. ReplyInv /\ ClosingInv => Once
  BY DEF ReplyInv, TypeOK, ClosingInv, Booked
<1> QED
  BY <1>1, ClosingInvariant, PTL

----------------------------------------------------------------------------
(***************************************************************************)
(* No circle of waits: a caller that cannot go on waits for one that can.  *)
(***************************************************************************)

\* The next statement of p can complete now: ENABLED Handle(p) \/ Sweep(p).
Ready(p) ==
    /\ pc[p] \in Working \cup {"sweep"}
    /\ pc[p] = "insert" => keyHolder[cur[p]] = None
    /\ pc[p] \in {"confirm", "mark"} => rowHolder[cur[p]] = None

\* Whose COMMIT or ROLLBACK p waits for.
Blocker(p) == IF pc[p] = "insert" THEN keyHolder[cur[p]] ELSE rowHolder[cur[p]]

NobodyStuck ==
    \A p \in Callers : pc[p] \notin {"idle", "done"} => Ready(p) \/ Ready(Blocker(p))

\* A compensation that waits for the key waits for one that has it, and who has
\* the row then has the key too, so that one need not wait: the safety half of
\* NothingStaysInDoubt, for any number of overlapping deliveries and sweeps.
THEOREM NobodyWaitsInACircle == Spec => []NobodyStuck
<1>1. ReplyInv /\ ClosingInv => NobodyStuck
  <2> SUFFICES ASSUME ReplyInv, ClosingInv, NEW p \in Callers, pc[p] \notin {"idle", "done"},
                      ~Ready(p)
               PROVE  Ready(Blocker(p))
    BY DEF NobodyStuck
  <2>1. pc[p] \in Working \cup {"sweep"}
    BY DEF ReplyInv, TypeOK, Working
  <2>2. pc[p] \in {"insert", "confirm", "mark"} /\ Blocker(p) # None
    BY <2>1 DEF Ready, Blocker
  <2>3. PICK t \in Transfers : t = cur[p]
    BY <2>2 DEF ReplyInv, CallerInv, Working
  <2>4. CASE pc[p] # "insert"
    <3>1. pc[Blocker(p)] = "commit"
      BY <2>2, <2>3, <2>4 DEF Blocker, ClosingInv, HoldersAlive
    <3> QED
      BY <3>1 DEF Ready, Working
  <2>5. CASE pc[p] = "insert"
    <3> DEFINE q == Blocker(p)
    <3>1. q = keyHolder[t] /\ pc[q] \in {"mark", "commit"} /\ cur[q] = t
      BY <2>2, <2>3, <2>5 DEF Blocker, ClosingInv, HoldersAlive
    <3>2. pc[q] = "mark" => rowHolder[t] = None
      BY <2>2, <3>1 DEF ClosingInv, HoldersAlive
    <3> QED
      BY <3>1, <3>2 DEF Ready, Working
  <2> QED
    BY <2>4, <2>5
<1> QED
  BY <1>1, ClosingInvariant, PTL
=============================================================================
