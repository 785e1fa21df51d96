------------------------- MODULE BankBInboundProofs -------------------------
(***************************************************************************)
(* For any number of transfers, deliveries, accounts, connections and      *)
(* failures: a payee is credited once if at all, and every reply is what   *)
(* the books say.  A delivery past try_insert owns its transfer's row, and *)
(* nobody else can commit one; a row, once committed, never changes, so a  *)
(* reply read off it stays true until it is published, and after.          *)
(***************************************************************************)
EXTENDS BankBInbound, FiniteSetTheorems, TLAPS

InRow == {"append", "commit"}

\* Past try_insert a delivery owns the row of its transfer, not committed yet,
\* and has booked what the row says.
OwnsRow(d) ==
    /\ pc[d] \in InRow => holder[of[d]] = d /\ incoming[of[d]] = "none"
    /\ pc[d] = "append" => tx[d] = [status |-> "CREDITED", credits |-> 0]
    /\ pc[d] = "commit" => tx[d] \in {[status |-> "CREDITED", credits |-> 1],
                                      [status |-> "REJECTED", credits |-> 0]}

\* Past handle() a delivery has the reply its transfer's row gives.
RepliesTruly(d) ==
    /\ pc[d] \in {"publish", "ack"} => /\ incoming[of[d]] # "none"
                                       /\ reply[d] = ReplyFor(incoming[of[d]])
    /\ pc[d] = "ack" => \E r \in replies : r.transfer = of[d]

BankBInv ==
    /\ TypeOK
    /\ \A d \in Deliveries : OwnsRow(d) /\ RepliesTruly(d)
    /\ CreditedExactlyOnce
    /\ RepliesAgreeWithBooks
    /\ AckedMeansReplied

----------------------------------------------------------------------------
LEMMA InitBankB == Init => BankBInv
BY BankBAssumption
DEF Init, BankBInv, TypeOK, OwnsRow, RepliesTruly, InRow, CreditedExactlyOnce,
    RepliesAgreeWithBooks, AckedMeansReplied, NoWrites, RowStatuses, ReplyEvents

LEMMA ReplyIsEvent == \A s : ReplyFor(s) \in ReplyEvents
BY DEF ReplyFor, ReplyEvents

\* The end of a transaction frees the rows of its delivery and of no other.
LEMMA EndTxTypes ==
    ASSUME TypeOK, NEW d \in Deliveries, EndTx(d)
    PROVE  /\ tx' \in [Deliveries -> [status: RowStatuses, credits: 0..1]]
           /\ holder' \in [Transfers -> Deliveries \cup {None}]
           /\ \A e \in Deliveries \ {d} : tx'[e] = tx[e]
           /\ \A e \in Deliveries \ {d}, t \in Transfers : holder[t] = e => holder'[t] = e
BY BankBAssumption DEF TypeOK, EndTx, NoWrites, RowStatuses

\* What keeps the invariant for a step that commits nothing and replies
\* nothing: only the part of the delivery that moves is to be shown again.
LEMMA QuietStep ==
    ASSUME BankBInv, TypeOK', NEW d \in Deliveries,
           UNCHANGED <<incoming, credits, replies, of>>,
           OwnsRow(d)', RepliesTruly(d)', result'[d] = "acked" => result[d] = "acked",
           \A e \in Deliveries \ {d} :
               /\ pc'[e] = pc[e] /\ tx'[e] = tx[e] /\ reply'[e] = reply[e]
               /\ result'[e] = result[e]
               /\ \A t \in Transfers : holder[t] = e => holder'[t] = e
    PROVE  BankBInv'
<1>1. \A e \in Deliveries \ {d} : OwnsRow(e)'
  BY DEF BankBInv, OwnsRow, TypeOK
<1>2. \A e \in Deliveries \ {d} : RepliesTruly(e)'
  BY DEF BankBInv, RepliesTruly
<1>3. CreditedExactlyOnce' /\ RepliesAgreeWithBooks'
  BY DEF BankBInv, CreditedExactlyOnce, RepliesAgreeWithBooks
<1>4. AckedMeansReplied'
  BY DEF BankBInv, AckedMeansReplied
<1> QED
  BY <1>1, <1>2, <1>3, <1>4 DEF BankBInv

----------------------------------------------------------------------------
LEMMA BeforeTransaction ==
    ASSUME BankBInv, NEW d \in Deliveries,
           Deliver(d) \/ Acquire(d) \/ FindAccount(d)
    PROVE  BankBInv'
<1> USE DEF BankBInv
<1>1. TypeOK'
  <2>1. ASSUME Deliver(d) \/ Acquire(d) PROVE TypeOK'
    BY <2>1 DEF TypeOK, Deliver, Acquire, Goto, tables
  <2>2. ASSUME FindAccount(d) PROVE TypeOK'
    BY <2>2 DEF TypeOK, FindAccount, Goto, tables
  <2> QED
    BY <2>1, <2>2
<1>2. pc'[d] \in {"find", "account", "insert"} /\ result'[d] = result[d]
  BY DEF TypeOK, Deliver, Acquire, FindAccount, Goto
<1>3. OwnsRow(d)' /\ RepliesTruly(d)'
  BY <1>2 DEF OwnsRow, RepliesTruly, InRow
<1>4. /\ UNCHANGED <<incoming, credits, replies, of, tx, holder, reply, result>>
      /\ \A e \in Deliveries \ {d} : pc'[e] = pc[e]
  BY DEF TypeOK, Deliver, Acquire, FindAccount, Goto, tables
<1> QED
  BY <1>1, <1>2, <1>3, <1>4, QuietStep

LEMMA FindExistingStep ==
    ASSUME BankBInv, NEW d \in Deliveries, FindExisting(d)
    PROVE  BankBInv'
<1> USE DEF BankBInv
<1>1. UNCHANGED <<tables, replies, tx, holder, of, found, result, failures>>
  BY DEF FindExisting
<1>2. \/ Goto(d, "publish") /\ incoming[of[d]] # "none"
         /\ reply' = [reply EXCEPT ![d] = ReplyFor(incoming[of[d]])]
      \/ Goto(d, "acquire") /\ reply' = reply
  BY DEF FindExisting, Return
<1>3. reply' \in [Deliveries -> ReplyEvents \cup {"none"}]
  BY <1>2, ReplyIsEvent DEF TypeOK
<1>4. TypeOK'
  BY <1>1, <1>2, <1>3 DEF TypeOK, Goto, tables
<1>5. OwnsRow(d)' /\ RepliesTruly(d)'
  BY <1>1, <1>2 DEF TypeOK, Goto, tables, OwnsRow, RepliesTruly, InRow
<1> QED
  BY <1>1, <1>2, <1>4, <1>5, QuietStep DEF TypeOK, Goto, tables

LEMMA TryInsertStep ==
    ASSUME BankBInv, NEW d \in Deliveries, TryInsert(d)
    PROVE  BankBInv'
<1> USE DEF BankBInv
<1> DEFINE t == of[d]
<1>1. CASE incoming[t] # "none"
  <2>1. EndTx(d) /\ Goto(d, "winner")
    BY <1>1 DEF TryInsert
  <2>2. TypeOK'
    BY <2>1, EndTxTypes DEF TypeOK, TryInsert, Goto, tables
  <2>3. OwnsRow(d)' /\ RepliesTruly(d)'
    BY <2>1 DEF TypeOK, Goto, OwnsRow, RepliesTruly, InRow
  <2> QED
    BY <2>1, <2>2, <2>3, EndTxTypes, QuietStep DEF TypeOK, TryInsert, Goto, tables
<1>2. CASE incoming[t] = "none"
  <2>1. /\ holder[t] = None
        /\ holder' = [holder EXCEPT ![t] = d]
        /\ tx' = [tx EXCEPT ![d] = [status |-> IF found[d] THEN "CREDITED" ELSE "REJECTED",
                                    credits |-> 0]]
        /\ Goto(d, IF found[d] THEN "append" ELSE "commit")
        /\ UNCHANGED <<tables, replies, of, found, reply, result, failures>>
    BY <1>2 DEF TryInsert
  <2>2. t \in Transfers
    BY DEF TypeOK
  <2>3. TypeOK'
    BY <2>1, <2>2 DEF TypeOK, Goto, tables, RowStatuses
  <2>4. OwnsRow(d)' /\ RepliesTruly(d)'
    BY <1>2, <2>1, <2>2 DEF TypeOK, Goto, tables, OwnsRow, RepliesTruly, InRow
  <2>5. \A e \in Deliveries \ {d}, s \in Transfers : holder[s] = e => holder'[s] = e
    BY <2>1, <2>2, BankBAssumption DEF TypeOK
  <2> QED
    BY <2>1, <2>3, <2>4, <2>5, QuietStep DEF TypeOK, Goto, tables
<1> QED
  BY <1>1, <1>2

LEMMA AppendStep ==
    ASSUME BankBInv, NEW d \in Deliveries, Append(d)
    PROVE  BankBInv'
<1> USE DEF BankBInv
<1>1. /\ OwnsRow(d)
      /\ pc[d] = "append"
      /\ tx[d] = [status |-> "CREDITED", credits |-> 0]
  BY DEF Append, OwnsRow
<1>2. /\ tx' = [tx EXCEPT ![d] = [status |-> "CREDITED", credits |-> 1]]
      /\ Goto(d, "commit")
  BY <1>1 DEF Append
<1>3. TypeOK'
  BY <1>2 DEF TypeOK, Append, Goto, tables, RowStatuses
<1>4. OwnsRow(d)' /\ RepliesTruly(d)'
  BY <1>1, <1>2 DEF TypeOK, Append, Goto, tables, OwnsRow, RepliesTruly, InRow
<1> QED
  BY <1>2, <1>3, <1>4, QuietStep DEF TypeOK, Append, Goto, tables

\* What a COMMIT makes visible is a first row for its transfer, booked as it
\* says; no other delivery is past try_insert for that transfer.
LEMMA PublishStep ==
    ASSUME BankBInv, NEW d \in Deliveries, pc[d] = "commit", Publish(d),
           UNCHANGED <<replies, of>>, TypeOK', RepliesTruly(d)',
           pc'[d] \notin InRow, result'[d] = "acked" => result[d] = "acked",
           \A e \in Deliveries \ {d} :
               pc'[e] = pc[e] /\ reply'[e] = reply[e] /\ result'[e] = result[e]
    PROVE  BankBInv'
<1> USE DEF BankBInv
<1> DEFINE t == of[d]
<1>1. /\ t \in Transfers
      /\ holder[t] = d /\ incoming[t] = "none"
      /\ tx[d] \in {[status |-> "CREDITED", credits |-> 1],
                    [status |-> "REJECTED", credits |-> 0]}
  BY DEF OwnsRow, InRow, TypeOK
<1>2. /\ incoming' = [incoming EXCEPT ![t] = tx[d].status]
      /\ credits' = [credits EXCEPT ![t] = @ + tx[d].credits]
      /\ EndTx(d)
  BY DEF Publish
<1>3. \A s \in Transfers : incoming[s] # "none" => incoming'[s] = incoming[s]
  BY <1>1, <1>2 DEF TypeOK
<1>4. \A e \in Deliveries \ {d} : OwnsRow(e)'
  <2> SUFFICES ASSUME NEW e \in Deliveries \ {d} PROVE OwnsRow(e)'
    OBVIOUS
  <2>1. pc[e] \in InRow => of[e] # t
    BY <1>1 DEF OwnsRow
  <2>2. of[e] # t => incoming'[of[e]] = incoming[of[e]]
    BY <1>1, <1>2 DEF TypeOK
  <2>3. OwnsRow(e)
    OBVIOUS
  <2>4. tx'[e] = tx[e] /\ (holder[of[e]] = e => holder'[of[e]] = e)
    BY <1>2, EndTxTypes DEF TypeOK
  <2> QED
    BY <2>1, <2>2, <2>3, <2>4 DEF OwnsRow, InRow
<1>5. OwnsRow(d)'
  BY DEF OwnsRow, InRow
<1>6. \A e \in Deliveries \ {d} : RepliesTruly(e)'
  BY <1>3 DEF RepliesTruly, TypeOK
<1>7. CreditedExactlyOnce'
  <2>1. credits[t] = 0
    BY <1>1 DEF CreditedExactlyOnce
  <2>2. CASE tx[d] = [status |-> "CREDITED", credits |-> 1]
    BY <1>1, <1>2, <2>1, <2>2 DEF CreditedExactlyOnce, TypeOK
  <2>3. CASE tx[d] = [status |-> "REJECTED", credits |-> 0]
    BY <1>1, <1>2, <2>1, <2>3 DEF CreditedExactlyOnce, TypeOK
  <2> QED
    BY <1>1, <2>2, <2>3
<1>8. RepliesAgreeWithBooks'
  BY <1>3 DEF RepliesAgreeWithBooks, TypeOK
<1>9. AckedMeansReplied'
  BY DEF AckedMeansReplied
<1> QED
  BY <1>4, <1>5, <1>6, <1>7, <1>8, <1>9

LEMMA CommitStep ==
    ASSUME BankBInv, NEW d \in Deliveries, Commit(d) \/ CommitUnheard(d)
    PROVE  BankBInv'
<1> USE DEF BankBInv
<1> DEFINE t == of[d]
<1>1. /\ pc[d] = "commit" /\ Publish(d)
      /\ t \in Transfers
      /\ tx[d] \in {[status |-> "CREDITED", credits |-> 1],
                    [status |-> "REJECTED", credits |-> 0]}
  BY DEF Commit, CommitUnheard, OwnsRow, TypeOK
<1>2. /\ incoming' = [incoming EXCEPT ![t] = tx[d].status]
      /\ credits' = [credits EXCEPT ![t] = @ + tx[d].credits]
      /\ EndTx(d)
  BY <1>1 DEF Publish
<1>3. /\ incoming' \in [Transfers -> RowStatuses]
      /\ credits' \in [Transfers -> Nat]
  BY <1>1, <1>2 DEF TypeOK, RowStatuses
<1>4. CASE Commit(d)
  <2>1. Return(d, tx[d].status) /\ UNCHANGED <<accounts, replies, of, found, result, failures>>
    BY <1>4 DEF Commit
  <2>2. TypeOK'
    BY <1>2, <1>3, <2>1, EndTxTypes, ReplyIsEvent DEF TypeOK, Return, Goto
  <2>3. RepliesTruly(d)'
    BY <1>1, <1>2, <2>1 DEF TypeOK, Return, Goto, RepliesTruly
  <2>4. /\ pc'[d] \notin InRow
        /\ \A e \in Deliveries \ {d} : pc'[e] = pc[e] /\ reply'[e] = reply[e]
    BY <2>1 DEF TypeOK, Return, Goto, InRow
  <2> QED
    BY <1>1, <2>1, <2>2, <2>3, <2>4, PublishStep
<1>5. CASE CommitUnheard(d)
  <2>1. PICK r \in {"dead", "unacked"} : End(d, r)
    BY <1>5 DEF CommitUnheard
  <2>2. failures' \in 0..MaxFailures
    BY <1>5, BankBAssumption DEF CommitUnheard, TypeOK
  <2>3. TypeOK'
    BY <1>2, <1>3, <1>5, <2>1, <2>2, EndTxTypes DEF TypeOK, CommitUnheard, End, Goto
  <2>4. RepliesTruly(d)'
    BY <2>1 DEF TypeOK, End, Goto, RepliesTruly
  <2>5. /\ pc'[d] \notin InRow
        /\ result'[d] = "acked" => result[d] = "acked"
        /\ \A e \in Deliveries \ {d} : pc'[e] = pc[e] /\ result'[e] = result[e]
    BY <2>1 DEF TypeOK, End, Goto, InRow
  <2>6. UNCHANGED <<replies, of, reply>>
    BY <1>5 DEF CommitUnheard
  <2> QED
    BY <1>1, <2>3, <2>4, <2>5, <2>6, PublishStep
<1> QED
  BY <1>4, <1>5

LEMMA ReadWinnerStep ==
    ASSUME BankBInv, NEW d \in Deliveries, ReadWinner(d)
    PROVE  BankBInv'
<1> USE DEF BankBInv
<1>4. UNCHANGED <<tables, replies, tx, holder, of, found, failures>>
  BY DEF ReadWinner
<1>5. \/ /\ Goto(d, "publish") /\ incoming[of[d]] # "none" /\ result' = result
         /\ reply' = [reply EXCEPT ![d] = ReplyFor(incoming[of[d]])]
      \/ Goto(d, "done") /\ reply' = reply /\ result' = [result EXCEPT ![d] = "dead"]
  BY DEF ReadWinner, Return, End
<1>6. reply' \in [Deliveries -> ReplyEvents \cup {"none"}]
  BY <1>5, ReplyIsEvent DEF TypeOK
<1>1. TypeOK'
  BY <1>4, <1>5, <1>6 DEF TypeOK, Goto, tables
<1>2. OwnsRow(d)' /\ RepliesTruly(d)' /\ (result'[d] = "acked" => result[d] = "acked")
  BY <1>4, <1>5 DEF TypeOK, Goto, tables, OwnsRow, RepliesTruly, InRow
<1>3. /\ UNCHANGED <<incoming, credits, replies, of, tx, holder>>
      /\ \A e \in Deliveries \ {d} : /\ pc'[e] = pc[e] /\ reply'[e] = reply[e]
                                      /\ result'[e] = result[e]
  BY <1>4, <1>5 DEF TypeOK, Goto, tables
<1> QED
  BY <1>1, <1>2, <1>3, QuietStep

\* The one step that replies says what the row says, and an ack follows it.
LEMMA PublishReplyStep ==
    ASSUME BankBInv, NEW d \in Deliveries, PublishReply(d)
    PROVE  BankBInv'
<1> USE DEF BankBInv
<1> DEFINE r == [transfer |-> of[d], event |-> reply[d]]
<1>1. /\ replies' = replies \cup {r}
      /\ pc' = [pc EXCEPT ![d] = "ack"]
      /\ UNCHANGED <<tables, tx, holder, of, found, reply, result, failures>>
  BY DEF PublishReply, Goto
<1>2. /\ of[d] \in Transfers
      /\ incoming[of[d]] # "none" /\ reply[d] = ReplyFor(incoming[of[d]])
  BY DEF PublishReply, RepliesTruly, TypeOK
<1>3. r \in [transfer: Transfers, event: ReplyEvents]
  BY <1>2, ReplyIsEvent
<1>4. TypeOK'
  BY <1>1, <1>3 DEF TypeOK, tables
<1>5. \A e \in Deliveries : OwnsRow(e)' /\ RepliesTruly(e)'
  <2>1. \A e \in Deliveries : OwnsRow(e)'
    BY <1>1 DEF TypeOK, OwnsRow, InRow, tables
  <2>2. \A e \in Deliveries \ {d} : RepliesTruly(e)'
    BY <1>1 DEF TypeOK, RepliesTruly, tables
  <2>3. r \in replies' /\ r.transfer = of'[d]
    BY <1>1
  <2>4. UNCHANGED <<incoming, reply, of>>
    BY <1>1 DEF tables
  <2>5. RepliesTruly(d)'
    BY <1>2, <2>3, <2>4 DEF RepliesTruly
  <2> QED
    BY <2>1, <2>2, <2>5
<1>6. CreditedExactlyOnce' /\ RepliesAgreeWithBooks' /\ AckedMeansReplied'
  BY <1>1, <1>2 DEF CreditedExactlyOnce, RepliesAgreeWithBooks, AckedMeansReplied, tables
<1> QED
  BY <1>4, <1>5, <1>6

LEMMA AckStep ==
    ASSUME BankBInv, NEW d \in Deliveries, Ack(d)
    PROVE  BankBInv'
<1> USE DEF BankBInv
<1>1. TypeOK'
  BY DEF TypeOK, Ack, End, Goto, tables
<1>2. \A e \in Deliveries : OwnsRow(e)' /\ RepliesTruly(e)'
  BY DEF TypeOK, Ack, End, Goto, tables, OwnsRow, RepliesTruly, InRow
<1>3. CreditedExactlyOnce' /\ RepliesAgreeWithBooks'
  BY DEF Ack, tables, CreditedExactlyOnce, RepliesAgreeWithBooks
<1>4. AckedMeansReplied'
  BY DEF TypeOK, Ack, End, Goto, RepliesTruly, AckedMeansReplied
<1> QED
  BY <1>1, <1>2, <1>3, <1>4

LEMMA FailStep ==
    ASSUME BankBInv, NEW d \in Deliveries, Fail(d)
    PROVE  BankBInv'
<1> USE DEF BankBInv
<1>1. PICK r \in {"dead", "unacked"} : End(d, r)
  BY DEF Fail
<1>2. EndTx(d) /\ failures' \in 0..MaxFailures
  BY BankBAssumption DEF Fail, TypeOK
<1>3. TypeOK'
  BY <1>1, <1>2, EndTxTypes DEF TypeOK, Fail, End, Goto, tables
<1>4. OwnsRow(d)' /\ RepliesTruly(d)'
  BY <1>1 DEF TypeOK, End, Goto, OwnsRow, RepliesTruly, InRow
<1> QED
  BY <1>1, <1>2, <1>3, <1>4, EndTxTypes, QuietStep DEF TypeOK, Fail, End, Goto, tables

----------------------------------------------------------------------------
LEMMA StepBankB == BankBInv /\ [Next]_vars => BankBInv'
<1> SUFFICES ASSUME BankBInv, [Next]_vars PROVE BankBInv'
  OBVIOUS
<1>1. ASSUME NEW a \in Accounts, CreateAccount(a)
      PROVE  BankBInv'
  BY <1>1 DEF CreateAccount, BankBInv, TypeOK, OwnsRow, RepliesTruly, InRow,
              CreditedExactlyOnce, RepliesAgreeWithBooks, AckedMeansReplied
<1>2. ASSUME NEW d \in Deliveries, Deliver(d) \/ Handle(d) \/ Fail(d) \/ CommitUnheard(d)
      PROVE  BankBInv'
  BY <1>2, BeforeTransaction, FindExistingStep, TryInsertStep, AppendStep, CommitStep,
     ReadWinnerStep, PublishReplyStep, AckStep, FailStep
  DEF Handle
<1>3. CASE UNCHANGED vars
  BY <1>3 DEF vars, BankBInv, TypeOK, OwnsRow, RepliesTruly, InRow,
              CreditedExactlyOnce, RepliesAgreeWithBooks, AckedMeansReplied
<1> QED
  BY <1>1, <1>2, <1>3 DEF Next

LEMMA BankBInvariant == Spec => []BankBInv
BY InitBankB, StepBankB, PTL DEF Spec

\* The books credit a payee once, and only for a row that says CREDITED, under
\* any redelivery, overlap, failure and crash of InboundTransfersService.handle.
THEOREM AlwaysCreditedOnce == Spec => []CreditedExactlyOnce
<1>1. BankBInv => CreditedExactlyOnce
  BY DEF BankBInv
<1> QED
  BY <1>1, BankBInvariant, PTL

\* Every reply _publish_reply sends is what the transfer's row says, and the
\* row says so for good: no transfer gets two different replies.
THEOREM RepliesAlwaysTrue == Spec => []RepliesAgreeWithBooks
<1>1. BankBInv => RepliesAgreeWithBooks
  BY DEF BankBInv
<1> QED
  BY <1>1, BankBInvariant, PTL

\* A message the consumer acknowledged has been replied to.
THEOREM AcksAlwaysReplied == Spec => []AckedMeansReplied
<1>1. BankBInv => AckedMeansReplied
  BY DEF BankBInv
<1> QED
  BY <1>1, BankBInvariant, PTL

\* Bank B's tables, transactions and deliveries keep their types (TypeOK).
THEOREM TypeCorrect == Spec => []TypeOK
<1>1. BankBInv => TypeOK
  BY DEF BankBInv
<1> QED
  BY <1>1, BankBInvariant, PTL

----------------------------------------------------------------------------
(***************************************************************************)
(* What BankBInv leaves out: what a delivery found when it looked the      *)
(* payee up, and that only a live transaction holds a row.                 *)
(***************************************************************************)

\* Accounts are never closed, so an account that was found is still there when
\* the row is committed, and one that was missed was not there from the start.
LookedUp(d) ==
    /\ pc[d] \in {"insert", "append", "commit"} =>
           IF found[d] THEN PayeeOf[of[d]] \in accounts ELSE PayeeOf[of[d]] \notin Opened
    /\ pc[d] = "append" => found[d]
    /\ pc[d] = "commit" => tx[d].status = IF found[d] THEN "CREDITED" ELSE "REJECTED"

HoldersAlive ==
    \A t \in Transfers : holder[t] # None => pc[holder[t]] \in InRow /\ of[holder[t]] = t

LookInv ==
    /\ Opened \subseteq accounts
    /\ \A d \in Deliveries : LookedUp(d)
    /\ HoldersAlive

LEMMA InitLook == Init => LookInv
BY DEF Init, LookInv, LookedUp, HoldersAlive

\* A step of d that opens no account keeps what the others found.
LEMMA LookStep ==
    ASSUME BankBInv, LookInv, NEW d \in Deliveries,
           UNCHANGED <<accounts, of>>, LookedUp(d)', HoldersAlive',
           \A e \in Deliveries \ {d} : pc'[e] = pc[e] /\ tx'[e] = tx[e] /\ found'[e] = found[e]
    PROVE  LookInv'
BY DEF LookInv, LookedUp

\* The end of a transaction takes the rows of its delivery out of HoldersAlive.
LEMMA EndedHoldsNothing ==
    ASSUME BankBInv, LookInv, NEW d \in Deliveries, EndTx(d), UNCHANGED of,
           \A e \in Deliveries \ {d} : pc'[e] = pc[e]
    PROVE  HoldersAlive'
<1> SUFFICES ASSUME NEW t \in Transfers, holder'[t] # None
             PROVE  pc'[holder'[t]] \in InRow /\ of'[holder'[t]] = t
  BY DEF HoldersAlive
<1>1. holder'[t] = holder[t] /\ holder[t] # d /\ holder[t] \in Deliveries
  BY DEF EndTx, BankBInv, TypeOK
<1>2. pc[holder[t]] \in InRow /\ of[holder[t]] = t
  BY <1>1 DEF LookInv, HoldersAlive
<1> QED
  BY <1>1, <1>2

LEMMA StepLook == BankBInv /\ LookInv /\ [Next]_vars => LookInv'
<1> SUFFICES ASSUME BankBInv, LookInv, [Next]_vars PROVE LookInv'
  OBVIOUS
<1> USE DEF BankBInv
<1>1. ASSUME NEW a \in Accounts, CreateAccount(a)
      PROVE  LookInv'
  BY <1>1 DEF CreateAccount, LookInv, LookedUp, HoldersAlive
<1>2. ASSUME NEW d \in Deliveries, Deliver(d) \/ FindExisting(d) \/ Acquire(d)
                                   \/ PublishReply(d) \/ Ack(d) \/ ReadWinner(d)
      PROVE  LookInv'
  <2>1. /\ UNCHANGED <<accounts, of, tx, found, holder>>
        /\ pc[d] \notin InRow
        /\ pc'[d] \notin {"insert", "append", "commit"}
        /\ \A e \in Deliveries \ {d} : pc'[e] = pc[e]
    BY <1>2 DEF Deliver, FindExisting, Acquire, PublishReply, Ack, ReadWinner, Return, End,
                Goto, tables, TypeOK, InRow
  <2>2. LookedUp(d)'
    BY <2>1 DEF LookedUp
  <2>3. HoldersAlive'
    BY <2>1 DEF HoldersAlive, LookInv, TypeOK
  <2> QED
    BY <2>1, <2>2, <2>3, LookStep
<1>3. ASSUME NEW d \in Deliveries, FindAccount(d)
      PROVE  LookInv'
  <2>1. /\ UNCHANGED <<accounts, of, tx, holder>>
        /\ pc' = [pc EXCEPT ![d] = "insert"]
        /\ found' = [found EXCEPT ![d] = PayeeOf[of[d]] \in accounts]
        /\ pc[d] \notin InRow
    BY <1>3 DEF FindAccount, Goto, tables, InRow
  <2>2. LookedUp(d)'
    BY <2>1 DEF LookedUp, LookInv, TypeOK
  <2>3. HoldersAlive'
    BY <2>1 DEF HoldersAlive, LookInv, TypeOK
  <2> QED
    BY <2>1, <2>2, <2>3, LookStep DEF TypeOK
<1>4. ASSUME NEW d \in Deliveries, TryInsert(d)
      PROVE  LookInv'
  <2> DEFINE t == of[d]
  <2>1. CASE incoming[t] # "none"
    <3>1. EndTx(d) /\ Goto(d, "winner") /\ UNCHANGED <<accounts, of, found>>
      BY <1>4, <2>1 DEF TryInsert, tables
    <3>2. LookedUp(d)'
      BY <3>1 DEF LookedUp, Goto, TypeOK
    <3> QED
      BY <3>1, <3>2, LookStep, EndedHoldsNothing DEF Goto, EndTx, TypeOK
  <2>2. CASE incoming[t] = "none"
    <3>1. /\ t \in Transfers
          /\ holder' = [holder EXCEPT ![t] = d]
          /\ tx' = [tx EXCEPT ![d] = [status |-> IF found[d] THEN "CREDITED" ELSE "REJECTED",
                                      credits |-> 0]]
          /\ pc' = [pc EXCEPT ![d] = IF found[d] THEN "append" ELSE "commit"]
          /\ UNCHANGED <<accounts, of, found>>
      BY <1>4, <2>2 DEF TryInsert, tables, Goto, TypeOK
    <3>2. LookedUp(d)
      BY DEF LookInv
    <3>3. pc[d] = "insert"
      BY <1>4 DEF TryInsert
    <3>4. LookedUp(d)'
      BY <3>1, <3>2, <3>3 DEF LookedUp, TypeOK
    <3>5. pc'[d] \in InRow
      BY <3>1 DEF TypeOK, InRow
    <3>6. HoldersAlive'
      BY <3>1, <3>5 DEF HoldersAlive, LookInv, TypeOK
    <3> QED
      BY <3>1, <3>4, <3>6, LookStep DEF TypeOK
  <2> QED
    BY <2>1, <2>2
<1>5. ASSUME NEW d \in Deliveries, Append(d)
      PROVE  LookInv'
  <2>1. /\ pc[d] = "append" /\ LookedUp(d) /\ OwnsRow(d)
        /\ pc' = [pc EXCEPT ![d] = "commit"]
        /\ tx' = [tx EXCEPT ![d] = [status |-> tx[d].status, credits |-> tx[d].credits + 1]]
        /\ UNCHANGED <<accounts, of, found, holder>>
    BY <1>5 DEF Append, Goto, tables, LookInv
  <2>2. tx'[d].status = "CREDITED"
    BY <2>1 DEF OwnsRow, TypeOK
  <2>3. LookedUp(d)'
    BY <2>1, <2>2 DEF LookedUp, TypeOK
  <2>4. HoldersAlive'
    BY <2>1 DEF HoldersAlive, LookInv, TypeOK, InRow
  <2> QED
    BY <2>1, <2>3, <2>4, LookStep DEF TypeOK
<1>6. ASSUME NEW d \in Deliveries, Commit(d) \/ CommitUnheard(d) \/ Fail(d)
      PROVE  LookInv'
  <2>1. /\ EndTx(d)
        /\ UNCHANGED <<accounts, of, found>>
        /\ pc'[d] \in {"publish", "done"}
        /\ \A e \in Deliveries \ {d} : pc'[e] = pc[e]
    BY <1>6 DEF Commit, CommitUnheard, Fail, Publish, Return, End, Goto, tables, TypeOK
  <2>2. LookedUp(d)'
    BY <2>1 DEF LookedUp
  <2> QED
    BY <2>1, <2>2, LookStep, EndedHoldsNothing DEF EndTx, TypeOK
<1>7. CASE UNCHANGED vars
  BY <1>7 DEF vars, tables, LookInv, LookedUp, HoldersAlive
<1> QED
  BY <1>1, <1>2, <1>3, <1>4, <1>5, <1>6, <1>7 DEF Next, Handle

LEMMA LookInvariant == Spec => [](BankBInv /\ LookInv)
<1>1. BankBInv /\ LookInv /\ [Next]_vars => (BankBInv /\ LookInv)'
  BY StepBankB, StepLook
<1>2. Init => BankBInv /\ LookInv
  BY InitBankB, InitLook
<1> QED
  BY <1>1, <1>2, PTL DEF Spec

----------------------------------------------------------------------------
(***************************************************************************)
(* BankBInbound implements AtomicCredit: COMMIT is the decision, and       *)
(* publishing is the reply.                                                *)
(***************************************************************************)
ideal == <<accounts, incoming, credits, replies>>

LEMMA DecideOnce ==
    ASSUME BankBInv, LookInv, NEW d \in Deliveries, Commit(d) \/ CommitUnheard(d)
    PROVE  Ideal!Credit(of[d]) \/ Ideal!Refuse(of[d])
<1> DEFINE t == of[d]
<1>1. /\ pc[d] = "commit" /\ t \in Transfers
      /\ OwnsRow(d) /\ LookedUp(d)
      /\ incoming' = [incoming EXCEPT ![t] = tx[d].status]
      /\ credits' = [credits EXCEPT ![t] = @ + tx[d].credits]
      /\ UNCHANGED <<accounts, replies>>
  BY DEF BankBInv, LookInv, TypeOK, Commit, CommitUnheard, Publish
<1>2. incoming[t] = "none"
  BY <1>1 DEF OwnsRow, InRow
<1>3. CASE found[d]
  <2>1. tx[d].status = "CREDITED" /\ tx[d].credits = 1 /\ PayeeOf[t] \in accounts
    BY <1>1, <1>3 DEF OwnsRow, LookedUp
  <2> QED
    BY <1>1, <1>2, <2>1 DEF Ideal!Credit
<1>4. CASE ~found[d]
  <2>1. tx[d].status = "REJECTED" /\ tx[d].credits = 0 /\ PayeeOf[t] \notin Opened
    BY <1>1, <1>4 DEF OwnsRow, LookedUp
  <2>2. credits' = credits
    BY <1>1, <2>1 DEF BankBInv, TypeOK
  <2> QED
    BY <1>1, <1>2, <2>1, <2>2 DEF Ideal!Refuse
<1> QED
  BY <1>3, <1>4

LEMMA ReplyOfTheBooks ==
    ASSUME BankBInv, NEW d \in Deliveries, PublishReply(d)
    PROVE  Ideal!Reply(of[d])
<1>1. incoming[of[d]] # "none" /\ reply[d] = ReplyFor(incoming[of[d]])
  BY DEF BankBInv, RepliesTruly, PublishReply
<1>2. reply[d] = Ideal!Decision(of[d])
  BY <1>1 DEF ReplyFor, Ideal!Decision
<1> QED
  BY <1>1, <1>2 DEF Ideal!Reply, PublishReply, tables

LEMMA CreditInit == Init => Ideal!Init
BY DEF Init, Ideal!Init

LEMMA CreditStep ==
    BankBInv /\ LookInv /\ [Next]_vars => [Ideal!Next]_(Ideal!vars)
<1> SUFFICES ASSUME BankBInv, LookInv, [Next]_vars
             PROVE  Ideal!Next \/ UNCHANGED ideal
  BY DEF Ideal!vars, ideal
<1>1. ASSUME NEW a \in Accounts, CreateAccount(a)
      PROVE  Ideal!Next
  BY <1>1 DEF CreateAccount, Ideal!Next, Ideal!Open
<1>2. ASSUME NEW d \in Deliveries, Commit(d) \/ CommitUnheard(d) \/ PublishReply(d)
      PROVE  Ideal!Next
  <2>1. of[d] \in Transfers
    BY DEF BankBInv, TypeOK
  <2> QED
    BY <1>2, <2>1, DecideOnce, ReplyOfTheBooks DEF Ideal!Next
<1>3. ASSUME NEW d \in Deliveries,
             Deliver(d) \/ FindExisting(d) \/ Acquire(d) \/ FindAccount(d) \/ TryInsert(d)
             \/ Append(d) \/ ReadWinner(d) \/ Ack(d) \/ Fail(d)
      PROVE  UNCHANGED ideal
  BY <1>3 DEF Deliver, FindExisting, Acquire, FindAccount, TryInsert, Append, ReadWinner,
              Ack, Fail, tables, ideal
<1>4. CASE UNCHANGED vars
  BY <1>4 DEF vars, tables, ideal
<1> QED
  BY <1>1, <1>2, <1>3, <1>4 DEF Next, Handle

\* Statement by statement, with redeliveries, failures and crashes, handle()
\* decides and books each transfer at one instant, once, for an account that
\* is there, and every reply repeats that decision (CreditSpec).
THEOREM CreditedAtOneInstant == Spec => CreditSpec
<1>1. Init => Ideal!Init
  BY CreditInit
<1>2. BankBInv /\ LookInv /\ [Next]_vars => [Ideal!Next]_(Ideal!vars)
  BY CreditStep
<1> QED
  BY <1>1, <1>2, LookInvariant, PTL DEF Spec, CreditSpec, Ideal!Spec

\* What Bank B has decided of a transfer, and what it has told Bank A of it,
\* stays: no step books a decided transfer again, or answers it otherwise.
DecidedForGood ==
    \A t \in Transfers : incoming[t] # "none" =>
        /\ incoming'[t] = incoming[t] /\ credits'[t] = credits[t]
        /\ \A r \in replies' \ replies : r.transfer = t => r.event = ReplyFor(incoming[t])

\* An accountRef that is opened after its transfer was rejected, or a delivery
\* that comes again later, changes nothing of the decision (service.py:41-91).
THEOREM DecisionsStayFinal == Spec => [][DecidedForGood]_vars
<1>1. BankBInv /\ LookInv /\ [Next]_vars => [DecidedForGood]_vars
  <2> SUFFICES ASSUME BankBInv, LookInv, [Next]_vars PROVE DecidedForGood
    OBVIOUS
  <2>1. CASE UNCHANGED <<incoming, credits, replies>>
    BY <2>1 DEF DecidedForGood
  <2>2. ASSUME NEW t \in Transfers, Ideal!Credit(t) \/ Ideal!Refuse(t) PROVE DecidedForGood
    <3>1. /\ incoming[t] = "none" /\ replies' = replies
          /\ \A q \in Transfers \ {t} : incoming'[q] = incoming[q] /\ credits'[q] = credits[q]
      BY <2>2 DEF Ideal!Credit, Ideal!Refuse, BankBInv, TypeOK
    <3> QED
      BY <3>1 DEF DecidedForGood
  <2>3. ASSUME NEW t \in Transfers, Ideal!Reply(t) PROVE DecidedForGood
    <3>1. /\ UNCHANGED <<incoming, credits>>
          /\ replies' = replies \cup {[transfer |-> t, event |-> ReplyFor(incoming[t])]}
      BY <2>3 DEF Ideal!Reply, Ideal!Decision, ReplyFor
    <3> QED
      BY <3>1 DEF DecidedForGood
  <2>4. CASE Ideal!Next
    <3>1. ASSUME NEW a \in Accounts, Ideal!Open(a) PROVE UNCHANGED <<incoming, credits, replies>>
      BY <3>1 DEF Ideal!Open
    <3> QED
      BY <2>1, <2>2, <2>3, <2>4, <3>1 DEF Ideal!Next
  <2> QED
    BY <2>1, <2>4, CreditStep DEF Ideal!vars
<1> QED
  BY <1>1, LookInvariant, PTL DEF Spec

----------------------------------------------------------------------------
(***************************************************************************)
(* What the pool can do to the deliveries, whatever its size and the       *)
(* prefetch: the safety half of EveryDeliveryEnds, and what is wrong with  *)
(* it.                                                                     *)
(***************************************************************************)
\* No more messages are at work than the broker hands out.
WithinPrefetch == IsFiniteSet(Active) /\ Cardinality(Active) <= Prefetch

\* d has a connection and asks for a second one, to look its payee up.
LooksUp(d) == pc[d] = "account" /\ PayeeOf[of[d]] \in Accounts

\* The next await of d can complete now: what ENABLED Handle(d) says.
Ready(d) ==
    /\ pc[d] \notin {"idle", "done"}
    /\ pc[d] \in {"find", "acquire", "winner"} \/ LooksUp(d) => PoolFree
    /\ pc[d] = "insert" => holder[of[d]] = None

\* Those that d waits for: the holder of its transfer's row, or one of those
\* that have the connections.
Awaits(d) == IF pc[d] = "insert" THEN {holder[of[d]]} ELSE InTransaction

NobodyStuck == \A d \in Active : Ready(d) \/ \E e \in Awaits(d) : Ready(e)

\* Every connection is held by a delivery that asks for one more.
Exhausted == ~PoolFree /\ \A d \in InTransaction : LooksUp(d)

LEMMA InitWithin == Init => WithinPrefetch
<1> SUFFICES ASSUME Init PROVE WithinPrefetch
  OBVIOUS
<1>1. Active = {}
  BY DEF Init, Active
<1> QED
  BY <1>1, FS_EmptySet, BankBAssumption DEF WithinPrefetch

LEMMA StepWithin == BankBInv /\ WithinPrefetch /\ [Next]_vars => WithinPrefetch'
<1> SUFFICES ASSUME BankBInv, WithinPrefetch, [Next]_vars PROVE WithinPrefetch'
  OBVIOUS
<1>1. ASSUME NEW d \in Deliveries, Deliver(d)
      PROVE  WithinPrefetch'
  <2>1. Active' = Active \cup {d} /\ d \notin Active /\ Cardinality(Active) < Prefetch
    BY <1>1 DEF Deliver, Goto, Active, BankBInv, TypeOK
  <2>2. IsFiniteSet(Active \cup {d}) /\ Cardinality(Active \cup {d}) = Cardinality(Active) + 1
    BY <2>1, FS_AddElement DEF WithinPrefetch
  <2>3. Cardinality(Active) \in Nat
    BY FS_CardinalityType DEF WithinPrefetch
  <2> QED
    BY <2>1, <2>2, <2>3, BankBAssumption DEF WithinPrefetch
<1>2. ASSUME Active' \subseteq Active
      PROVE  WithinPrefetch'
  <2>1. /\ IsFiniteSet(Active') /\ Cardinality(Active') <= Cardinality(Active)
        /\ Cardinality(Active') \in Nat /\ Cardinality(Active) \in Nat
    BY <1>2, FS_Subset, FS_CardinalityType DEF WithinPrefetch
  <2> QED
    BY <2>1, BankBAssumption DEF WithinPrefetch
<1>3. ASSUME NEW d \in Deliveries, Handle(d) \/ Fail(d) \/ CommitUnheard(d)
      PROVE  Active' \subseteq Active
  <2>1. d \in Active
    BY <1>3 DEF Active, Handle, FindExisting, Acquire, FindAccount, TryInsert, Append, Commit,
                ReadWinner, PublishReply, Ack, Fail, CommitUnheard
  <2>2. \A e \in Deliveries \ {d} : pc'[e] = pc[e]
    BY <1>3 DEF Handle, FindExisting, Acquire, FindAccount, TryInsert, Append, Commit,
                ReadWinner, PublishReply, Ack, Fail, CommitUnheard, Return, End, Goto,
                BankBInv, TypeOK
  <2> QED
    BY <2>1, <2>2 DEF Active
<1>4. ASSUME UNCHANGED pc
      PROVE  Active' \subseteq Active
  BY <1>4 DEF Active
<1>5. (\E a \in Accounts : CreateAccount(a)) \/ UNCHANGED vars => UNCHANGED pc
  BY DEF CreateAccount, vars
<1> QED
  BY <1>1, <1>2, <1>3, <1>4, <1>5 DEF Next

\* Handlers in a transaction are at work, so a pool larger than the prefetch has
\* a connection left.
LEMMA FullPoolIsSmall ==
    ASSUME WithinPrefetch, ~PoolFree
    PROVE  PoolSize <= Prefetch
<1>1. InTransaction \in SUBSET Active
  BY DEF InTransaction, Active
<1>2. /\ Cardinality(InTransaction) <= Cardinality(Active)
      /\ Cardinality(InTransaction) \in Nat /\ Cardinality(Active) \in Nat
  BY <1>1, FS_Subset, FS_CardinalityType DEF WithinPrefetch
<1> QED
  BY <1>2, BankBAssumption DEF WithinPrefetch, PoolFree

\* Who has a row to append to or commit waits for nobody.
LEMMA HolderIsReady ==
    ASSUME BankBInv, LookInv, NEW d \in Deliveries, pc[d] = "insert", holder[of[d]] # None
    PROVE  holder[of[d]] \in InTransaction /\ Ready(holder[of[d]])
<1>1. of[d] \in Transfers /\ holder[of[d]] \in Deliveries
  BY DEF BankBInv, TypeOK
<1>2. pc[holder[of[d]]] \in {"append", "commit"}
  BY <1>1 DEF LookInv, HoldersAlive, InRow
<1> QED
  BY <1>1, <1>2 DEF Ready, LooksUp, InTransaction

LEMMA ReadyOrExhausted ==
    ASSUME BankBInv, LookInv, NEW d \in Active, ~Ready(d), \A e \in Awaits(d) : ~Ready(e)
    PROVE  Exhausted
<1>1. d \in Deliveries /\ pc[d] # "insert"
  BY HolderIsReady DEF Active, Awaits, Ready, LooksUp
<1>2. ~PoolFree
  BY <1>1 DEF Ready, Active
<1>3. ASSUME NEW e \in InTransaction PROVE LooksUp(e)
  <2>1. e \in Deliveries /\ pc[e] \in {"account", "insert", "append", "commit"} /\ ~Ready(e)
    BY <1>1 DEF InTransaction, Awaits
  <2>2. pc[e] # "insert"
    <3>1. pc[e] = "insert" => holder[of[e]] # None
      BY <2>1 DEF Ready, LooksUp
    <3>2. pc[e] = "insert" => holder[of[e]] \in InTransaction /\ Ready(holder[of[e]])
      BY <2>1, <3>1, HolderIsReady
    <3> QED
      BY <1>1, <3>2 DEF Awaits
  <2> QED
    BY <2>1, <2>2 DEF Ready
<1> QED
  BY <1>2, <1>3 DEF Exhausted

\* transfers/service.py:55-63: every message at work can go on, or waits for one
\* that can, unless all connections of the pool are held by deliveries that look
\* their payee up on another - and the prefetch is large enough for that, as
\* messaging/connection.py and db.py have it.  No row, no redelivery and no failure
\* sticks a delivery in any other way.
THEOREM OnlyThePoolSticks == Spec => [](NobodyStuck \/ (Exhausted /\ PoolSize <= Prefetch))
<1>1. BankBInv /\ LookInv /\ WithinPrefetch => NobodyStuck \/ (Exhausted /\ PoolSize <= Prefetch)
  BY ReadyOrExhausted, FullPoolIsSmall DEF NobodyStuck, Exhausted
<1>2. BankBInv /\ WithinPrefetch /\ [Next]_vars => WithinPrefetch'
  BY StepWithin
<1>3. Init => WithinPrefetch
  BY InitWithin
<1> QED
  BY <1>1, <1>2, <1>3, LookInvariant, PTL DEF Spec

\* And then it stays so: none of those deliveries gets its second connection, and
\* no new one its first, until a statement of one of them fails or the process dies.
THEOREM ExhaustedForGood ==
    Spec => [][Exhausted => Exhausted' \/ \E d \in InTransaction : Fail(d)]_vars
<1> DEFINE ForGood == Exhausted => Exhausted' \/ \E d \in InTransaction : Fail(d)
<1>1. BankBInv /\ [Next]_vars => [ForGood]_vars
  <2> SUFFICES ASSUME BankBInv, Next, Exhausted, \A d \in InTransaction : ~Fail(d)
               PROVE  Exhausted'
    OBVIOUS
  <2>1. ASSUME InTransaction' = InTransaction, \A d \in InTransaction : pc'[d] = pc[d], of' = of
        PROVE  Exhausted'
    BY <2>1 DEF Exhausted, LooksUp, PoolFree
  <2>2. ASSUME NEW a \in Accounts, CreateAccount(a) PROVE Exhausted'
    BY <2>1, <2>2 DEF CreateAccount, InTransaction
  <2>3. ASSUME NEW d \in Deliveries, Deliver(d) \/ Handle(d) \/ Fail(d) \/ CommitUnheard(d)
        PROVE  Exhausted'
    <3>1. pc[d] \notin {"account", "insert", "append", "commit"} /\ ~PoolFree
      BY <2>3 DEF Exhausted, LooksUp, InTransaction, Deliver, Handle, FindExisting, Acquire,
                  FindAccount, TryInsert, Append, Commit, ReadWinner, PublishReply, Ack, CommitUnheard
    <3>2. Deliver(d) \/ PublishReply(d) \/ Ack(d) \/ Fail(d)
      BY <2>3, <3>1 DEF Handle, FindExisting, Acquire, FindAccount, TryInsert, Append, Commit,
                        ReadWinner, CommitUnheard
    <3>3. /\ of' = of /\ pc'[d] \in {"find", "ack", "done"}
          /\ \A e \in Deliveries \ {d} : pc'[e] = pc[e]
      BY <3>2 DEF Deliver, PublishReply, Ack, Fail, End, Goto, BankBInv, TypeOK
    <3> QED
      BY <2>1, <3>1, <3>3 DEF InTransaction
  <2> QED
    BY <2>2, <2>3 DEF Next
<1> QED
  BY <1>1, BankBInvariant, PTL DEF Spec
=============================================================================
