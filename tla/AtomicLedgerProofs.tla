------------------------- MODULE AtomicLedgerProofs -------------------------
(***************************************************************************)
(* What Bank A tells its clients is true of its books, each key is booked  *)
(* once and whole, and the services implement AtomicLedger: for any number *)
(* of concurrent requests.  A handler past its insert owns its key, because*)
(* the insert waited for every open transaction that had it; and a row,    *)
(* once committed, is the request of the handler that minted its id.       *)
(* The same invariants show that no requests wait for each other.          *)
(***************************************************************************)
EXTENDS BankALedgerProofs, FiniteSetTheorems, WellFoundedInduction

Writing == {"fk", "check", "write", "commit"}

\* An open transaction holds its own rows and no others.
Buffered(h) ==
    /\ tx[h].transfers = IF pc[h] \in Writing THEN {TransferRow(h)} ELSE {}
    /\ tx[h].interbank = IF pc[h] = "commit" /\ req[h].kind = "interbank"
                         THEN {InterbankRow(h)} ELSE {}
    /\ tx[h].outbox = IF pc[h] = "commit" /\ req[h].kind = "interbank"
                      THEN {OutboxRow(h)} ELSE {}

\* Nobody has committed the key of a handler past its insert, or is about to.
KeyIsFree(h) ==
    /\ ~KeyTaken(h)
    /\ \A g \in Handlers \ {h} : pc[g] \in Writing => KeyOf(g) # KeyOf(h)

\* A committed transfer is its handler's request, with everything it writes.
BookedFor(t) ==
    LET h == t.id IN
    /\ h \in Handlers /\ t = TransferRow(h)
    /\ pc[h] \in {"readback", "done"}
    /\ EntryRows(h) \subseteq entries
    /\ req[h].kind = "interbank" => InterbankRow(h) \in interbank /\ OutboxRow(h) \in outbox

NothingStray ==
    /\ \A e \in entries : \E t \in transfers : e \in EntryRows(t.id)
    /\ \A i \in interbank : \E t \in transfers :
          i = InterbankRow(t.id) /\ req[t.id].kind = "interbank"
    /\ \A o \in outbox : \E t \in transfers :
          o = OutboxRow(t.id) /\ req[t.id].kind = "interbank"

KeysUnique == \A t, u \in transfers : t.key = u.key => t = u

\* What a handler about to answer relies on, and what those who answered said.
OnItsWay(h) ==
    /\ pc[h] = "readback" => TransferRow(h) \in transfers /\ req[h].kind = "seed"
    /\ pc[h] = "winner" => KeyTaken(h)
    /\ pc[h] # "done" => answer[h].status = "none"

Truthful(h) ==
    /\ answer[h].status # "vanished"
    /\ answer[h].status = "ok" =>
          \E t \in transfers :
              /\ t = [TransferRow(h) EXCEPT !.id = answer[h].transfer]
              /\ req[h].kind = "interbank" =>
                     [InterbankRow(h) EXCEPT !.transfer = t.id] \in interbank
    /\ \/ answer[h].status \in {"invalid", "notfound", "conflict", "insufficient"}
       \/ answer[h].status = "unreadable" /\ req[h].kind # "seed"
       => \A t \in transfers : t.id # h

KeysInv ==
    /\ \A h \in Handlers : /\ Buffered(h)
                           /\ pc[h] \in Writing => KeyIsFree(h)
                           /\ OnItsWay(h)
                           /\ Truthful(h)
    /\ \A t \in transfers : BookedFor(t)
    /\ NothingStray
    /\ KeysUnique

----------------------------------------------------------------------------
LEMMA KeysInit == Init => KeysInv
<1> SUFFICES ASSUME Init PROVE KeysInv
  OBVIOUS
<1>1. \A h \in Handlers : /\ pc[h] = "idle" /\ tx[h] = EmptyTx
                         /\ answer[h] = [status |-> "none", transfer |-> None]
  BY DEF Init
<1>2. \A h \in Handlers : Buffered(h) /\ OnItsWay(h) /\ Truthful(h) /\ pc[h] \notin Writing
  <2> SUFFICES ASSUME NEW h \in Handlers
               PROVE  Buffered(h) /\ OnItsWay(h) /\ Truthful(h) /\ pc[h] \notin Writing
    OBVIOUS
  <2>1. pc[h] = "idle" /\ answer[h].status = "none"
    BY <1>1
  <2>2. tx[h].transfers = {} /\ tx[h].interbank = {} /\ tx[h].outbox = {}
    BY <1>1 DEF EmptyTx
  <2>3. OnItsWay(h) /\ Truthful(h)
    BY <2>1 DEF OnItsWay, Truthful
  <2> QED
    BY <2>1, <2>2, <2>3 DEF Buffered, Writing
<1>4. transfers = {} /\ entries = {} /\ interbank = {} /\ outbox = {}
  BY DEF Init
<1>3. NothingStray /\ KeysUnique /\ \A t \in transfers : BookedFor(t)
  BY <1>4 DEF NothingStray, KeysUnique
<1> QED
  BY <1>2, <1>3 DEF KeysInv

\* What keeps the invariant for a step that commits nothing: only the handler
\* that moves is to be looked at.
LEMMA QuietStep ==
    ASSUME LedgerInv, KeysInv, UNCHANGED <<transfers, entries, interbank, outbox, req>>,
           NEW h \in Handlers, Buffered(h)', OnItsWay(h)', Truthful(h)',
           pc[h] \in {"readback", "done"} => pc'[h] \in {"readback", "done"},
           pc'[h] \in Writing => pc[h] \in Writing \/ KeyIsFree(h),
           \A g \in Handlers \ {h} :
               pc'[g] = pc[g] /\ tx'[g] = tx[g] /\ answer'[g] = answer[g]
    PROVE  KeysInv'
<1>1. \A g \in Handlers : /\ TransferRow(g)' = TransferRow(g)
                         /\ InterbankRow(g)' = InterbankRow(g)
                         /\ OutboxRow(g)' = OutboxRow(g)
                         /\ EntryRows(g)' = EntryRows(g)
                         /\ KeyOf(g)' = KeyOf(g)
                         /\ KeyTaken(g)' = KeyTaken(g)
  BY DEF TransferRow, InterbankRow, OutboxRow, EntryRows, KeyOf, KeyTaken
<1>2. ASSUME NEW g \in Handlers \ {h} PROVE Buffered(g)' /\ OnItsWay(g)' /\ Truthful(g)'
  <2>1. Buffered(g) /\ OnItsWay(g) /\ Truthful(g)
    BY DEF KeysInv
  <2>2. pc'[g] = pc[g] /\ tx'[g] = tx[g] /\ answer'[g] = answer[g]
    OBVIOUS
  <2>3. Buffered(g)'
    BY <1>1, <2>1, <2>2 DEF Buffered
  <2>4. OnItsWay(g)'
    BY <1>1, <2>1, <2>2 DEF OnItsWay
  <2>5. Truthful(g)'
    BY <1>1, <2>1, <2>2 DEF Truthful
  <2> QED
    BY <2>3, <2>4, <2>5
<1>3. \A g \in Handlers : pc'[g] \in Writing => KeyIsFree(g)'
  BY <1>1 DEF KeysInv, KeyIsFree
<1>4. \A t \in transfers' : BookedFor(t)'
  BY <1>1 DEF KeysInv, BookedFor
<1>5. \A t \in transfers : t.id \in Handlers
  BY DEF KeysInv, BookedFor
<1>6. NothingStray'
  BY <1>1, <1>5 DEF KeysInv, NothingStray
<1>7. KeysUnique'
  BY <1>1 DEF KeysInv, KeysUnique
<1> QED
  BY <1>2, <1>3, <1>4, <1>6, <1>7 DEF KeysInv

\* A handler that has not committed has nothing in the books.
LEMMA NotBooked ==
    ASSUME KeysInv, NEW h \in Handlers, pc[h] \notin {"readback", "done"}
    PROVE  \A t \in transfers : t.id # h
BY DEF KeysInv, BookedFor

LEMMA Ended ==
    ASSUME TypeOK, NEW h \in Handlers, EndTx(h)
    PROVE  tx'[h] = EmptyTx /\ \A g \in Handlers \ {h} : tx'[g] = tx[g]
BY DEF TypeOK, EndTx

LEMMA Responded ==
    ASSUME TypeOK, NEW h \in Handlers, NEW s, NEW t, Respond(h, s, t)
    PROVE  /\ pc'[h] = "done" /\ answer'[h] = [status |-> s, transfer |-> t]
           /\ \A g \in Handlers \ {h} : pc'[g] = pc[g] /\ answer'[g] = answer[g]
BY DEF TypeOK, Respond, Goto

\* A handler that refuses has ended its transaction, if it had one, and books
\* nothing; one that may have booked says "error" or, for a seed, "unreadable".
LEMMA RefuseStep ==
    ASSUME LedgerInv, KeysInv, NEW h \in Handlers,
           NEW s \in {"invalid", "notfound", "conflict", "insufficient", "unreadable", "error"},
           Respond(h, s, None), UNCHANGED <<transfers, entries, interbank, outbox, req>>,
           pc[h] # "done", pc[h] = "readback" => s \in {"unreadable", "error"},
           \/ EndTx(h)
           \/ UNCHANGED tx /\ pc[h] \notin Writing
    PROVE  KeysInv'
<1> USE DEF LedgerInv
<1>1. /\ pc'[h] = "done" /\ answer'[h] = [status |-> s, transfer |-> None]
      /\ \A g \in Handlers \ {h} : pc'[g] = pc[g] /\ answer'[g] = answer[g]
  BY Responded
<1>2. /\ tx'[h].transfers = {} /\ tx'[h].interbank = {} /\ tx'[h].outbox = {}
      /\ \A g \in Handlers \ {h} : tx'[g] = tx[g]
  <2>1. CASE EndTx(h)
    BY <2>1, Ended DEF EmptyTx
  <2>2. CASE UNCHANGED tx /\ pc[h] \notin Writing
    BY <2>2 DEF KeysInv, Buffered, Writing
  <2> QED
    BY <2>1, <2>2
<1>3. Buffered(h)' /\ OnItsWay(h)'
  BY <1>1, <1>2 DEF Buffered, OnItsWay, Writing
<1>4. Truthful(h)'
  <2>1. CASE pc[h] = "readback"
    <3>1. req[h].kind = "seed"
      BY <2>1 DEF KeysInv, OnItsWay
    <3> QED
      BY <1>1, <2>1, <3>1 DEF Truthful
  <2>2. CASE pc[h] # "readback"
    BY <1>1, <2>2, NotBooked DEF Truthful
  <2> QED
    BY <2>1, <2>2
<1> QED
  BY <1>1, <1>2, <1>3, <1>4, QuietStep DEF Writing

\* A stored transfer that matches a request is the row of that request, under
\* the id its own handler minted.
LEMMA MatchIsRow ==
    ASSUME LedgerInv, KeysInv, NEW h \in Handlers, NEW t \in transfers,
           t.key = KeyOf(h), Matches(t, h)
    PROVE  /\ t = [TransferRow(h) EXCEPT !.id = t.id]
           /\ req[h].kind = "interbank" =>
                  [InterbankRow(h) EXCEPT !.transfer = t.id] \in interbank
<1>1. t \in TransferRows
  BY DEF LedgerInv, TypeOK
<1>2. t = [TransferRow(h) EXCEPT !.id = t.id]
  BY <1>1 DEF Matches, TransferRow, TransferRows
<1>3. ASSUME req[h].kind = "interbank"
      PROVE  [InterbankRow(h) EXCEPT !.transfer = t.id] \in interbank
  <2>1. PICK i \in interbank : i.transfer = t.id /\ i.to = req[h].to
    BY <1>3 DEF Matches
  <2>2. i \in InterbankRows
    BY DEF LedgerInv, TypeOK
  <2>3. i = [InterbankRow(h) EXCEPT !.transfer = t.id]
    BY <2>1, <2>2 DEF InterbankRows, InterbankRow
  <2> QED
    BY <2>3
<1> QED
  BY <1>2, <1>3

LEMMA ReplayStep ==
    ASSUME LedgerInv, KeysInv, NEW h \in Handlers, Replay(h), pc[h] \in {"find", "winner"},
           UNCHANGED <<transfers, entries, interbank, outbox, req, tx>>
    PROVE  KeysInv'
<1>1. PICK t \in transfers :
         /\ t.key = KeyOf(h)
         /\ IF Matches(t, h) THEN Respond(h, "ok", t.id) ELSE Respond(h, "conflict", None)
  BY DEF Replay
<1>2. CASE ~Matches(t, h)
  <2>1. Respond(h, "conflict", None)
    BY <1>1, <1>2
  <2> QED
    BY <2>1, RefuseStep DEF Writing
<1>3. CASE Matches(t, h)
  <2>1. /\ pc'[h] = "done" /\ answer'[h] = [status |-> "ok", transfer |-> t.id]
        /\ \A g \in Handlers \ {h} : pc'[g] = pc[g] /\ answer'[g] = answer[g]
    BY <1>1, <1>3, Responded DEF LedgerInv
  <2>2. Buffered(h)
    BY DEF KeysInv
  <2>3. Buffered(h)' /\ OnItsWay(h)'
    BY <2>1, <2>2 DEF Buffered, OnItsWay, Writing
  <2>4. TransferRow(h)' = TransferRow(h) /\ InterbankRow(h)' = InterbankRow(h)
    BY DEF TransferRow, KeyOf, InterbankRow
  <2>5. Truthful(h)'
    <3>1. /\ t \in transfers' /\ interbank' = interbank /\ req' = req
          /\ answer'[h].status = "ok" /\ answer'[h].transfer = t.id
      BY <1>1, <2>1
    <3>2. /\ t = [TransferRow(h) EXCEPT !.id = t.id]
          /\ req[h].kind = "interbank" => [InterbankRow(h) EXCEPT !.transfer = t.id] \in interbank
      BY <1>1, <1>3, MatchIsRow
    <3> QED
      BY <2>4, <3>1, <3>2 DEF Truthful
  <2> QED
    BY <2>1, <2>3, <2>5, QuietStep DEF Writing
<1> QED
  BY <1>2, <1>3

\* A handler that only moves on, inside a transaction or outside it.
LEMMA AdvanceStep ==
    ASSUME LedgerInv, KeysInv, NEW h \in Handlers,
           NEW l \in {"find", "connect", "lock", "insert", "check", "write"}, Goto(h, l),
           UNCHANGED <<transfers, entries, interbank, outbox, req, answer, tx>>,
           pc[h] \notin {"readback", "done", "commit"}, l \in Writing <=> pc[h] \in Writing
    PROVE  KeysInv'
<1>1. pc'[h] = l /\ \A g \in Handlers \ {h} : pc'[g] = pc[g]
  BY DEF LedgerInv, TypeOK, Goto
<1>2. Buffered(h) /\ OnItsWay(h) /\ Truthful(h)
  BY DEF KeysInv
<1>3. TransferRow(h)' = TransferRow(h) /\ InterbankRow(h)' = InterbankRow(h)
  BY DEF TransferRow, KeyOf, InterbankRow
<1>4. Buffered(h)'
  BY <1>1, <1>2, <1>3 DEF Buffered, Writing
<1>5. OnItsWay(h)' /\ Truthful(h)'
  BY <1>1, <1>2, <1>3 DEF OnItsWay, Truthful
<1> QED
  BY <1>1, <1>4, <1>5, QuietStep DEF Writing

\* The loser of the race on a key gives up its transaction; the winner's row
\* is committed, since the insert waited for it.
LEMMA LoseKeyStep ==
    ASSUME LedgerInv, KeysInv, NEW h \in Handlers, pc[h] = "insert", KeyTaken(h),
           EndTx(h), Goto(h, "winner"), UNCHANGED answer,
           UNCHANGED <<transfers, entries, interbank, outbox, req>>
    PROVE  KeysInv'
<1>1. pc'[h] = "winner" /\ \A g \in Handlers \ {h} : pc'[g] = pc[g]
  BY DEF LedgerInv, TypeOK, Goto
<1>2. OnItsWay(h) /\ Truthful(h)
  BY DEF KeysInv
<1>3. KeyTaken(h)' /\ TransferRow(h)' = TransferRow(h) /\ InterbankRow(h)' = InterbankRow(h)
  BY DEF KeyTaken, KeyOf, TransferRow, InterbankRow
<1>4. tx'[h] = EmptyTx /\ \A g \in Handlers \ {h} : tx'[g] = tx[g]
  BY Ended DEF LedgerInv
<1>5. Buffered(h)'
  BY <1>1, <1>4 DEF Buffered, Writing, EmptyTx
<1>6. OnItsWay(h)' /\ Truthful(h)'
  BY <1>1, <1>2, <1>3 DEF OnItsWay, Truthful
<1> QED
  BY <1>1, <1>4, <1>5, <1>6, QuietStep DEF Writing

\* An insert that returns a row finds the key free, and makes it its own.
LEMMA WinKeyStep ==
    ASSUME LedgerInv, KeysInv, NEW h \in Handlers, pc[h] = "insert",
           ~KeyPending(h), ~KeyTaken(h),
           tx' = [tx EXCEPT ![h].transfers = {TransferRow(h)}], Goto(h, "fk"),
           UNCHANGED answer, UNCHANGED <<transfers, entries, interbank, outbox, req>>
    PROVE  KeysInv'
<1>1. pc'[h] = "fk" /\ \A g \in Handlers \ {h} : pc'[g] = pc[g]
  BY DEF LedgerInv, TypeOK, Goto
<1>2. Buffered(h) /\ OnItsWay(h) /\ Truthful(h)
  BY DEF KeysInv
<1>3. TransferRow(h)' = TransferRow(h) /\ InterbankRow(h)' = InterbankRow(h)
  BY DEF KeyOf, TransferRow, InterbankRow
<1>4. /\ tx'[h].transfers = {TransferRow(h)}
      /\ tx'[h].interbank = tx[h].interbank /\ tx'[h].outbox = tx[h].outbox
      /\ \A g \in Handlers \ {h} : tx'[g] = tx[g]
  BY DEF LedgerInv, TypeOK
<1>5. Buffered(h)'
  BY <1>1, <1>2, <1>3, <1>4 DEF Buffered, Writing
<1>6. OnItsWay(h)' /\ Truthful(h)'
  BY <1>1, <1>2, <1>3 DEF OnItsWay, Truthful
<1>7. KeyIsFree(h)
  <2> SUFFICES ASSUME NEW g \in Handlers \ {h}, pc[g] \in Writing PROVE KeyOf(g) # KeyOf(h)
    BY DEF KeyIsFree
  <2>1. tx[g].transfers = {TransferRow(g)}
    BY DEF KeysInv, Buffered
  <2>2. TransferRow(g).key = KeyOf(g)
    BY DEF TransferRow
  <2> QED
    BY <2>1, <2>2 DEF KeyPending
<1> QED
  BY <1>1, <1>4, <1>5, <1>6, <1>7, QuietStep DEF Writing

LEMMA WriteRowsStep ==
    ASSUME LedgerInv, KeysInv, NEW h \in Handlers, WriteRows(h)
    PROVE  KeysInv'
<1>1. /\ pc[h] = "write" /\ pc'[h] = "commit"
      /\ \A g \in Handlers \ {h} : pc'[g] = pc[g] /\ tx'[g] = tx[g]
      /\ tx'[h].transfers = tx[h].transfers
      /\ tx'[h].interbank = IF req[h].kind = "interbank" THEN {InterbankRow(h)} ELSE {}
      /\ tx'[h].outbox = IF req[h].kind = "interbank" THEN {OutboxRow(h)} ELSE {}
      /\ UNCHANGED <<transfers, entries, interbank, outbox, req, answer>>
  BY DEF LedgerInv, TypeOK, WriteRows, Goto, tables
<1>2. Buffered(h) /\ OnItsWay(h) /\ Truthful(h)
  BY DEF KeysInv
<1>3. /\ TransferRow(h)' = TransferRow(h) /\ InterbankRow(h)' = InterbankRow(h)
      /\ OutboxRow(h)' = OutboxRow(h) /\ req'[h] = req[h]
  BY <1>1 DEF KeyOf, TransferRow, InterbankRow, OutboxRow
<1>4. Buffered(h)'
  BY <1>1, <1>2, <1>3 DEF Buffered, Writing
<1>5. OnItsWay(h)' /\ Truthful(h)'
  BY <1>1, <1>2, <1>3 DEF OnItsWay, Truthful
<1> QED
  BY <1>1, <1>4, <1>5, QuietStep DEF Writing

\* COMMIT books the request whole, under a key nobody else has.
LEMMA PublishStep ==
    ASSUME LedgerInv, KeysInv, NEW h \in Handlers, pc[h] = "commit", Publish(h), UNCHANGED req,
           \/ req[h].kind = "seed" /\ Goto(h, "readback") /\ UNCHANGED answer
           \/ Respond(h, "ok", h)
           \/ Respond(h, "error", None)
    PROVE  KeysInv'
<1>1. /\ pc'[h] \in {"readback", "done"} /\ (pc'[h] = "readback" => req[h].kind = "seed")
      /\ \A g \in Handlers \ {h} : pc'[g] = pc[g] /\ answer'[g] = answer[g]
      /\ \/ pc'[h] = "readback" /\ answer'[h] = answer[h]
         \/ pc'[h] = "done" /\ answer'[h] = [status |-> "ok", transfer |-> h]
         \/ pc'[h] = "done" /\ answer'[h] = [status |-> "error", transfer |-> None]
  BY DEF LedgerInv, TypeOK, Respond, Goto
<1>2. tx'[h] = EmptyTx /\ \A g \in Handlers \ {h} : tx'[g] = tx[g]
  BY Ended DEF LedgerInv, Publish
<1>3. /\ transfers' = transfers \cup {TransferRow(h)}
      /\ entries' = entries \cup EntryRows(h)
      /\ interbank' = interbank \cup (IF req[h].kind = "interbank" THEN {InterbankRow(h)} ELSE {})
      /\ outbox' = outbox \cup (IF req[h].kind = "interbank" THEN {OutboxRow(h)} ELSE {})
  BY DEF Publish, KeysInv, Buffered, Writing, LedgerInv, EntriesBuffered
<1>4. \A g \in Handlers : /\ TransferRow(g)' = TransferRow(g)
                         /\ InterbankRow(g)' = InterbankRow(g)
                         /\ OutboxRow(g)' = OutboxRow(g)
                         /\ EntryRows(g)' = EntryRows(g)
                         /\ KeyOf(g)' = KeyOf(g)
                         /\ req'[g] = req[g]
  BY DEF TransferRow, InterbankRow, OutboxRow, EntryRows, KeyOf
<1>5. /\ Buffered(h) /\ KeyIsFree(h) /\ OnItsWay(h) /\ Truthful(h)
      /\ \A t \in transfers : t.id # h
  BY NotBooked DEF KeysInv, Writing
<1>6. TransferRow(h).id = h /\ TransferRow(h).key = KeyOf(h)
  BY DEF TransferRow
<1>7. ASSUME NEW g \in Handlers \ {h} PROVE Buffered(g)' /\ OnItsWay(g)' /\ Truthful(g)'
  <2>1. Buffered(g) /\ OnItsWay(g) /\ Truthful(g)
    BY DEF KeysInv
  <2>2. pc'[g] = pc[g] /\ tx'[g] = tx[g] /\ answer'[g] = answer[g]
    BY <1>1, <1>2
  <2>3. Buffered(g)'
    BY <1>4, <2>1, <2>2 DEF Buffered
  <2>4. OnItsWay(g)'
    BY <1>3, <1>4, <2>1, <2>2 DEF OnItsWay, KeyTaken
  <2>5. Truthful(g)'
    BY <1>3, <1>4, <1>6, <2>1, <2>2 DEF Truthful
  <2> QED
    BY <2>3, <2>4, <2>5
<1>8. Buffered(h)' /\ OnItsWay(h)'
  BY <1>1, <1>2, <1>3, <1>4, <1>5 DEF Buffered, OnItsWay, Writing, EmptyTx
<1>9. Truthful(h)'
  <2>1. CASE pc'[h] = "readback" /\ answer'[h] = answer[h]
    BY <1>5, <2>1 DEF Truthful, OnItsWay
  <2>2. CASE answer'[h] = [status |-> "error", transfer |-> None]
    BY <2>2 DEF Truthful
  <2>3. CASE answer'[h] = [status |-> "ok", transfer |-> h]
    <3>1. TransferRow(h) = [TransferRow(h) EXCEPT !.id = h]
      BY DEF TransferRow
    <3>2. InterbankRow(h) = [InterbankRow(h) EXCEPT !.transfer = h]
      BY DEF InterbankRow
    <3>3. req[h].kind = "interbank" => InterbankRow(h) \in interbank'
      BY <1>3
    <3> QED
      BY <1>3, <1>4, <1>6, <2>3, <3>1, <3>2, <3>3 DEF Truthful
  <2> QED
    BY <1>1, <2>1, <2>2, <2>3
<1>10. \A g \in Handlers : pc'[g] \in Writing => KeyIsFree(g)'
  <2> SUFFICES ASSUME NEW g \in Handlers, pc'[g] \in Writing PROVE KeyIsFree(g)'
    OBVIOUS
  <2>1. g # h /\ pc[g] \in Writing
    BY <1>1 DEF Writing
  <2>2. KeyIsFree(g)
    BY <2>1 DEF KeysInv
  <2>3. KeyOf(g) # KeyOf(h)
    BY <1>5, <2>1 DEF KeyIsFree
  <2>4. ~KeyTaken(g)'
    BY <1>3, <1>4, <1>6, <2>2, <2>3 DEF KeyIsFree, KeyTaken
  <2>5. \A f \in Handlers \ {g} : pc'[f] \in Writing => pc[f] \in Writing
    BY <1>1 DEF Writing
  <2> QED
    BY <1>4, <2>2, <2>4, <2>5 DEF KeyIsFree
<1>11. \A t \in transfers' : BookedFor(t)'
  <2>1. ASSUME NEW t \in transfers PROVE BookedFor(t)'
    <3>1. BookedFor(t)
      BY DEF KeysInv
    <3>2. pc'[t.id] \in {"readback", "done"}
      BY <1>1, <3>1 DEF BookedFor
    <3> QED
      BY <1>3, <1>4, <3>1, <3>2 DEF BookedFor
  <2>2. ASSUME NEW t, t = TransferRow(h) PROVE BookedFor(t)'
    BY <1>1, <1>3, <1>4, <1>6, <2>2 DEF BookedFor
  <2> QED
    BY <1>3, <2>1, <2>2
<1>12. NothingStray'
  <2>1. TransferRow(h) \in transfers'
    BY <1>3
  <2>2. \A t \in transfers : /\ t \in transfers'
                             /\ EntryRows(t.id)' = EntryRows(t.id)
                             /\ InterbankRow(t.id)' = InterbankRow(t.id)
                             /\ OutboxRow(t.id)' = OutboxRow(t.id)
                             /\ req'[t.id] = req[t.id]
    BY <1>3, <1>4 DEF KeysInv, BookedFor
  <2>3. \A e \in entries' : \E t \in transfers' : e \in EntryRows(t.id)'
    BY <1>3, <1>4, <1>6, <2>1, <2>2 DEF KeysInv, NothingStray
  <2>4. \A i \in interbank' : \E t \in transfers' :
           i = InterbankRow(t.id)' /\ req'[t.id].kind = "interbank"
    BY <1>3, <1>4, <1>6, <2>1, <2>2 DEF KeysInv, NothingStray
  <2>5. \A o \in outbox' : \E t \in transfers' :
           o = OutboxRow(t.id)' /\ req'[t.id].kind = "interbank"
    BY <1>3, <1>4, <1>6, <2>1, <2>2 DEF KeysInv, NothingStray
  <2> QED
    BY <2>3, <2>4, <2>5 DEF NothingStray
<1>13. KeysUnique'
  <2>1. \A t \in transfers : t.key # KeyOf(h)
    BY <1>5 DEF KeyIsFree, KeyTaken
  <2> QED
    BY <1>3, <1>6, <2>1 DEF KeysInv, KeysUnique
<1> QED
  BY <1>7, <1>8, <1>9, <1>10, <1>11, <1>12, <1>13 DEF KeysInv

\* A seed that reads its balance back has its transfer in the books.
LEMMA ReadBackStep ==
    ASSUME LedgerInv, KeysInv, NEW h \in Handlers, pc[h] = "readback", Respond(h, "ok", h),
           UNCHANGED <<transfers, entries, interbank, outbox, req, tx>>
    PROVE  KeysInv'
<1>1. /\ pc'[h] = "done" /\ answer'[h] = [status |-> "ok", transfer |-> h]
      /\ \A g \in Handlers \ {h} : pc'[g] = pc[g] /\ answer'[g] = answer[g]
  BY Responded DEF LedgerInv
<1>2. /\ Buffered(h) /\ TransferRow(h) \in transfers /\ req[h].kind = "seed"
      /\ TransferRow(h)' = TransferRow(h)
  BY DEF KeysInv, OnItsWay, TransferRow, KeyOf
<1>3. Buffered(h)' /\ OnItsWay(h)'
  BY <1>1, <1>2 DEF Buffered, OnItsWay, Writing
<1>4. TransferRow(h) = [TransferRow(h) EXCEPT !.id = h]
  BY DEF TransferRow
<1>5. Truthful(h)'
  BY <1>1, <1>2, <1>4 DEF Truthful
<1> QED
  BY <1>1, <1>3, <1>5, QuietStep DEF Writing

\* A step that no handler takes.
LEMMA ElsewhereStep ==
    ASSUME KeysInv, UNCHANGED <<transfers, entries, interbank, outbox, tx, pc, req, answer>>
    PROVE  KeysInv'
<1>1. ASSUME NEW h \in Handlers PROVE Buffered(h)'
  BY DEF KeysInv, Buffered, TransferRow, KeyOf, InterbankRow, OutboxRow
<1>2. ASSUME NEW h \in Handlers, pc'[h] \in Writing PROVE KeyIsFree(h)'
  BY <1>2 DEF KeysInv, KeyIsFree, KeyTaken, KeyOf
<1>3. ASSUME NEW h \in Handlers PROVE OnItsWay(h)'
  BY DEF KeysInv, OnItsWay, KeyTaken, KeyOf, TransferRow
<1>4. ASSUME NEW h \in Handlers PROVE Truthful(h)'
  BY DEF KeysInv, Truthful, TransferRow, KeyOf, InterbankRow
<1>5. ASSUME NEW t \in transfers' PROVE BookedFor(t)'
  BY DEF KeysInv, BookedFor, TransferRow, KeyOf, InterbankRow, OutboxRow, EntryRows
<1>6. NothingStray' /\ KeysUnique'
  BY DEF KeysInv, NothingStray, KeysUnique, InterbankRow, OutboxRow, EntryRows
<1> QED
  BY <1>1, <1>2, <1>3, <1>4, <1>5, <1>6 DEF KeysInv

LEMMA KeysStep == LedgerInv /\ KeysInv /\ [Next]_vars => KeysInv'
<1> SUFFICES ASSUME LedgerInv, KeysInv, [Next]_vars PROVE KeysInv'
  OBVIOUS
<1>1. ASSUME NEW c \in Customers, CreateAccount(c) PROVE KeysInv'
  <2>1. UNCHANGED <<transfers, entries, interbank, outbox, tx, pc, req, answer>>
    BY <1>1 DEF CreateAccount
  <2> QED
    BY <2>1, ElsewhereStep
<1>2. ASSUME NEW h \in Handlers, Arrive(h) PROVE KeysInv'
  <2>1. pc[h] = "idle" /\ UNCHANGED <<transfers, entries, interbank, outbox, req, tx>>
    BY <1>2 DEF Arrive, tables
  <2>2. CASE \E s \in {"invalid", "notfound"} : Respond(h, s, None)
    BY <2>1, <2>2, RefuseStep DEF Writing
  <2>3. CASE \E l \in {"find", "connect"} : Goto(h, l) /\ UNCHANGED answer
    BY <2>1, <2>3, AdvanceStep DEF Writing
  <2> QED
    BY <1>2, <2>2, <2>3 DEF Arrive
<1>3. ASSUME NEW h \in Handlers, FindByKey(h) PROVE KeysInv'
  <2>1. pc[h] = "find" /\ UNCHANGED <<transfers, entries, interbank, outbox, req, tx>>
    BY <1>3 DEF FindByKey, tables
  <2>2. CASE Replay(h)
    BY <2>1, <2>2, ReplayStep
  <2>3. CASE Goto(h, "connect") /\ UNCHANGED answer
    BY <2>1, <2>3, AdvanceStep DEF Writing
  <2> QED
    BY <1>3, <2>2, <2>3 DEF FindByKey
<1>4. ASSUME NEW h \in Handlers, Begin(h) PROVE KeysInv'
  <2>1. /\ pc[h] = "connect" /\ UNCHANGED <<transfers, entries, interbank, outbox, req, tx, answer>>
        /\ \E l \in {"lock", "insert"} : Goto(h, l)
    BY <1>4 DEF Begin, tables
  <2> QED
    BY <2>1, AdvanceStep DEF Writing
<1>5. ASSUME NEW h \in Handlers, LockAccount(h) PROVE KeysInv'
  <2>1. pc[h] = "lock" /\ UNCHANGED <<transfers, entries, interbank, outbox, req>>
    BY <1>5 DEF LockAccount, tables
  <2>2. CASE RollbackWith(h, "notfound")
    BY <2>1, <2>2, RefuseStep DEF RollbackWith
  <2>3. CASE (\E l \in {"lock", "insert"} : Goto(h, l)) /\ UNCHANGED <<tx, answer>>
    BY <2>1, <2>3, AdvanceStep DEF Writing
  <2> QED
    BY <1>5, <2>2, <2>3 DEF LockAccount
<1>6. ASSUME NEW h \in Handlers, InsertTransfer(h) PROVE KeysInv'
  <2>1. /\ pc[h] = "insert" /\ ~KeyPending(h)
        /\ UNCHANGED <<transfers, entries, interbank, outbox, req>>
    BY <1>6 DEF InsertTransfer, tables
  <2>2. CASE RollbackWith(h, "error")
    BY <2>1, <2>2, RefuseStep DEF RollbackWith
  <2>3. CASE KeyTaken(h) /\ EndTx(h) /\ Goto(h, "winner") /\ UNCHANGED answer
    BY <2>1, <2>3, LoseKeyStep
  <2>4. CASE /\ ~KeyTaken(h)
             /\ tx' = [tx EXCEPT ![h].transfers = {TransferRow(h)}]
             /\ Goto(h, "fk") /\ UNCHANGED answer
    BY <2>1, <2>4, WinKeyStep
  <2> QED
    BY <1>6, <2>2, <2>3, <2>4 DEF InsertTransfer
<1>7. ASSUME NEW h \in Handlers, CheckForeignKeys(h) PROVE KeysInv'
  <2>1. /\ pc[h] = "fk" /\ UNCHANGED <<transfers, entries, interbank, outbox, req, tx, answer>>
        /\ \E l \in {"write", "check"} : Goto(h, l)
    BY <1>7 DEF CheckForeignKeys, tables
  <2> QED
    BY <2>1, AdvanceStep DEF Writing
<1>8. ASSUME NEW h \in Handlers, CheckBalance(h) PROVE KeysInv'
  <2>1. pc[h] = "check" /\ UNCHANGED <<transfers, entries, interbank, outbox, req>>
    BY <1>8 DEF CheckBalance, tables
  <2>2. CASE \E s \in {"unreadable", "insufficient"} : RollbackWith(h, s)
    BY <2>1, <2>2, RefuseStep DEF RollbackWith
  <2>3. CASE Goto(h, "write") /\ UNCHANGED <<tx, answer>>
    BY <2>1, <2>3, AdvanceStep DEF Writing
  <2> QED
    BY <1>8, <2>2, <2>3 DEF CheckBalance
<1>9. ASSUME NEW h \in Handlers, Commit(h) \/ CommitUnheard(h) PROVE KeysInv'
  <2>1. pc[h] = "commit" /\ Publish(h) /\ UNCHANGED req
    BY <1>9 DEF Commit, CommitUnheard
  <2>2. \/ req[h].kind = "seed" /\ Goto(h, "readback") /\ UNCHANGED answer
        \/ Respond(h, "ok", h)
        \/ Respond(h, "error", None)
    BY <1>9 DEF Commit, CommitUnheard
  <2> QED
    BY <2>1, <2>2, PublishStep
<1>10. ASSUME NEW h \in Handlers, Fail(h) PROVE KeysInv'
  <2>1. /\ pc[h] # "done" /\ EndTx(h) /\ Respond(h, "error", None)
        /\ UNCHANGED <<transfers, entries, interbank, outbox, req>>
    BY <1>10 DEF Fail, RollbackWith, tables
  <2> QED
    BY <2>1, RefuseStep
<1>11. ASSUME NEW h \in Handlers, ReadWinner(h) PROVE KeysInv'
  <2>1. /\ pc[h] = "winner" /\ KeyTaken(h)
        /\ UNCHANGED <<transfers, entries, interbank, outbox, req, tx>>
    BY <1>11 DEF ReadWinner, tables, KeysInv, OnItsWay
  <2> QED
    BY <1>11, <2>1, ReplayStep DEF ReadWinner
<1>12. ASSUME NEW h \in Handlers, ReadBack(h) PROVE KeysInv'
  <2>1. pc[h] = "readback" /\ UNCHANGED <<transfers, entries, interbank, outbox, req, tx>>
    BY <1>12 DEF ReadBack, tables
  <2>2. CASE Respond(h, "ok", h)
    BY <2>1, <2>2, ReadBackStep
  <2>3. CASE Respond(h, "unreadable", None)
    BY <2>1, <2>3, RefuseStep DEF Writing
  <2> QED
    BY <1>12, <2>2, <2>3 DEF ReadBack
<1>13. CASE UNCHANGED vars
  BY <1>13, ElsewhereStep DEF vars
<1> QED
  BY <1>1, <1>2, <1>3, <1>4, <1>5, <1>6, <1>7, <1>8, <1>9, <1>10, <1>11, <1>12, <1>13,
     WriteRowsStep DEF Next, Progress

----------------------------------------------------------------------------
LEMMA KeysInvariant == Spec => [](LedgerInv /\ KeysInv)
<1>1. Init => KeysInv
  BY KeysInit
<1>2. LedgerInv /\ KeysInv /\ [Next]_vars => KeysInv'
  BY KeysStep
<1> QED
  BY <1>1, <1>2, LedgerInvariant, PTL DEF Spec

\* Clients told "ok" under one key are told one transfer, committed and exactly
\* what they asked (OkAnswersAgree).
THEOREM OneTransferPerKey == Spec => []OkAnswersAgree
<1>1. LedgerInv /\ KeysInv => OkAnswersAgree
  <2> SUFFICES ASSUME LedgerInv, KeysInv, NEW h \in Handlers, answer[h].status = "ok"
               PROVE  /\ \E t \in transfers :
                            /\ t = [TransferRow(h) EXCEPT !.id = answer[h].transfer]
                            /\ req[h].kind = "interbank" =>
                                   [InterbankRow(h) EXCEPT !.transfer = t.id] \in interbank
                      /\ \A g \in Handlers :
                            answer[g].status = "ok" /\ KeyOf(g) = KeyOf(h)
                                => answer[g].transfer = answer[h].transfer
    BY DEF OkAnswersAgree
  <2>1. PICK t \in transfers :
           /\ t = [TransferRow(h) EXCEPT !.id = answer[h].transfer]
           /\ req[h].kind = "interbank" =>
                  [InterbankRow(h) EXCEPT !.transfer = t.id] \in interbank
    BY DEF KeysInv, Truthful
  <2>2. t.key = KeyOf(h) /\ t.id = answer[h].transfer
    BY <2>1 DEF TransferRow
  <2>3. ASSUME NEW g \in Handlers, answer[g].status = "ok", KeyOf(g) = KeyOf(h)
        PROVE  answer[g].transfer = answer[h].transfer
    <3>1. PICK u \in transfers : u = [TransferRow(g) EXCEPT !.id = answer[g].transfer]
      BY <2>3 DEF KeysInv, Truthful
    <3>2. u.key = KeyOf(g) /\ u.id = answer[g].transfer
      BY <3>1 DEF TransferRow
    <3> QED
      BY <2>2, <2>3, <3>2 DEF KeysInv, KeysUnique
  <2> QED
    BY <2>1, <2>3
<1> QED
  BY <1>1, KeysInvariant, PTL

\* A refused request leaves nothing in the books (RefusalsLeaveNoTrace).
THEOREM RefusalsAlwaysTrue == Spec => []RefusalsLeaveNoTrace
<1>1. KeysInv => RefusalsLeaveNoTrace
  BY DEF KeysInv, Truthful, RefusalsLeaveNoTrace
<1> QED
  BY <1>1, KeysInvariant, PTL

\* transfers.service.ts:61-62: the loser of the race on a key always finds the
\* winner's transfer (WinnerIsThere).
THEOREM WinnerAlwaysThere == Spec => []WinnerIsThere
<1>1. KeysInv => WinnerIsThere
  BY DEF KeysInv, Truthful, WinnerIsThere
<1> QED
  BY <1>1, KeysInvariant, PTL

\* A request tells its rows apart by where the money goes: only an interbank
\* transfer goes from a customer to the suspense account.
LEMMA KindByParties ==
    ASSUME TypeOK, NEW h \in Handlers
    PROVE  /\ req[h].kind = "interbank" <=> req[h].payee = Suspense /\ req[h].payer # Treasury
           /\ req[h].kind # "interbank" => req[h].to = None
<1>1. WellFormed(req[h])
  BY RequestsAssumption DEF TypeOK
<1> QED
  BY <1>1, AccountsAssumption DEF WellFormed, LocalRequest, InterbankRequest, SeedRequest

\* A transfer has both its entries and, if it is interbank, its row and its
\* event; and there are no others (BookedWhole).
THEOREM AlwaysBookedWhole == Spec => []BookedWhole
<1>1. LedgerInv /\ KeysInv => BookedWhole
  <2> SUFFICES ASSUME LedgerInv, KeysInv PROVE BookedWhole
    OBVIOUS
  <2>1. \A h \in Handlers : /\ \A e \in EntryRows(h) : e.transfer = h
                           /\ InterbankRow(h).transfer = h /\ InterbankRow(h).to = req[h].to
                           /\ OutboxRow(h).settlement = h
    BY DEF EntryRows, InterbankRow, OutboxRow
  <2>2. ASSUME NEW t \in transfers
        PROVE  /\ t.id \in Handlers /\ t = TransferRow(t.id)
               /\ {e \in entries : e.transfer = t.id} = EntryRows(t.id)
    BY <2>1 DEF KeysInv, BookedFor, NothingStray
  <2>3. ASSUME NEW t \in transfers
        PROVE  {[account |-> e.account, amount |-> e.amount] :
                   e \in {x \in entries : x.transfer = t.id}}
                 = {[account |-> t.payer, amount |-> -t.amount],
                    [account |-> t.payee, amount |-> t.amount]}
    <3>1. /\ t.payer = req[t.id].payer /\ t.payee = req[t.id].payee
          /\ t.amount = req[t.id].amount
      BY <2>2 DEF TransferRow
    <3> DEFINE debit == [transfer |-> t.id, account |-> t.payer, amount |-> -t.amount]
               credit == [transfer |-> t.id, account |-> t.payee, amount |-> t.amount]
    <3>2. {e \in entries : e.transfer = t.id} = {debit, credit}
      BY <2>2, <3>1 DEF EntryRows
    <3>3. /\ debit.account = t.payer /\ debit.amount = -t.amount
          /\ credit.account = t.payee /\ credit.amount = t.amount
      OBVIOUS
    <3> HIDE DEF debit, credit
    <3>4. {[account |-> e.account, amount |-> e.amount] : e \in {debit, credit}}
            = {[account |-> debit.account, amount |-> debit.amount],
               [account |-> credit.account, amount |-> credit.amount]}
      OBVIOUS
    <3> QED
      BY <3>2, <3>3, <3>4
  <2>4. ASSUME NEW t \in transfers, t.payee = Suspense, t.payer # Treasury
        PROVE  \E i \in interbank :
                  /\ i.transfer = t.id
                  /\ {o \in outbox : o.settlement = t.id}
                         = {[settlement |-> t.id, to |-> i.to, amount |-> t.amount]}
    <3>1. /\ t.id \in Handlers /\ req[t.id].kind = "interbank"
          /\ t.amount = req[t.id].amount
      BY <2>2, <2>4, KindByParties DEF LedgerInv, TransferRow
    <3>2. InterbankRow(t.id) \in interbank /\ OutboxRow(t.id) \in outbox
      BY <3>1 DEF KeysInv, BookedFor
    <3>3. {o \in outbox : o.settlement = t.id} = {OutboxRow(t.id)}
      BY <2>1, <2>2, <3>1, <3>2 DEF KeysInv, NothingStray
    <3>4. OutboxRow(t.id) = [settlement |-> t.id, to |-> InterbankRow(t.id).to, amount |-> t.amount]
      BY <2>1, <3>1 DEF OutboxRow
    <3> QED
      BY <2>1, <3>1, <3>2, <3>3, <3>4
  <2>5. ASSUME NEW t \in transfers, ~(t.payee = Suspense /\ t.payer # Treasury)
        PROVE  /\ \A i \in interbank : i.transfer # t.id
               /\ \A o \in outbox : o.settlement # t.id
    <3>1. t.id \in Handlers /\ req[t.id].kind # "interbank"
      BY <2>2, <2>5, KindByParties DEF LedgerInv, TransferRow
    <3> QED
      BY <2>1, <2>2, <3>1 DEF KeysInv, NothingStray
  <2>6. \A id \in {e.transfer : e \in entries} \cup {i.transfer : i \in interbank}
                   \cup {o.settlement : o \in outbox} : \E t \in transfers : t.id = id
    BY <2>1, <2>2 DEF KeysInv, NothingStray
  <2> QED
    BY <2>3, <2>4, <2>5, <2>6 DEF BookedWhole
<1> QED
  BY <1>1, KeysInvariant, PTL

----------------------------------------------------------------------------
(***************************************************************************)
(* The refinement: COMMIT is the instant of the booking, every response is *)
(* an answer, and all other steps stutter.                                 *)
(***************************************************************************)

Booked == {Atomic!Booking(t.id) : t \in transfers}
BooksMatch == Bookings = Booked

\* What the tables show as booked is what the handlers asked for.
LEMMA BooksAreRequests == LedgerInv /\ KeysInv => Bookings = Booked
<1> SUFFICES ASSUME LedgerInv, KeysInv PROVE Bookings = Booked
  OBVIOUS
<1>1. ASSUME NEW t \in transfers PROVE Destination(t.id) = req[t.id].to
  <2>1. t.id \in Handlers /\ BookedFor(t)
    BY DEF KeysInv, BookedFor
  <2>2. ASSUME NEW i \in interbank, i.transfer = t.id PROVE i.to = req[t.id].to
    <3>1. PICK u \in transfers : i = InterbankRow(u.id)
      BY DEF KeysInv, NothingStray
    <3> QED
      BY <2>2, <3>1 DEF InterbankRow
  <2>3. CASE req[t.id].kind = "interbank"
    <3>1. InterbankRow(t.id) \in interbank /\ InterbankRow(t.id).transfer = t.id
      BY <2>1, <2>3 DEF BookedFor, InterbankRow
    <3> QED
      BY <2>2, <3>1 DEF Destination
  <2>4. CASE req[t.id].kind # "interbank"
    <3>1. \A i \in interbank : i.transfer # t.id
      BY <2>1, <2>4 DEF KeysInv, NothingStray, InterbankRow
    <3> QED
      BY <2>1, <2>4, <3>1, KindByParties DEF Destination, LedgerInv
  <2> QED
    BY <2>3, <2>4
<1>2. ASSUME NEW t \in transfers
      PROVE  [id |-> t.id, key |-> t.key, payer |-> t.payer, payee |-> t.payee,
              amount |-> t.amount, to |-> Destination(t.id)] = Atomic!Booking(t.id)
  <2>1. t = TransferRow(t.id)
    BY DEF KeysInv, BookedFor
  <2>2. /\ t.key = KeyOf(t.id) /\ t.payer = req[t.id].payer
        /\ t.payee = req[t.id].payee /\ t.amount = req[t.id].amount
    BY <2>1 DEF TransferRow
  <2> QED
    BY <1>1, <2>2 DEF Atomic!Booking, Atomic!KeyOf, KeyOf
<1> QED
  BY <1>2 DEF Bookings, Booked

\* A step that books and answers nothing is none of AtomicLedger's.
LEMMA StutterStep ==
    ASSUME UNCHANGED <<transfers, interbank, outbox, balance, req, answer>>
    PROVE  UNCHANGED Atomic!vars
<1>1. Bookings' = Bookings
  BY DEF Bookings, Destination
<1> QED
  BY <1>1 DEF Atomic!vars

\* A refusal is true of the books.
LEMMA RefusalIsAnswer ==
    ASSUME LedgerInv, KeysInv, NEW h \in Handlers, pc[h] # "done",
           UNCHANGED <<transfers, interbank, outbox, balance, req>>,
           NEW s, Respond(h, s, None),
           \/ s = "error"
           \/ s = "unreadable" /\ pc[h] = "readback"
           \/ s \in {"invalid", "notfound", "unreadable"} /\ pc[h] # "readback"
           \/ /\ s = "insufficient" /\ pc[h] # "readback"
              /\ balance[req[h].payer] < req[h].amount
    PROVE  Atomic!Answer(h)
<1>1. answer[h].status = "none" /\ (pc[h] = "readback" => req[h].kind = "seed")
  BY DEF KeysInv, OnItsWay
<1>2. Bookings' = Bookings
  BY DEF Bookings, Destination
<1>3. Atomic!Told(h, s, None)
  BY DEF Respond, Atomic!Told
<1>4. pc[h] # "readback" => Atomic!Booking(h) \notin Bookings
  <2> SUFFICES ASSUME pc[h] # "readback", NEW t \in transfers
               PROVE  Atomic!Booking(t.id) # Atomic!Booking(h)
    BY BooksAreRequests DEF Booked
  <2>1. t.id # h
    BY NotBooked
  <2> QED
    BY <2>1 DEF Atomic!Booking
<1>5. UNCHANGED <<req, Bookings, outbox, balance>>
  BY <1>2
<1> QED
  BY <1>1, <1>3, <1>4, <1>5 DEF Atomic!Answer

\* A replay says "ok" of the booking under the request's key when it is the
\* same request, and "conflict" when it is another.
LEMMA ReplayIsAnswer ==
    ASSUME LedgerInv, KeysInv, NEW h \in Handlers, pc[h] # "done", Replay(h),
           UNCHANGED <<transfers, interbank, outbox, balance, req>>
    PROVE  Atomic!Answer(h)
<1>1. PICK t \in transfers :
         /\ t.key = KeyOf(h)
         /\ IF Matches(t, h) THEN Respond(h, "ok", t.id) ELSE Respond(h, "conflict", None)
  BY DEF Replay
<1>2. answer[h].status = "none"
  BY DEF KeysInv, OnItsWay
<1>3. UNCHANGED <<req, Bookings, outbox, balance>>
  BY DEF Bookings, Destination
<1>4. /\ BookedFor(t) /\ t.id \in Handlers /\ t = TransferRow(t.id)
  BY DEF KeysInv, BookedFor
<1>5. /\ t.key = KeyOf(t.id) /\ t.payer = req[t.id].payer
      /\ t.payee = req[t.id].payee /\ t.amount = req[t.id].amount
  BY <1>4 DEF TransferRow
<1> DEFINE b == Atomic!Booking(t.id)
<1>6. b \in Bookings
  BY BooksAreRequests DEF Booked
<1>7. b.key = Atomic!KeyOf(h) /\ b.id = t.id
  BY <1>1, <1>5 DEF Atomic!Booking, Atomic!KeyOf, KeyOf
<1>8. Atomic!Same(b, h) <=>
         /\ t.payer = req[h].payer /\ t.payee = req[h].payee
         /\ t.amount = req[h].amount /\ req[t.id].to = req[h].to
  BY <1>1, <1>5 DEF Atomic!Same, Atomic!Booking, Atomic!KeyOf, KeyOf
<1>9. Atomic!Same(b, h) <=> Matches(t, h)
  <2> SUFFICES ASSUME t.payer = req[h].payer, t.payee = req[h].payee
               PROVE  req[t.id].to = req[h].to <=>
                          (req[h].kind = "interbank" =>
                              \E i \in interbank : i.transfer = t.id /\ i.to = req[h].to)
    BY <1>8 DEF Matches
  <2>1. req[h].kind = "interbank" <=> req[t.id].kind = "interbank"
    BY <1>4, <1>5, KindByParties DEF LedgerInv
  <2>2. CASE req[h].kind # "interbank"
    BY <1>4, <2>1, <2>2, KindByParties DEF LedgerInv
  <2>3. CASE req[h].kind = "interbank"
    <3>1. /\ InterbankRow(t.id) \in interbank
          /\ InterbankRow(t.id).transfer = t.id /\ InterbankRow(t.id).to = req[t.id].to
      BY <1>4, <2>1, <2>3 DEF BookedFor, InterbankRow
    <3>2. ASSUME NEW i \in interbank, i.transfer = t.id PROVE i.to = req[t.id].to
      <4>1. PICK u \in transfers : i = InterbankRow(u.id)
        BY DEF KeysInv, NothingStray
      <4> QED
        BY <3>2, <4>1 DEF InterbankRow
    <3> QED
      BY <2>3, <3>1, <3>2
  <2> QED
    BY <2>2, <2>3
<1> HIDE DEF b
<1>10. CASE Matches(t, h)
  BY <1>1, <1>2, <1>3, <1>6, <1>7, <1>9, <1>10 DEF Respond, Atomic!Told, Atomic!Answer
<1>11. CASE ~Matches(t, h)
  BY <1>1, <1>2, <1>3, <1>6, <1>7, <1>9, <1>11 DEF Respond, Atomic!Told, Atomic!Answer
<1> QED
  BY <1>10, <1>11

\* A seed that has read its balance back names its own booking.
LEMMA ReadBackIsAnswer ==
    ASSUME LedgerInv, KeysInv, NEW h \in Handlers, pc[h] = "readback", Respond(h, "ok", h),
           UNCHANGED <<transfers, interbank, outbox, balance, req>>
    PROVE  Atomic!Answer(h)
<1>1. /\ answer[h].status = "none" /\ TransferRow(h) \in transfers
  BY DEF KeysInv, OnItsWay
<1>2. UNCHANGED <<req, Bookings, outbox, balance>>
  BY DEF Bookings, Destination
<1> DEFINE b == Atomic!Booking(h)
<1>3. TransferRow(h).id = h
  BY DEF TransferRow
<1>4. b \in Bookings
  BY <1>1, <1>3, BooksAreRequests DEF Booked
<1>5. b.key = Atomic!KeyOf(h) /\ b.id = h /\ Atomic!Same(b, h)
  BY DEF Atomic!Booking, Atomic!KeyOf, Atomic!Same
<1> HIDE DEF b
<1> QED
  BY <1>1, <1>2, <1>4, <1>5 DEF Respond, Atomic!Told, Atomic!Answer

\* COMMIT books the request: its key is unused, what it checked still holds,
\* and the client hears "ok", or an error, or waits for its balance.
LEMMA CommitIsBooking ==
    ASSUME LedgerInv, KeysInv, BooksMatch', NEW h \in Handlers, pc[h] = "commit",
           Publish(h), UNCHANGED req,
           UNCHANGED answer \/ Respond(h, "ok", h) \/ Respond(h, "error", None)
    PROVE  Atomic!Book(h)
<1>1. /\ answer[h].status = "none" /\ KeyIsFree(h) /\ Buffered(h)
      /\ tx[h].entries = EntryRows(h) /\ req[h].payer # req[h].payee
  BY DEF KeysInv, OnItsWay, Writing, LedgerInv, EntriesBuffered
<1>2. \A b \in Bookings : b.key # Atomic!KeyOf(h)
  <2> SUFFICES ASSUME NEW t \in transfers PROVE Atomic!Booking(t.id).key # Atomic!KeyOf(h)
    BY BooksAreRequests DEF Booked
  <2>1. t = TransferRow(t.id)
    BY DEF KeysInv, BookedFor
  <2>2. t.key = KeyOf(t.id)
    BY <2>1 DEF TransferRow
  <2> QED
    BY <1>1, <2>2 DEF KeyIsFree, KeyTaken, Atomic!Booking, Atomic!KeyOf, KeyOf
<1>3. req[h].kind # "seed" => balance[req[h].payer] >= req[h].amount
  BY DEF LedgerInv, CheckedBalanceIsCurrent
<1>4. Bookings' = Bookings \cup {Atomic!Booking(h)}
  <2>1. transfers' = transfers \cup {TransferRow(h)} /\ TransferRow(h).id = h
    BY <1>1 DEF Publish, Buffered, Writing, TransferRow
  <2>2. \A g : Atomic!Booking(g)' = Atomic!Booking(g)
    BY DEF Atomic!Booking, Atomic!KeyOf
  <2>3. Booked' = Booked \cup {Atomic!Booking(h)}
    BY <2>1, <2>2 DEF Booked
  <2> QED
    BY <2>3, BooksAreRequests DEF BooksMatch
<1>5. outbox' = IF req[h].kind = "interbank"
                THEN outbox \cup {[settlement |-> h, to |-> req[h].to, amount |-> req[h].amount]}
                ELSE outbox
  BY <1>1 DEF Publish, Buffered, OutboxRow
<1>6. balance' = [balance EXCEPT ![req[h].payer] = @ - req[h].amount,
                                 ![req[h].payee] = @ + req[h].amount]
  <2>1. /\ balance \in [Accounts -> Int]
        /\ req[h].payer \in Accounts /\ req[h].payee \in Accounts /\ req[h].amount \in Nat
    BY RequestsAssumption DEF LedgerInv, TypeOK, RequestType
  <2>2. balance' = [a \in Accounts |-> balance[a] + NetEffect(EntryRows(h), a)]
    BY <1>1 DEF Publish
  <2>3. \A a \in Accounts : balance'[a] = IF a = req[h].payer THEN balance[a] - req[h].amount
                                          ELSE IF a = req[h].payee
                                          THEN balance[a] + req[h].amount ELSE balance[a]
    BY <1>1, <2>1, <2>2, DoubleEntry
  <2> QED
    BY <1>1, <2>1, <2>2, <2>3
<1>7. answer' = answer \/ Atomic!Told(h, "ok", h) \/ Atomic!Told(h, "error", None)
  BY DEF Respond, Atomic!Told
<1> QED
  BY <1>1, <1>2, <1>3, <1>4, <1>5, <1>6, <1>7 DEF Atomic!Book

LEMMA StepIsAtomic ==
    LedgerInv /\ KeysInv /\ BooksMatch' /\ [Next]_vars => [Atomic!Next]_(Atomic!vars)
<1> SUFFICES ASSUME LedgerInv, KeysInv, BooksMatch', [Next]_vars
             PROVE  Atomic!Next \/ UNCHANGED Atomic!vars
  OBVIOUS
<1>1. ASSUME NEW c \in Customers, CreateAccount(c) PROVE UNCHANGED Atomic!vars
  BY <1>1, StutterStep DEF CreateAccount
<1>2. ASSUME NEW h \in Handlers, Arrive(h) PROVE Atomic!Answer(h) \/ UNCHANGED Atomic!vars
  <2>1. pc[h] = "idle" /\ UNCHANGED <<transfers, interbank, outbox, balance, req>>
    BY <1>2 DEF Arrive, tables
  <2>2. CASE \E s \in {"invalid", "notfound"} : Respond(h, s, None)
    BY <2>1, <2>2, RefusalIsAnswer
  <2>3. CASE UNCHANGED answer
    BY <2>1, <2>3, StutterStep
  <2> QED
    BY <1>2, <2>2, <2>3 DEF Arrive
<1>3. ASSUME NEW h \in Handlers, FindByKey(h) PROVE Atomic!Answer(h) \/ UNCHANGED Atomic!vars
  <2>1. pc[h] = "find" /\ UNCHANGED <<transfers, interbank, outbox, balance, req>>
    BY <1>3 DEF FindByKey, tables
  <2> QED
    BY <1>3, <2>1, StutterStep, ReplayIsAnswer DEF FindByKey
<1>4. ASSUME NEW h \in Handlers,
             Begin(h) \/ CheckForeignKeys(h) \/ WriteRows(h)
      PROVE  UNCHANGED Atomic!vars
  BY <1>4, StutterStep DEF Begin, CheckForeignKeys, WriteRows, tables
<1>5. ASSUME NEW h \in Handlers, LockAccount(h) PROVE Atomic!Answer(h) \/ UNCHANGED Atomic!vars
  <2>1. pc[h] = "lock" /\ UNCHANGED <<transfers, interbank, outbox, balance, req>>
    BY <1>5 DEF LockAccount, tables
  <2>2. CASE Respond(h, "notfound", None)
    BY <2>1, <2>2, RefusalIsAnswer
  <2>3. CASE UNCHANGED answer
    BY <2>1, <2>3, StutterStep
  <2> QED
    BY <1>5, <2>2, <2>3 DEF LockAccount, RollbackWith
<1>6. ASSUME NEW h \in Handlers, InsertTransfer(h)
      PROVE  Atomic!Answer(h) \/ UNCHANGED Atomic!vars
  <2>1. pc[h] = "insert" /\ UNCHANGED <<transfers, interbank, outbox, balance, req>>
    BY <1>6 DEF InsertTransfer, tables
  <2>2. CASE Respond(h, "error", None)
    BY <2>1, <2>2, RefusalIsAnswer
  <2>3. CASE UNCHANGED answer
    BY <2>1, <2>3, StutterStep
  <2> QED
    BY <1>6, <2>2, <2>3 DEF InsertTransfer, RollbackWith
<1>7. ASSUME NEW h \in Handlers, CheckBalance(h)
      PROVE  Atomic!Answer(h) \/ UNCHANGED Atomic!vars
  <2>1. pc[h] = "check" /\ UNCHANGED <<transfers, interbank, outbox, balance, req>>
    BY <1>7 DEF CheckBalance, tables
  <2>2. CASE Respond(h, "unreadable", None)
    BY <2>1, <2>2, RefusalIsAnswer
  <2>3. CASE Respond(h, "insufficient", None) /\ balance[req[h].payer] < req[h].amount
    BY <2>1, <2>3, RefusalIsAnswer
  <2>4. CASE UNCHANGED answer
    BY <2>1, <2>4, StutterStep
  <2> QED
    BY <1>7, <2>2, <2>3, <2>4 DEF CheckBalance, RollbackWith
<1>8. ASSUME NEW h \in Handlers, Commit(h) \/ CommitUnheard(h) PROVE Atomic!Book(h)
  <2>1. /\ pc[h] = "commit" /\ Publish(h) /\ UNCHANGED req
        /\ UNCHANGED answer \/ Respond(h, "ok", h) \/ Respond(h, "error", None)
    BY <1>8 DEF Commit, CommitUnheard
  <2> QED
    BY <2>1, CommitIsBooking
<1>9. ASSUME NEW h \in Handlers, Fail(h) PROVE Atomic!Answer(h)
  <2>1. /\ pc[h] # "done" /\ Respond(h, "error", None)
        /\ UNCHANGED <<transfers, interbank, outbox, balance, req>>
    BY <1>9 DEF Fail, RollbackWith, tables
  <2> QED
    BY <2>1, RefusalIsAnswer
<1>10. ASSUME NEW h \in Handlers, ReadWinner(h) PROVE Atomic!Answer(h)
  <2>1. /\ pc[h] = "winner" /\ KeyTaken(h)
        /\ UNCHANGED <<transfers, interbank, outbox, balance, req>>
    BY <1>10 DEF ReadWinner, tables, KeysInv, OnItsWay
  <2> QED
    BY <1>10, <2>1, ReplayIsAnswer DEF ReadWinner
<1>11. ASSUME NEW h \in Handlers, ReadBack(h) PROVE Atomic!Answer(h)
  <2>1. pc[h] = "readback" /\ UNCHANGED <<transfers, interbank, outbox, balance, req>>
    BY <1>11 DEF ReadBack, tables
  <2> QED
    BY <1>11, <2>1, ReadBackIsAnswer, RefusalIsAnswer DEF ReadBack
<1>12. CASE UNCHANGED vars
  BY <1>12, StutterStep DEF vars
<1>13. CASE Next
  <2>1. ASSUME NEW h \in Handlers, Atomic!Answer(h) \/ Atomic!Book(h) PROVE Atomic!Next
    BY <2>1 DEF Atomic!Next
  <2> QED
    BY <1>1, <1>2, <1>3, <1>4, <1>5, <1>6, <1>7, <1>8, <1>9, <1>10, <1>11, <1>13, <2>1
       DEF Next, Progress
<1> QED
  BY <1>12, <1>13

\* Statement by statement, with locks, races, lost commits and failures, Bank
\* A's services do no more than AtomicLedger (AtomicSpec).
THEOREM BookedAtOneInstant == Spec => AtomicSpec
<1>1. Init => Atomic!Init
  BY DEF Init, Atomic!Init, Bookings
<1>2. LedgerInv /\ KeysInv => BooksMatch
  BY BooksAreRequests DEF BooksMatch
<1> QED
  BY <1>1, <1>2, StepIsAtomic, KeysInvariant, PTL DEF Spec, AtomicSpec, Atomic!Spec

\* Money is moved, never made: balances change only with the two entries of one
\* transfer, which take from one account what they give to another.
MoneyMoves ==
    \/ UNCHANGED <<entries, balance>>
    \/ \E h \in Handlers :
          /\ req[h].payer # req[h].payee
          /\ entries' = entries \cup EntryRows(h)
          /\ balance' = [balance EXCEPT ![req[h].payer] = @ - req[h].amount,
                                        ![req[h].payee] = @ + req[h].amount]

\* README.md:7, "without ever losing or duplicating" money, within Bank A: no step
\* of any request changes what all its accounts hold together.
THEOREM MoneyOnlyMoves == Spec => [][MoneyMoves]_vars
<1>1. LedgerInv /\ KeysInv /\ BooksMatch' /\ [Next]_vars => [MoneyMoves]_vars
  <2> SUFFICES ASSUME LedgerInv, KeysInv, BooksMatch', Next PROVE MoneyMoves
    OBVIOUS
  <2>1. CASE \E h \in Handlers : Commit(h) \/ CommitUnheard(h)
    <3>1. PICK h \in Handlers : Commit(h) \/ CommitUnheard(h)
      BY <2>1
    <3>2. /\ pc[h] = "commit" /\ Publish(h) /\ UNCHANGED req
          /\ UNCHANGED answer \/ Respond(h, "ok", h) \/ Respond(h, "error", None)
      BY <3>1 DEF Commit, CommitUnheard
    <3>3. balance' = [balance EXCEPT ![req[h].payer] = @ - req[h].amount,
                                     ![req[h].payee] = @ + req[h].amount]
      BY <3>2, CommitIsBooking DEF Atomic!Book
    <3>4. tx[h].entries = EntryRows(h) /\ req[h].payer # req[h].payee
      BY <3>2 DEF LedgerInv, EntriesBuffered
    <3>5. entries' = entries \cup EntryRows(h)
      BY <3>2, <3>4 DEF Publish
    <3> QED
      BY <3>3, <3>4, <3>5 DEF MoneyMoves
  <2>2. CASE ~\E h \in Handlers : Commit(h) \/ CommitUnheard(h)
    <3>1. ASSUME NEW c \in Customers, CreateAccount(c) PROVE UNCHANGED <<entries, balance>>
      BY <3>1 DEF CreateAccount
    <3>2. ASSUME NEW h \in Handlers,
                 \/ Arrive(h) \/ FindByKey(h) \/ Begin(h) \/ LockAccount(h) \/ InsertTransfer(h)
                 \/ CheckForeignKeys(h) \/ CheckBalance(h) \/ WriteRows(h) \/ Fail(h)
                 \/ ReadWinner(h) \/ ReadBack(h)
          PROVE  UNCHANGED <<entries, balance>>
      BY <3>2 DEF Arrive, FindByKey, Begin, LockAccount, InsertTransfer, CheckForeignKeys,
                  CheckBalance, WriteRows, Fail, ReadWinner, ReadBack, tables
    <3> QED
      BY <2>2, <3>1, <3>2 DEF Next, Progress, MoneyMoves
  <2> QED
    BY <2>1, <2>2
<1>2. LedgerInv /\ KeysInv => BooksMatch
  BY BooksAreRequests DEF BooksMatch
<1> QED
  BY <1>1, <1>2, KeysInvariant, PTL DEF Spec

----------------------------------------------------------------------------
(***************************************************************************)
(* No deadlock.  Account rows are locked in increasing order, so a chain   *)
(* of lock waiters climbs and ends at a handler past its SELECTs.  That    *)
(* one waits for nobody but the owner of its key, which has its locks and  *)
(* waits for nobody at all; and whoever holds a connection is one of them. *)
(***************************************************************************)

\* A handler's row locks are those of its request, taken least first, and its
\* shares those of the foreign keys.
OwnLocks(h) ==
    /\ \A a \in Accounts : xlock[a] = h => a \in LockSet(h) /\ pc[h] \in Open
    /\ \A a \in Accounts : h \in slock[a] => pc[h] \in {"check", "write", "commit"}
    /\ pc[h] = "lock" =>
          \A a, b \in LockSet(h) : xlock[a] = h /\ xlock[b] # h => a < b

\* Only so many rows are locked, whatever the number of accounts.
LocksBounded == \E n \in Nat : \A a \in Accounts : xlock[a] # None => a <= n

WaitInv == LocksBounded /\ \A h \in Handlers : OwnLocks(h)

\* Which rows a request locks: customers' alone, and none for a seed.
LEMMA LockSets ==
    ASSUME TypeOK, NEW h \in Handlers
    PROVE  /\ LockSet(h) \subseteq Accounts \cap Customers
           /\ Parties(h) \subseteq Accounts
           /\ req[h].kind = "seed" => LockSet(h) = {}
           /\ req[h].kind # "seed" =>
                 \A a \in Parties(h) : a \in LockSet(h) \/ a = Suspense
<1>1. req[h] \in RequestType /\ WellFormed(req[h])
  BY RequestsAssumption DEF TypeOK
<1>2. Parties(h) \subseteq Accounts
  BY <1>1 DEF RequestType, Parties
<1>3. CASE req[h].kind = "local"
  <2>1. LockSet(h) = Parties(h)
    BY <1>3, Zenon DEF LockSet
  <2> QED
    BY <1>1, <1>2, <1>3, <2>1
       DEF WellFormed, LocalRequest, InterbankRequest, SeedRequest, Parties
<1>4. CASE req[h].kind = "interbank"
  <2>1. LockSet(h) = {req[h].payer}
    BY <1>4, Zenon DEF LockSet
  <2> QED
    BY <1>1, <1>2, <1>4, <2>1
       DEF WellFormed, LocalRequest, InterbankRequest, SeedRequest, Parties
<1>5. CASE req[h].kind = "seed"
  <2>1. LockSet(h) = {}
    BY <1>5, Zenon DEF LockSet
  <2> QED
    BY <1>2, <1>5, <2>1
<1> QED
  BY <1>1, <1>3, <1>4, <1>5 DEF RequestType

LEMMA WaitInit == Init => WaitInv
<1> SUFFICES ASSUME Init PROVE WaitInv
  OBVIOUS
<1>1. \A h \in Handlers : pc[h] = "idle" /\ \A a \in Accounts : xlock[a] = None /\ slock[a] = {}
  BY DEF Init
<1>2. \A h \in Handlers : OwnLocks(h)
  BY <1>1, NamesAssumption DEF OwnLocks
<1>3. LocksBounded
  <2>1. \A a \in Accounts : xlock[a] # None => a <= 0
    BY DEF Init
  <2> QED
    BY <2>1, 0 \in Nat DEF LocksBounded
<1> QED
  BY <1>2, <1>3 DEF WaitInv

\* The end of a transaction is the end of its locks.
LEMMA EndWait ==
    ASSUME TypeOK, WaitInv, NEW h \in Handlers, EndTx(h), UNCHANGED req,
           \A g \in Handlers \ {h} : pc'[g] = pc[g]
    PROVE  WaitInv'
<1>1. \A a \in Accounts : /\ xlock'[a] = IF xlock[a] = h THEN None ELSE xlock[a]
                         /\ slock'[a] = slock[a] \ {h}
  BY DEF EndTx
<1>2. \A g \in Handlers : LockSet(g)' = LockSet(g) /\ LockSet(g) \subseteq Accounts
  BY LockSets DEF LockSet, Parties
<1>3. OwnLocks(h)'
  BY <1>1, <1>2, NamesAssumption DEF OwnLocks
<1>4. ASSUME NEW g \in Handlers \ {h} PROVE OwnLocks(g)'
  BY <1>1, <1>2, NamesAssumption DEF WaitInv, OwnLocks
<1>5. LocksBounded'
  BY <1>1 DEF WaitInv, LocksBounded
<1> QED
  BY <1>3, <1>4, <1>5 DEF WaitInv

\* A handler that moves on keeps the locks it has.
LEMMA MoveWait ==
    ASSUME TypeOK, WaitInv, UNCHANGED <<xlock, slock, req>>, NEW h \in Handlers,
           \A g \in Handlers \ {h} : pc'[g] = pc[g],
           pc[h] \in Open => pc'[h] \in Open,
           pc[h] \in {"check", "write", "commit"} => pc'[h] \in {"check", "write", "commit"},
           pc'[h] = "lock" => pc[h] \notin Open
    PROVE  WaitInv'
<1>1. \A g \in Handlers : LockSet(g)' = LockSet(g) /\ LockSet(g) \subseteq Accounts
  BY LockSets DEF LockSet, Parties
<1>2. OwnLocks(h)'
  BY <1>1 DEF WaitInv, OwnLocks
<1>3. ASSUME NEW g \in Handlers \ {h} PROVE OwnLocks(g)'
  BY <1>1 DEF WaitInv, OwnLocks
<1>4. LocksBounded'
  BY DEF WaitInv, LocksBounded
<1> QED
  BY <1>2, <1>3, <1>4 DEF WaitInv

\* The row a handler locks next is above those it has.
LEMMA LockWait ==
    ASSUME TypeOK, WaitInv, NEW h \in Handlers, NEW a \in Accounts, NextLock(h, a),
           FreeForUpdate(h, a), xlock' = [xlock EXCEPT ![a] = h], pc[h] = "lock",
           UNCHANGED <<slock, req>>,
           pc'[h] \in {"insert", "lock"}, \A g \in Handlers \ {h} : pc'[g] = pc[g]
    PROVE  WaitInv'
<1>1. xlock[a] = None /\ xlock'[a] = h /\ \A b \in Accounts \ {a} : xlock'[b] = xlock[b]
  BY DEF FreeForUpdate, TypeOK
<1>2. \A g \in Handlers : LockSet(g)' = LockSet(g) /\ LockSet(g) \subseteq Accounts
  BY LockSets DEF LockSet, Parties
<1>3. OwnLocks(h)'
  <2>1. \A b, c \in LockSet(h) : xlock'[b] = h /\ xlock'[c] # h => b < c
    <3> SUFFICES ASSUME NEW b \in LockSet(h), NEW c \in LockSet(h), xlock'[b] = h, xlock'[c] # h
                 PROVE  b < c
      OBVIOUS
    <3>1. c # a /\ xlock[c] # h /\ b \in Nat /\ c \in Nat
      BY <1>1, <1>2, AccountsAssumption
    <3>2. CASE b = a
      BY <3>1, <3>2 DEF NextLock
    <3>3. CASE b # a
      BY <1>1, <1>2, <3>1, <3>3 DEF WaitInv, OwnLocks
    <3> QED
      BY <3>2, <3>3
  <2>2. \A b \in Accounts : xlock'[b] = h => b \in LockSet(h)
    BY <1>1 DEF WaitInv, OwnLocks, NextLock
  <2>3. \A b \in Accounts : h \notin slock[b]
    BY DEF WaitInv, OwnLocks
  <2> QED
    BY <1>2, <2>1, <2>2, <2>3 DEF OwnLocks, Open
<1>4. ASSUME NEW g \in Handlers \ {h} PROVE OwnLocks(g)'
  <2>1. \A b \in Accounts : xlock'[b] = g <=> xlock[b] = g
    BY <1>1, NamesAssumption
  <2> QED
    BY <1>2, <2>1 DEF WaitInv, OwnLocks
<1>5. LocksBounded'
  <2>1. PICK n \in Nat : \A b \in Accounts : xlock[b] # None => b <= n
    BY DEF WaitInv, LocksBounded
  <2> DEFINE m == IF a <= n THEN n ELSE a
  <2>2. m \in Nat /\ a <= m /\ n <= m
    BY AccountsAssumption
  <2> HIDE DEF m
  <2>3. \A b \in Accounts : xlock'[b] # None => b <= m
    BY <1>1, <2>1, <2>2, AccountsAssumption
  <2> QED
    BY <2>2, <2>3 DEF LocksBounded
<1> QED
  BY <1>3, <1>4, <1>5 DEF WaitInv

LEMMA ForeignKeysWait ==
    ASSUME TypeOK, WaitInv, NEW h \in Handlers, CheckForeignKeys(h)
    PROVE  WaitInv'
<1>1. /\ pc'[h] \in {"write", "check"} /\ pc[h] = "fk"
      /\ \A g \in Handlers \ {h} : pc'[g] = pc[g]
      /\ UNCHANGED <<xlock, req>>
  BY DEF CheckForeignKeys, TypeOK, Goto
<1>2. \A b \in Accounts : slock'[b] \subseteq slock[b] \cup {h}
  BY DEF CheckForeignKeys
<1>3. \A g \in Handlers : LockSet(g)' = LockSet(g) /\ LockSet(g) \subseteq Accounts
  BY <1>1, LockSets DEF LockSet, Parties
<1>4. OwnLocks(h)'
  BY <1>1, <1>3 DEF WaitInv, OwnLocks, Open
<1>5. ASSUME NEW g \in Handlers \ {h} PROVE OwnLocks(g)'
  BY <1>1, <1>2, <1>3 DEF WaitInv, OwnLocks
<1>6. LocksBounded'
  BY <1>1 DEF WaitInv, LocksBounded
<1> QED
  BY <1>4, <1>5, <1>6 DEF WaitInv

LEMMA WaitStep == LedgerInv /\ WaitInv /\ [Next]_vars => WaitInv'
<1> SUFFICES ASSUME LedgerInv, WaitInv, [Next]_vars PROVE WaitInv'
  OBVIOUS
<1> USE DEF LedgerInv
<1>1. CASE UNCHANGED vars \/ \E c \in Customers : CreateAccount(c)
  <2>1. UNCHANGED <<xlock, slock, req, pc>>
    BY <1>1 DEF vars, CreateAccount
  <2> QED
    BY <2>1 DEF WaitInv, OwnLocks, LocksBounded, LockSet, Parties
<1>2. ASSUME NEW h \in Handlers,
             Arrive(h) \/ FindByKey(h) \/ Begin(h) \/ ReadWinner(h) \/ ReadBack(h)
      PROVE  WaitInv'
  <2>1. /\ UNCHANGED <<xlock, slock, req>> /\ pc[h] \notin Open
        /\ \A g \in Handlers \ {h} : pc'[g] = pc[g]
    BY <1>2 DEF Arrive, FindByKey, Begin, ReadWinner, ReadBack, Replay, Respond, Goto,
                TypeOK, Open
  <2> QED
    BY <2>1, MoveWait DEF Open
<1>3. ASSUME NEW h \in Handlers, LockAccount(h) PROVE WaitInv'
  <2>1. PICK a \in Accounts :
          /\ NextLock(h, a)
          /\ \/ RollbackWith(h, "notfound")
             \/ /\ FreeForUpdate(h, a)
                /\ xlock' = [xlock EXCEPT ![a] = h]
                /\ Goto(h, IF \A b \in LockSet(h) \ {a} : xlock[b] = h
                           THEN "insert" ELSE "lock")
                /\ UNCHANGED <<slock, tx, answer>>
    BY <1>3 DEF LockAccount
  <2>2. pc[h] = "lock" /\ UNCHANGED req /\ \A g \in Handlers \ {h} : pc'[g] = pc[g]
    BY <1>3, <2>1 DEF LockAccount, RollbackWith, Respond, Goto, TypeOK
  <2>3. CASE RollbackWith(h, "notfound")
    BY <2>2, <2>3, EndWait DEF RollbackWith
  <2>4. CASE /\ FreeForUpdate(h, a)
             /\ xlock' = [xlock EXCEPT ![a] = h]
             /\ Goto(h, IF \A b \in LockSet(h) \ {a} : xlock[b] = h
                        THEN "insert" ELSE "lock")
             /\ UNCHANGED <<slock, tx, answer>>
    <3>1. pc'[h] \in {"insert", "lock"}
      BY <2>4 DEF TypeOK, Goto
    <3> QED
      BY <2>1, <2>2, <2>4, <3>1, LockWait
  <2> QED
    BY <2>1, <2>3, <2>4
<1>4. ASSUME NEW h \in Handlers, InsertTransfer(h) \/ CheckBalance(h) PROVE WaitInv'
  <2>1. /\ UNCHANGED req /\ pc[h] \in {"insert", "check"}
        /\ \A g \in Handlers \ {h} : pc'[g] = pc[g]
    BY <1>4 DEF InsertTransfer, CheckBalance, RollbackWith, Respond, Goto, TypeOK
  <2>2. CASE EndTx(h)
    BY <2>1, <2>2, EndWait
  <2>3. CASE /\ UNCHANGED <<xlock, slock>>
             /\ \/ pc[h] = "insert" /\ Goto(h, "fk")
                \/ pc[h] = "check" /\ Goto(h, "write")
    <3>1. CASE pc[h] = "insert" /\ Goto(h, "fk")
      BY <2>1, <2>3, <3>1, MoveWait DEF Goto, TypeOK, Open
    <3>2. CASE pc[h] = "check" /\ Goto(h, "write")
      BY <2>1, <2>3, <3>2, MoveWait DEF Goto, TypeOK, Open
    <3> QED
      BY <2>3, <3>1, <3>2
  <2> QED
    BY <1>4, <2>2, <2>3 DEF InsertTransfer, CheckBalance, RollbackWith
<1>5. ASSUME NEW h \in Handlers, WriteRows(h) PROVE WaitInv'
  <2>1. /\ UNCHANGED <<xlock, slock, req>> /\ pc'[h] = "commit" /\ pc[h] = "write"
        /\ \A g \in Handlers \ {h} : pc'[g] = pc[g]
    BY <1>5 DEF WriteRows, Goto, TypeOK
  <2> QED
    BY <2>1, MoveWait DEF Open
<1>6. ASSUME NEW h \in Handlers, Commit(h) \/ CommitUnheard(h) \/ Fail(h) PROVE WaitInv'
  <2>1. EndTx(h) /\ UNCHANGED req /\ \A g \in Handlers \ {h} : pc'[g] = pc[g]
    BY <1>6 DEF Commit, CommitUnheard, Fail, Publish, RollbackWith, Respond, Goto, TypeOK
  <2> QED
    BY <2>1, EndWait
<1> QED
  BY <1>1, <1>2, <1>3, <1>4, <1>5, <1>6, ForeignKeysWait DEF Next, Progress

\* A non-empty set of numbers with a bound has a largest one.
LEMMA Largest ==
    ASSUME NEW W \in SUBSET Nat, W # {}, NEW n \in Nat, \A a \in W : a <= n
    PROVE  \E a \in W : \A b \in W : b <= a
<1> DEFINE T == {n - a : a \in W}
           R == {ss \in Nat \X Nat : ss[1] < ss[2]}
<1>1. T \subseteq Nat /\ T # {}
  <2>1. \A a \in W : n - a \in Nat
    OBVIOUS
  <2> QED
    BY <2>1
<1>2. IsWellFoundedOn(R, Nat)
  BY NatLessThanWellFounded, Zenon DEF OpToRel
<1>3. \A x, y \in Nat : x < y => <<x, y>> \in R
  OBVIOUS
<1> HIDE DEF R
<1>4. PICK x \in T : \A y \in T : ~(<<y, x>> \in R)
  BY <1>1, <1>2, WFMin
<1>5. PICK a \in W : x = n - a
  BY <1>4
<1>6. ASSUME NEW b \in W PROVE b <= a
  <2>1. n - b \in T /\ ~(n - b < x)
    BY <1>1, <1>3, <1>4
  <2> QED
    BY <1>5, <2>1
<1> QED
  BY <1>6

\* What each handler that waits is waiting for.
LEMMA WaitsFor ==
    ASSUME NEW h, NEW g \in Blockers(h)
    PROVE  /\ g # h
           /\ pc[h] \in {"lock", "insert", "fk"}
           /\ pc[h] = "lock" => \E a \in accounts : NextLock(h, a) /\ g \in {xlock[a]} \cup slock[a]
           /\ pc[h] = "insert" => \E t \in tx[g].transfers : t.key = KeyOf(h)
           /\ pc[h] = "fk" => \E a \in Parties(h) : g = xlock[a]
<1>1. CASE pc[h] = "lock"
  <2>1. Blockers(h) = (UNION {{xlock[a]} \cup slock[a] :
                                a \in {b \in accounts : NextLock(h, b)}}) \ {h, None}
    BY <1>1, Zenon DEF Blockers
  <2> DEFINE N == {b \in accounts : NextLock(h, b)}
             held(a) == {xlock[a]} \cup slock[a]
  <2>2. g \in UNION {held(a) : a \in N} /\ g # h
    BY <2>1
  <2>3. \E a \in N : g \in held(a)
    <3> HIDE DEF N, held
    <3> QED
      BY <2>2, Zenon
  <2> QED
    BY <1>1, <2>2, <2>3
<1>2. CASE pc[h] = "insert"
  <2>1. Blockers(h) = {f \in Handlers \ {h} : \E t \in tx[f].transfers : t.key = KeyOf(h)}
    BY <1>2, Zenon DEF Blockers
  <2> QED
    BY <1>2, <2>1
<1>3. CASE pc[h] = "fk"
  <2>1. Blockers(h) = {xlock[a] : a \in Parties(h)} \ {h, None}
    BY <1>3, Zenon DEF Blockers
  <2> QED
    BY <1>3, <2>1
<1>4. CASE pc[h] \notin {"lock", "insert", "fk"}
  <2>1. Blockers(h) = {}
    BY <1>4, Zenon DEF Blockers
  <2> QED
    BY <2>1
<1> QED
  BY <1>1, <1>2, <1>3, <1>4

LEMMA NobodyWaitsInACircle == LedgerInv /\ KeysInv /\ WaitInv => NoWaitCycle
<1> SUFFICES ASSUME LedgerInv, KeysInv, WaitInv, NEW S \in SUBSET Handlers, S # {},
                    \A h \in S : Blockers(h) \cap S # {} \/ StarvesFor(h, S)
             PROVE  FALSE
  BY DEF NoWaitCycle
<1> USE DEF LedgerInv
<1>1. \A h \in S : pc[h] \in Open => \E g \in S : g \in Blockers(h)
  BY DEF StarvesFor, Open
<1>2. ASSUME NEW h \in S, pc[h] \in {"check", "write", "commit"} PROVE FALSE
  BY <1>1, <1>2, WaitsFor DEF Open
<1>3. ASSUME NEW h \in S, pc[h] = "fk", req[h].kind # "seed" PROVE FALSE
  <2>1. PICK g \in S : g \in Blockers(h)
    BY <1>1, <1>3 DEF Open
  <2>2. PICK a \in Parties(h) : g = xlock[a] /\ g # h
    BY <1>3, <2>1, WaitsFor
  <2>3. a \in Accounts /\ a \in LockSet(g) /\ g \in Handlers
    BY <2>2, LockSets DEF WaitInv, OwnLocks
  <2>4. a # Suspense
    BY <2>3, LockSets, AccountsAssumption
  <2>5. xlock[a] = h
    BY <1>3, <2>4, LockSets DEF LocksHeld
  <2> QED
    BY <2>2, <2>5
<1>4. ASSUME NEW h \in S, pc[h] = "insert" PROVE FALSE
  <2>1. PICK g \in S : g \in Blockers(h)
    BY <1>1, <1>4 DEF Open
  <2>2. PICK t \in tx[g].transfers : t.key = KeyOf(h)
    BY <1>4, <2>1, WaitsFor
  <2>3. pc[g] \in Writing /\ t = TransferRow(g)
    BY <2>2 DEF KeysInv, Buffered
  <2>4. KeyOf(g) = KeyOf(h) /\ g # h
    BY <1>4, <2>1, <2>2, <2>3, WaitsFor DEF TransferRow
  <2>5. req[g].kind = "seed"
    BY <1>2, <1>3, <2>3 DEF Writing
  <2>6. WellFormed(req[h])
    BY RequestsAssumption DEF TypeOK
  <2> QED
    BY <2>4, <2>5, <2>6, NamesAssumption
       DEF KeyOf, WellFormed, LocalRequest, InterbankRequest, SeedRequest
<1>5. ASSUME NEW g \in S, NEW a \in Accounts, xlock[a] = g
      PROVE  pc[g] = "lock" /\ a \in LockSet(g)
  <2>1. a \in LockSet(g) /\ pc[g] \in Open
    BY <1>5 DEF WaitInv, OwnLocks
  <2>2. req[g].kind # "seed"
    BY <2>1, LockSets
  <2> QED
    BY <1>2, <1>3, <1>4, <2>1, <2>2 DEF Open
<1>6. ASSUME NEW h \in S, pc[h] = "lock"
      PROVE  \E b \in LockSet(h) : xlock[b] # h /\ xlock[b] \in S
  <2>1. PICK g \in S : g \in Blockers(h)
    BY <1>1, <1>6 DEF Open
  <2>2. PICK b \in accounts : NextLock(h, b) /\ g \in {xlock[b]} \cup slock[b]
    BY <1>6, <2>1, WaitsFor
  <2>3. b \in Accounts /\ b \in LockSet(h) /\ xlock[b] # h
    BY <2>2, LockSets DEF NextLock
  <2>4. g \notin slock[b]
    BY <1>2, <2>3 DEF WaitInv, OwnLocks
  <2> QED
    BY <2>2, <2>3, <2>4
<1>7. \A a \in Accounts : xlock[a] \notin S
  <2> SUFFICES ASSUME NEW c \in Accounts, xlock[c] \in S PROVE FALSE
    OBVIOUS
  <2> DEFINE W == {a \in Accounts : xlock[a] \in S}
  <2>1. PICK n \in Nat : \A a \in Accounts : xlock[a] # None => a <= n
    BY DEF WaitInv, LocksBounded
  <2>2. W \in SUBSET Nat /\ W # {} /\ \A a \in W : a <= n
    BY <2>1, AccountsAssumption, NamesAssumption
  <2>3. PICK a \in W : \A b \in W : b <= a
    BY <2>1, <2>2, Largest
  <2> DEFINE g == xlock[a]
  <2>4. g \in S /\ pc[g] = "lock" /\ a \in LockSet(g)
    BY <1>5
  <2>5. PICK b \in LockSet(g) : xlock[b] # g /\ xlock[b] \in S
    BY <1>6, <2>4
  <2>6. b \in W
    BY <2>4, <2>5, LockSets
  <2>7. a < b
    BY <2>4, <2>5 DEF WaitInv, OwnLocks
  <2> QED
    BY <2>2, <2>3, <2>6, <2>7
<1>8. \A h \in S : pc[h] \notin Open
  <2> SUFFICES ASSUME NEW h \in S, pc[h] \in Open PROVE FALSE
    OBVIOUS
  <2>1. CASE pc[h] = "lock"
    <3>1. PICK b \in LockSet(h) : xlock[b] \in S
      BY <1>6, <2>1
    <3> QED
      BY <1>7, <3>1, LockSets
  <2>2. CASE pc[h] = "fk"
    <3>1. PICK g \in S : g \in Blockers(h)
      BY <1>1
    <3>2. PICK a \in Parties(h) : g = xlock[a]
      BY <2>2, <3>1, WaitsFor
    <3> QED
      BY <1>7, <3>2, LockSets
  <2> QED
    BY <1>2, <1>4, <2>1, <2>2 DEF Open
<1>9. PICK h \in S : StarvesFor(h, S)
  <2>1. PICK h \in S : TRUE
    OBVIOUS
  <2>2. Blockers(h) = {}
    BY <1>8, <2>1, WaitsFor DEF Open
  <2> QED
    BY <2>1, <2>2
<1>10. Connected = {}
  BY <1>8, <1>9 DEF StarvesFor, Connected
<1> QED
  BY <1>9, <1>10, FS_EmptySet, BoundsAssumption DEF StarvesFor, PoolFree

\* transfers.service.ts:74: sorting the ids before locking is enough.  No set
\* of requests wait for each other, on rows, keys or connections (NoWaitCycle).
THEOREM NoDeadlock == Spec => []NoWaitCycle
<1>1. Init => WaitInv
  BY WaitInit
<1>2. LedgerInv /\ WaitInv /\ [Next]_vars => WaitInv'
  BY WaitStep
<1>3. LedgerInv /\ KeysInv /\ WaitInv => NoWaitCycle
  BY NobodyWaitsInACircle
<1> QED
  BY <1>1, <1>2, <1>3, KeysInvariant, PTL DEF Spec

=============================================================================
