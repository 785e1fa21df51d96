--------------------------- MODULE MCBankBInbound ---------------------------
(* BankBInbound with an account that exists, one that may be opened while
   messages are handled, and a payee reference that is no account id. *)
EXTENDS BankBInbound

CONSTANTS t1, t2, acc1, acc2, junk

\* t1 pays an account that may be opened later, t2 one that is there, any
\* other transfer a reference that names nothing.
Payees == [t \in Transfers |-> CASE t = t1 -> acc2 [] t = t2 -> acc1 [] OTHER -> junk]
=============================================================================
