--------------------------- MODULE MCBankALedger ---------------------------
(* BankALedger with two customers, accounts 2 and 3. *)
EXTENDS BankALedger, TLC

CONSTANTS k1, k2, d1, d2

Cust == {2, 3}
Susp == 1
Trea == 99

Local(k, p, q, n)  == [kind |-> "local", key |-> k, payer |-> p, payee |-> q, amount |-> n, to |-> None]
Inter(k, p, n, d)  == [kind |-> "interbank", key |-> k, payer |-> p, payee |-> Susp, amount |-> n, to |-> d]
Seed(p, n)         == [kind |-> "seed", key |-> None, payer |-> Trea, payee |-> p, amount |-> n, to |-> None]

\* Opposite transfers, an interbank transfer and a seed that all touch 2 and 3;
\* a transfer to oneself and a seed of the treasury itself.
ContentionRequests == {Local(k1, 2, 3, 2), Local(k2, 3, 2, 3), Inter(k2, 2, 2, d1),
                       Seed(2, 2), Local(k2, 2, 2, 1), Seed(Trea, 1)}

\* One key used for the same, a different and an interbank request, the last
\* by payers that do not wait for each other's account; a seed that lets the
\* second payer pay, and makes its balance unreadable when it comes twice.
KeyRequests == {Local(k1, 2, 3, 2), Local(k1, 2, 3, 1), Inter(k1, 2, 2, d1),
                Inter(k1, 2, 2, d2), Inter(k1, 3, 1, d1), Seed(3, 2)}

Funds == [a \in Accounts |-> CASE a = 2 -> 3 [] a = 3 -> 2 [] a = Trea -> -5 [] OTHER -> 0]

\* The same when account 3 has yet to be created.
FundsBefore3 == [a \in Accounts |-> CASE a = 2 -> 3 [] a = Trea -> -3 [] OTHER -> 0]

Symmetry == Permutations(Handlers)
=============================================================================
