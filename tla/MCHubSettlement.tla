-------------------------- MODULE MCHubSettlement --------------------------
(* HubSettlement with three banks: bankA and bankB are registered, bankC may
   register while messages are handled. *)
EXTENDS HubSettlement, TLC

CONSTANTS bankA, bankB, bankC, s1, s2, s3

\* s1 is paid to a registered bank; s2 to bankC, which may not be known yet;
\* s3 (where there is one) within bankC.
Payers == [s \in Settlements |-> IF s = s3 THEN bankC ELSE bankA]
Payees == [s \in Settlements |-> IF s = s1 THEN bankB ELSE bankC]

Answers == [s \in Settlements |-> IF s = s1 THEN "REVERSED" ELSE "CONFIRMED"]

Symmetry == Permutations(Deliveries)
=============================================================================
