-------------------------- MODULE MCInterbankReply --------------------------
(* InterbankReply where the request of t1 may reach the Hub late. *)
EXTENDS InterbankReply

CONSTANT t1

FirstMayBeLate == {t1}
=============================================================================
