------------------------- MODULE MCPaymentVerification -------------------------
(* PaymentVerification on small instances. *)
EXTENDS PaymentVerification, TLC

CONSTANTS official, alias, other    \* two spellings of one receipt, and another receipt

Spellings == {official, alias, other}
BankSpelling == [p \in Spellings |-> IF p = other THEN other ELSE official]

Interchangeable == Permutations(Txn) \union Permutations(Target) \union Permutations(Run)

================================================================================
