------------------------- MODULE MCTransactionOrder -------------------------
(* TransactionOrder for TLC: values of the structured constants.            *)
EXTENDS TransactionOrder

AnySize == [p \in Process |-> Size]
Two == [p \in Process |-> 2]
One == [p \in Process |-> 1]
None == [p \in Process |-> 0]
=============================================================================
