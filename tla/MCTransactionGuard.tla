------------------------- MODULE MCTransactionGuard -------------------------
(* Instances of TransactionGuard for TLC. *)
EXTENDS TransactionGuard, TLC

CONSTANTS g1, g2, g3

TwoGuards == {g1, g2}
BothModes == {"READ_ONLY", "WRITABLE"}
=============================================================================
