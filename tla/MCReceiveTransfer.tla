------------------------- MODULE MCReceiveTransfer -------------------------
(* TLC instances of ReceiveTransfer.                                       *)
EXTENDS ReceiveTransfer, TLC

\* Handlers and locks are interchangeable.
Symmetry == Permutations(Handler) \cup Permutations(Lock)
============================================================================
