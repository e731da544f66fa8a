--------------------------- MODULE MCSendTransfer ---------------------------
(* TLC instances of SendTransfer.                                           *)
EXTENDS SendTransfer, TLC

\* Attempts are interchangeable.
Symmetry == Permutations(Attempt)
============================================================================
