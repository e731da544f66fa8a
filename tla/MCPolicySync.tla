---------------------------- MODULE MCPolicySync ----------------------------
(* TLC instances of PolicySync.                                             *)
EXTENDS PolicySync, TLC

\* Peers are interchangeable.
Symmetry == Permutations(Peer)
============================================================================
