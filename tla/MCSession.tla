------------------------------ MODULE MCSession ------------------------------
(* The daemon, a command and two requests of the web interface, with three  *)
(* pairs of tokens: two logins and a refresh, or a login and two refreshes. *)
EXTENDS Session, TLC

\* Processes, requests and tokens are only compared for equality.
Symmetry ==
    Permutations(Procs) \cup Permutations(Pages) \cup Permutations(Tokens)

=============================================================================
