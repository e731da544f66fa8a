----------------------------- MODULE MCAccounts ------------------------------
(* Three requests at a time: two that overlap and one that comes between   *)
(* their steps; three tokens, two secrets, a pairing and a recovery code.  *)
EXTENDS Accounts, TLC

\* Requests, tokens and secrets are only compared for equality.
Symmetry ==
    Permutations(Requests) \cup Permutations(Tokens) \cup Permutations(Secrets)

=============================================================================
