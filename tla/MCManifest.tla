----------------------------- MODULE MCManifest -----------------------------
(* TLC instances of Manifest.                                               *)
EXTENDS Manifest

\* Names of different encoded length; two files of one size.
MCEntry == {[name |-> "a", wire |-> 1, size |-> 1],
            [name |-> "b", wire |-> 2, size |-> 1],
            [name |-> "c", wire |-> 1, size |-> 2]}

\* Runs are interchangeable.
Symmetry == Permutations(Runs)
============================================================================
