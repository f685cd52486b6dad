-------------------------- MODULE MCCodebaseIndexer --------------------------
(* Instances of CodebaseIndexer for TLC. *)
EXTENDS CodebaseIndexer, TLC

CONSTANTS w1, w2, r1, r2, r3, f1

\* The first window makes two full refreshes and one of saved files, the
\* second one full refresh.
HomeOfFour == (r1 :> w1) @@ (r2 :> w1) @@ (r3 :> w2) @@ (f1 :> w1)

\* r1 and r2 are calls of the same window under the same bounds.
Symmetry == Permutations({r1, r2})

\* Each of two windows makes one full refresh.
HomeOfTwo == (r1 :> w1) @@ (r2 :> w2)

=============================================================================
