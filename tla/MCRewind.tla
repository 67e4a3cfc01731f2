------------------------------ MODULE MCRewind ------------------------------
(* Instances of Rewind small enough to explore, of its properties and of the *)
(* claims it refutes.  Contents, modes, turns, sessions and processes are    *)
(* only ever compared for equality, so each set may be permuted.             *)
EXTENDS RewindClaims, TLC

\* Everything a capture passes over: a directory, and every kind of link.
AnyUnstorable == File \ Storable

Symmetric == Permutations(Content) \cup Permutations(Mode) \cup Permutations(Turn)
             \cup Permutations(Session) \cup Permutations(Proc)

=============================================================================
