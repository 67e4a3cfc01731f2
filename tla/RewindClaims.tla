---------------------------- MODULE RewindClaims ----------------------------
(***************************************************************************)
(* What the repository's documents and comments say of rewinding, where    *)
(* the code, as Rewind has it, does otherwise.  Each statement is violated *)
(* by a run of its own, and the properties of Rewind are the forms of them *)
(* that do hold.                                                           *)
(***************************************************************************)
EXTENDS Rewind

\* Constitution III.4: `an undo pops the record it reverses'.  The record is
\* read by last_restore_target before the session's lock is taken, and popped
\* by position under it.
UndoSpendsWhatItReverses ==
    [][\A r \in Proc : FinishUndo(r) =>
          LET stack == undo[proc[r].session] IN
          stack # <<>> => Last(stack) = proc[r].reversing]_vars

\* Constitution II.4: `a read failure verifies nothing, and the one thing it
\* must never become is a licence to delete'.  declare.rs takes every read
\* failure for absence.
TombstonesWereAbsent ==
    \A m \in Named : \A p \in m.absent : Missing \in past[p]

=============================================================================
