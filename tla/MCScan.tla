-------------------------------- MODULE MCScan --------------------------------
(* Two roots, one within the other; one path the walk does not come to. *)
EXTENDS Scan

CONSTANTS top, deep, both, vendored

MCRoots == <<"outer", "inner">>
MCWithin == <<{top, deep, both, vendored}, {deep, both}>>
MCWalked == <<{top, deep, both}, {deep, both}>>

\* At most one path holds something else than a file at first.
MCTrees == {t \in [Path -> [kind : Kind, stamp : Stamps]] :
              /\ Cardinality({p \in Path : t[p].kind # "file"}) <= 1
              /\ t[vendored].stamp = 1}
==============================================================================
