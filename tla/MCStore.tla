------------------------------- MODULE MCStore -------------------------------
(* Instances of Store small enough to explore.  Processes, sessions and turns *)
(* are only compared for equality.                                            *)
EXTENDS Store, TLC

CONSTANTS m1, m2, b1

\* A manifest with content, and one of nothing but tombstones.
OneBlob == (m1 :> {b1}) @@ (m2 :> {})
Bare == [m \in {m1, m2} |-> {}]

\* Where a capture of m, and up to two rewinds of it that handed over to h, leave
\* the store once everything in it has settled, so that the operations a run may
\* start are spent on what comes after.  h's log may be gone, deleted between a
\* hand-over's look for it and its push.
HandedOnce ==
    \E s, h \in Session, t \in Turn, m, n \in Manifest, k \in 0 .. 2 :
       LET entries == SubSeq(<<[turn |-> t, manifest |-> m],
                               [turn |-> SafetyTurn(n), manifest |-> n],
                               [turn |-> SafetyTurn(m), manifest |-> m]>>, 1, k + 1)
           records == SubSeq(<<[target |-> m, safety |-> n], [target |-> m, safety |-> m]>>, 1, k)
       IN  /\ m # n
           /\ objects = ManifestsIn(entries)
           /\ log \in {s :> entries} \cup (IF k = 0 THEN {} ELSE {s :> entries @@ h :> <<>>})
           /\ turns = [x \in TurnsIn(entries) |->
                         CHOOSE o \in Manifest : [turn |-> x, manifest |-> o] \in ToSet(entries)]
           /\ undo = IF k = 0 THEN <<>> ELSE h :> records
           /\ raced = IF k = 0 \/ h \in DOMAIN log THEN {} ELSE {UndoFile(h)}
           /\ fresh = {}
           /\ op = [p \in Proc |-> NoOp]
           /\ ops = 0
           /\ cut = {}
           /\ hollow = {}

SpecHandedOnce == HandedOnce /\ [][Next]_vars

Symmetric == Permutations(Proc) \cup Permutations(Session)

\* Manifests of nothing are alike.
SymmetricBare == Symmetric \cup Permutations(Manifest)

=============================================================================
