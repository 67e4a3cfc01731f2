------------------------------ MODULE ScanProofs ------------------------------
(***************************************************************************)
(* What Scan promises of a capture's list of files, for every directory,   *)
(* index, set of roots and budget: the account of each path a walk has     *)
(* come to is kept from the step that meets it to the end of the scan,     *)
(* whatever others do to the directory meanwhile.                          *)
(***************************************************************************)
EXTENDS Scan, FiniteSetTheorems, TLAPS

-----------------------------------------------------------------------------
(* The inductive invariant. *)

\* Why a path may be dropped.
Reason == {"OverSizeLimit", "Unreadable", "NotARegularFile"}

\* The scan, field by field.
ScanRecord ==
    [stage : {"idle", "index", "walk", "done", "reported"},
     root : 0 .. Len(Roots),
     rules : [Root -> SUBSET Path],
     known : SUBSET Path,
     indexed : SUBSET Path,
     todo : SUBSET Path,
     entry : Path \cup {NoPath},
     candidates : SUBSET (Path \X Stamps),
     picks : [Root -> SUBSET Path],
     dropped : SUBSET (Path \X Reason)]

Typed ==
    /\ tree \in [Path -> [kind : Kind, stamp : Stamps]]
    /\ index \subseteq Path /\ touched \subseteq Path
    /\ edits \in 0 .. MaxEdits
    /\ scan \in ScanRecord

\* The roots whose walk is over, and those the index has been read for.
WalkOver(s, i) ==
    s.stage \in {"done", "reported"} \/ (s.stage = "walk" /\ i < s.root)
IndexRead(s, i) ==
    s.stage \in {"walk", "done", "reported"} \/ (s.stage = "index" /\ i < s.root)

\* The paths beneath root i the scan is done with.
Met(s, i) ==
    {p \in Walked[i] :
       \/ WalkOver(s, i)
       \/ s.stage = "walk" /\ s.root = i /\ p \notin s.todo /\ p # s.entry}

Stages ==
    /\ scan.stage \in {"index", "walk"} => scan.root \in Root
    /\ scan.stage = "walk" => scan.todo \subseteq Walked[scan.root]
    /\ scan.stage # "walk" => scan.entry = NoPath

\* The entry in hand, and the candidates, have no other claim on the capture,
\* and are as they were found unless someone has touched them since.
EntryIsNew ==
    scan.stage = "walk" /\ scan.entry # NoPath =>
        /\ scan.entry \in Walked[scan.root]
        /\ scan.entry \notin scan.todo \cup scan.rules[scan.root] \cup Files(scan)
        /\ scan.entry \notin touched => IsFile(tree[scan.entry].kind)

CandidatesAreNew ==
    scan.stage = "walk" =>
        \A k \in scan.candidates :
            /\ k[1] \in Walked[scan.root] /\ k[1] # scan.entry
            /\ k[1] \notin scan.todo \cup scan.rules[scan.root] \cup Files(scan)
            /\ k[1] \notin touched => /\ tree[k[1]].kind \in {"file", "sealed"}
                                      /\ tree[k[1]].stamp = k[2]
            /\ \A l \in scan.candidates : l[1] = k[1] => l = k

\* No slot of any root's budget goes to a path that is covered otherwise.
PicksAreApart ==
    \A i \in Root :
        /\ Cardinality(scan.picks[i]) <= MaxFiles
        /\ scan.picks[i] \subseteq Walked[i] \ scan.rules[i]
        /\ \A p \in scan.picks[i] : p \notin scan.known \cup scan.indexed
        /\ \A j \in Root, p \in scan.picks[i] : p \in scan.picks[j] => i = j
        /\ ~ WalkOver(scan, i) => scan.picks[i] = {}
        /\ \A p \in scan.picks[i] \ touched : tree[p].kind \in {"file", "sealed"}

IndexIsAskedAbout ==
    /\ \A i \in Root : IndexRead(scan, i) =>
         \A p \in (index \cap Within[i]) \ (touched \cup scan.rules[i]) : p \in scan.indexed
    /\ \A p \in scan.indexed : \E i \in Root : p \in Within[i] \ scan.rules[i]

\* What became of a path the scan is done with.
Lost(i, p) ==
    /\ WalkOver(scan, i)
    /\ Cardinality(scan.picks[i]) = MaxFiles
    /\ \A q \in scan.picks[i] \ touched : tree[q].stamp >= tree[p].stamp

Accounted ==
    \A i \in Root : \A p \in Met(scan, i) \ (touched \cup scan.rules[i]) :
        \/ tree[p].kind = "absent"
        \/ p \in Files(scan)
        \/ IsDropped(p)
        \/ /\ scan.stage = "walk" /\ scan.root = i
           /\ <<p, tree[p].stamp>> \in scan.candidates
        \/ Lost(i, p)

Named ==
    \A i \in Root : \A p \in Met(scan, i) \ (touched \cup scan.rules[i]) :
        /\ tree[p].kind = "link" => IsDropped(p)
        /\ tree[p].kind = "large" => IsDropped(p) \/ p \in scan.known \cup scan.indexed

Probes ==
    scan.stage = "reported" =>
        /\ scan.known = {}
        /\ \A p \in Files(scan) \ touched : tree[p].kind = "sealed" => IsDropped(p)

ScanInv ==
    /\ Typed /\ Stages /\ EntryIsNew /\ CandidatesAreNew /\ PicksAreApart
    /\ IndexIsAskedAbout /\ Accounted /\ Named /\ Probes

-----------------------------------------------------------------------------
(* Facts about the operators. *)

\* There is a first root, and the roots are numbered.
LEMMA RootFacts ==
    /\ Len(Roots) \in Nat /\ Len(Roots) >= 1
    /\ Root = 1 .. Len(Roots)
    /\ 1 \in Root
BY RootsAssumption DEF Root

\* What a walk may come to lies beneath its root.
LEMMA WalkedFacts ==
    \A i \in Root : Walked[i] \subseteq Within[i] /\ Within[i] \subseteq Path
BY RootsAssumption DEF Root

\* A path is among the files of a scan in one of three ways.
LEMMA InFiles ==
    ASSUME NEW s, NEW p
    PROVE  p \in Files(s) <=> \/ p \in s.known
                              \/ p \in s.indexed
                              \/ \E i \in Root : p \in s.picks[i]
BY DEF Files

\* Which of the roots, and of their paths, a scan is done with, by its stage.
LEMMA DoneWith ==
    ASSUME NEW s, s.stage \in {"idle", "index", "walk", "done", "reported"}, s.root \in Int
    PROVE  /\ s.stage \in {"idle", "index"} =>
                \A i \in Root : ~ WalkOver(s, i) /\ Met(s, i) = {}
           /\ s.stage \in {"done", "reported"} =>
                \A i \in Root : WalkOver(s, i) /\ Met(s, i) = Walked[i]
           /\ s.stage = "walk" =>
                \A i \in Root :
                  /\ WalkOver(s, i) <=> i < s.root
                  /\ i < s.root => Met(s, i) = Walked[i]
                  /\ i > s.root => Met(s, i) = {}
                  /\ \A p : i = s.root =>
                       (p \in Met(s, i) <=> p \in Walked[i] /\ p \notin s.todo /\ p # s.entry)
<1>1. \A i \in Root : i \in Int
  BY RootFacts
<1> QED
  BY <1>1 DEF WalkOver, Met

-----------------------------------------------------------------------------
(* The steps of the scan. *)

\* At first nothing is under way.
LEMMA InvInit == Init => ScanInv
<1> SUFFICES ASSUME Init PROVE ScanInv
  OBVIOUS
<1>1. /\ scan.stage = "idle" /\ scan.root = 0 /\ scan.entry = NoPath
      /\ scan.picks = [i \in Root |-> {}] /\ scan.indexed = {}
  BY DEF Init, Idle
<1>2. scan \in ScanRecord
  BY RootFacts DEF Init, Idle, ScanRecord
<1>3. Typed
  BY <1>2, TreesAssumption, PathAssumption, RootsAssumption DEF Init, Typed
<1>4. \A i \in Root : Met(scan, i) = {} /\ ~ WalkOver(scan, i) /\ ~ IndexRead(scan, i)
  BY <1>1 DEF Met, WalkOver, IndexRead
<1>5. PicksAreApart
  BY <1>1, FS_EmptySet, RootsAssumption DEF PicksAreApart
<1> QED
  BY <1>1, <1>3, <1>4, <1>5
     DEF ScanInv, Stages, EntryIsNew, CandidatesAreNew, IndexIsAskedAbout, Accounted, Named, Probes

\* A scan that starts has met nothing yet.
LEMMA InvStart ==
    ASSUME ScanInv, NEW known \in SUBSET Declared, NEW rules \in [Root -> SUBSET Excluded],
           Start(known, rules)
    PROVE  ScanInv'
<1>1. /\ scan'.stage = "index" /\ scan'.root = 1 /\ scan'.entry = NoPath
      /\ scan'.picks = [i \in Root |-> {}] /\ scan'.indexed = {}
      /\ scan'.todo = {} /\ scan'.candidates = {} /\ scan'.dropped = {}
      /\ scan'.known = known /\ scan'.rules = [i \in Root |-> rules[i] \cap Within[i]]
  BY DEF Start, Idle
<1>2. scan' \in ScanRecord
  <2>1. scan' = [stage |-> "index", root |-> 1,
                 rules |-> [i \in Root |-> rules[i] \cap Within[i]],
                 known |-> known, indexed |-> {}, todo |-> {}, entry |-> NoPath,
                 candidates |-> {}, picks |-> [i \in Root |-> {}], dropped |-> {}]
    BY DEF Start, Idle
  <2>2. known \in SUBSET Path
    BY PathAssumption
  <2>3. [i \in Root |-> rules[i] \cap Within[i]] \in [Root -> SUBSET Path]
    BY WalkedFacts
  <2> QED
    BY <2>1, <2>2, <2>3, RootFacts DEF ScanRecord
<1>3. Typed'
  BY <1>2 DEF ScanInv, Typed, Start
<1>4. \A i \in Root : Met(scan', i) = {} /\ ~ WalkOver(scan', i)
  BY <1>1, DoneWith
<1>5. \A i \in Root : ~ IndexRead(scan', i)
  BY <1>1, RootFacts DEF IndexRead
<1>6. PicksAreApart'
  BY <1>1, FS_EmptySet, RootsAssumption DEF PicksAreApart
<1> QED
  BY <1>1, <1>3, <1>4, <1>5, <1>6, RootFacts
     DEF ScanInv, Stages, EntryIsNew, CandidatesAreNew, IndexIsAskedAbout, Accounted, Named, Probes

\* Going on to the walk of a root changes where the scan is, and no more.
LEMMA WalkFields ==
    ASSUME NEW s \in ScanRecord, NEW i \in Nat, i >= 1
    PROVE  /\ Walk(s, i) \in ScanRecord
           /\ i > Len(Roots) => Walk(s, i).stage = "done"
           /\ i <= Len(Roots) => /\ Walk(s, i).stage = "walk" /\ Walk(s, i).root = i
                                 /\ Walk(s, i).todo = Walked[i] /\ Walk(s, i).candidates = {}
           /\ Walk(s, i).entry = s.entry /\ Walk(s, i).rules = s.rules
           /\ Walk(s, i).known = s.known /\ Walk(s, i).indexed = s.indexed
           /\ Walk(s, i).picks = s.picks /\ Walk(s, i).dropped = s.dropped
<1>1. CASE i > Len(Roots)
  <2>1. Walk(s, i) = [s EXCEPT !.stage = "done", !.root = 0] /\ 0 \in 0 .. Len(Roots)
    BY <1>1, RootFacts DEF Walk
  <2>2. Walk(s, i) \in ScanRecord
    BY <2>1 DEF ScanRecord
  <2>3. ~ (i <= Len(Roots))
    BY <1>1, RootFacts
  <2> QED
    BY <1>1, <2>1, <2>2, <2>3 DEF ScanRecord
<1>2. CASE ~ (i > Len(Roots))
  <2>1. i \in Root /\ Walked[i] \subseteq Path /\ i \in 0 .. Len(Roots)
    BY <1>2, RootFacts, WalkedFacts
  <2> QED
    BY <1>2, <2>1, RootFacts DEF Walk, ScanRecord
<1> QED
  BY <1>1, <1>2

\* The index is read for one root after another, then the walks begin.
LEMMA InvReadIndex == ASSUME ScanInv, ReadIndex PROVE ScanInv'
<1> DEFINE read == [scan EXCEPT !.indexed = @ \cup GitTracked(scan.root)]
<1>1. scan \in ScanRecord /\ scan.stage = "index" /\ scan.root \in Root /\ scan.root \in Nat
  BY RootFacts DEF ScanInv, Typed, Stages, ReadIndex
<1>2. GitTracked(scan.root) \subseteq Path
  BY DEF GitTracked, ScanInv, Typed
<1>3. /\ read \in ScanRecord
      /\ read.indexed = scan.indexed \cup GitTracked(scan.root)
      /\ read.stage = "index" /\ read.root = scan.root
      /\ read.entry = scan.entry /\ read.rules = scan.rules /\ read.known = scan.known
      /\ read.picks = scan.picks /\ read.dropped = scan.dropped
  BY <1>1, <1>2 DEF ScanRecord
<1>4. scan' = IF scan.root < Len(Roots) THEN [read EXCEPT !.root = @ + 1] ELSE Walk(read, 1)
  BY DEF ReadIndex
<1>5. /\ scan' \in ScanRecord
      /\ scan'.indexed = scan.indexed \cup GitTracked(scan.root)
      /\ scan'.entry = scan.entry /\ scan'.rules = scan.rules /\ scan'.known = scan.known
      /\ scan'.picks = scan.picks /\ scan'.dropped = scan.dropped
      /\ \/ /\ scan.root < Len(Roots)
            /\ scan'.stage = "index" /\ scan'.root = scan.root + 1
         \/ /\ scan.root = Len(Roots) /\ scan'.stage = "walk" /\ scan'.root = 1
            /\ scan'.todo = Walked[1] /\ scan'.candidates = {}
  <2>1. CASE scan.root < Len(Roots)
    <3>1. scan' = [read EXCEPT !.root = scan.root + 1] /\ scan.root + 1 \in 0 .. Len(Roots)
      BY <1>1, <1>3, <1>4, <2>1, RootFacts
    <3> HIDE DEF read
    <3> QED
      BY <1>3, <2>1, <3>1 DEF ScanRecord
  <2>2. CASE ~ (scan.root < Len(Roots))
    <3> HIDE DEF read
    <3> QED
      BY <1>1, <1>3, <1>4, <2>2, RootFacts, WalkFields
  <2> QED
    BY <2>1, <2>2
<1>6. UNCHANGED <<tree, index, touched, edits>>
  BY DEF ReadIndex
<1> HIDE DEF read
<1>7. \A i \in Root : i \in Int /\ scan.picks[i] = {} /\ ~ WalkOver(scan', i) /\ Met(scan', i) = {}
  <2>1. \A i \in Root : scan.picks[i] = {} /\ i \in Int /\ i >= 1
    BY <1>1, RootFacts DEF ScanInv, PicksAreApart, WalkOver
  <2>2. \A i \in Root : ~ WalkOver(scan', i) /\ (scan'.stage = "index" => Met(scan', i) = {})
    BY <1>5, <2>1 DEF WalkOver, Met
  <2>3. \A i \in Root : scan'.stage = "walk" => Met(scan', i) = {}
    BY <1>5, <2>1, <2>2 DEF Met
  <2> QED
    BY <1>5, <2>1, <2>2, <2>3
<1>8. Typed' /\ Stages'
  BY <1>1, <1>5, <1>6, RootFacts DEF ScanInv, Typed, Stages
<1>9. EntryIsNew' /\ CandidatesAreNew'
  <2>1. scan.entry = NoPath
    BY <1>1 DEF ScanInv, Stages
  <2> QED
    BY <1>5, <2>1 DEF EntryIsNew, CandidatesAreNew
<1>10. PicksAreApart'
  <2>1. Cardinality({}) <= MaxFiles
    BY FS_EmptySet, RootsAssumption
  <2>2. \A i \in Root : scan'.picks[i] = {}
    BY <1>5, <1>7
  <2> QED
    BY <2>1, <2>2 DEF PicksAreApart
<1>11. IndexIsAskedAbout'
  <2>1. ASSUME NEW i \in Root, IndexRead(scan', i),
               NEW p \in (index \cap Within[i]) \ (touched \cup scan.rules[i])
        PROVE  p \in scan'.indexed
    <3>1. IndexRead(scan, i) \/ i = scan.root
      BY <1>1, <1>5, <1>7, <2>1, RootFacts DEF IndexRead
    <3> QED
      BY <1>5, <2>1, <3>1 DEF ScanInv, IndexIsAskedAbout, GitTracked
  <2>2. ASSUME NEW p \in scan'.indexed
        PROVE  \E i \in Root : p \in Within[i] \ scan.rules[i]
    BY <1>1, <1>5, <2>2 DEF ScanInv, IndexIsAskedAbout, GitTracked
  <2> QED
    BY <1>5, <1>6, <2>1, <2>2 DEF IndexIsAskedAbout
<1>12. Accounted' /\ Named' /\ Probes'
  BY <1>5, <1>7 DEF Accounted, Named, Probes
<1> QED
  BY <1>8, <1>9, <1>10, <1>11, <1>12 DEF ScanInv

\* Kinds of entry, by what the walk makes of them.
LEMMA KindFacts ==
    ASSUME Typed, NEW p \in Path
    PROVE  /\ tree[p].kind \in Kind /\ tree[p].stamp \in Stamps /\ tree[p].stamp \in Nat
           /\ IsFile(tree[p].kind) <=> tree[p].kind \in {"file", "large", "sealed"}
           /\ ~ IsFile(tree[p].kind) <=> tree[p].kind \in {"absent", "link"}
BY RootsAssumption DEF Typed, Kind, IsFile

\* What a path has been dropped for is not forgotten.
LEMMA DropsStay ==
    ASSUME scan.dropped \subseteq scan'.dropped, NEW p, IsDropped(p)
    PROVE  IsDropped(p)'
BY DEF IsDropped

\* A path with a reason against it is dropped.
LEMMA DropIsSeen ==
    ASSUME NEW p, NEW why \in Reason, <<p, why>> \in scan'.dropped
    PROVE  IsDropped(p)'
BY DEF IsDropped, Reason

\* An entry the walk comes to is covered, taken in hand, named or nothing.
LEMMA InvSee == ASSUME ScanInv, NEW p \in Path, See(p) PROVE ScanInv'
<1> DEFINE r == scan.root
           taken == IsFile(tree[p].kind) /\ p \notin Covered \cup scan.rules[r]
           linked == tree[p].kind = "link" /\ p \notin scan.rules[r]
<1>1. /\ scan \in ScanRecord /\ scan.stage = "walk" /\ scan.entry = NoPath
      /\ p \in scan.todo /\ p # NoPath /\ r \in Root /\ r \in Int
      /\ UNCHANGED <<tree, index, touched, edits>>
  BY RootFacts, PathAssumption DEF ScanInv, Typed, Stages, See
<1>2. /\ scan'.stage = "walk" /\ scan'.root = r /\ scan'.todo = scan.todo \ {p}
      /\ scan'.entry = IF taken THEN p ELSE NoPath
      /\ scan'.dropped = IF linked THEN scan.dropped \cup {<<p, "NotARegularFile">>}
                         ELSE scan.dropped
      /\ scan'.rules = scan.rules /\ scan'.known = scan.known /\ scan'.indexed = scan.indexed
      /\ scan'.picks = scan.picks /\ scan'.candidates = scan.candidates
      /\ scan' \in ScanRecord
  <2> DEFINE hand == IF taken THEN p ELSE NoPath
             drops == IF linked THEN scan.dropped \cup {<<p, "NotARegularFile">>}
                      ELSE scan.dropped
  <2>1. scan' = [scan EXCEPT !.todo = @ \ {p}, !.entry = hand, !.dropped = drops]
    BY <1>1 DEF See, ScanRecord
  <2>2. scan.dropped \in SUBSET (Path \X Reason) /\ <<p, "NotARegularFile">> \in Path \X Reason
    BY <1>1 DEF ScanRecord, Reason
  <2>3. hand \in Path \cup {NoPath} /\ drops \in SUBSET (Path \X Reason)
    BY <2>2
  <2> HIDE DEF hand, drops
  <2>4. /\ scan' \in ScanRecord /\ scan'.entry = hand /\ scan'.dropped = drops
        /\ scan'.stage = "walk" /\ scan'.root = r /\ scan'.todo = scan.todo \ {p}
        /\ scan'.rules = scan.rules /\ scan'.known = scan.known
        /\ scan'.indexed = scan.indexed
        /\ scan'.picks = scan.picks /\ scan'.candidates = scan.candidates
    BY <1>1, <2>1, <2>3 DEF ScanRecord
  <2> QED
    BY <2>4 DEF hand, drops
<1>3. Files(scan') = Files(scan) /\ Covered = Files(scan)
  BY <1>2 DEF Files, Covered
<1>4. \A i \in Root : i \in Int /\ WalkOver(scan', i) = WalkOver(scan, i)
                        /\ IndexRead(scan', i) = IndexRead(scan, i)
  BY <1>1, <1>2, RootFacts DEF WalkOver, IndexRead
<1>5. \A i \in Root : \A q \in Met(scan', i) :
         q \in Met(scan, i) \/ (i = r /\ q = p /\ ~ taken)
  <2> SUFFICES ASSUME NEW i \in Root, NEW q \in Met(scan', i), q \notin Met(scan, i)
               PROVE  i = r /\ q = p /\ ~ taken
    OBVIOUS
  <2>1. q \in Walked[i] /\ ~ WalkOver(scan, i)
    BY <1>4 DEF Met
  <2>2. scan'.root = i /\ q \notin scan'.todo /\ q # scan'.entry
    BY <1>4, <2>1 DEF Met
  <2>3. q \in Path /\ (q \in scan.todo \/ q = NoPath)
    BY <1>1, <1>2, <2>1, <2>2, WalkedFacts DEF Met
  <2> QED
    BY <1>2, <2>2, <2>3, PathAssumption
<1>6. p \in Walked[r] /\ \A i \in Root : scan.rules[i] \subseteq Path
  BY <1>1 DEF ScanInv, Stages, ScanRecord
<1>7. Typed' /\ Stages'
  BY <1>1, <1>2 DEF ScanInv, Typed, Stages
<1>8. EntryIsNew'
  BY <1>1, <1>2, <1>3, <1>6 DEF EntryIsNew
<1>9. CandidatesAreNew'
  <2>1. \A k \in scan.candidates : k[1] \notin scan.todo /\ k[1] # p
    BY <1>1 DEF ScanInv, CandidatesAreNew
  <2>2. \A k \in scan.candidates : k[1] # NoPath
    BY <1>1, PathAssumption DEF ScanRecord
  <2> QED
    BY <1>1, <1>2, <1>3, <2>1, <2>2 DEF ScanInv, CandidatesAreNew
<1>10. PicksAreApart'
  BY <1>1, <1>2, <1>4 DEF ScanInv, PicksAreApart
<1>11. IndexIsAskedAbout'
  BY <1>1, <1>2, <1>4 DEF ScanInv, IndexIsAskedAbout
<1>12. \A q : IsDropped(q) => IsDropped(q)'
  BY <1>2, DropsStay
<1>13. linked => IsDropped(p)'
  BY <1>2 DEF IsDropped
<1>14. Accounted'
  <2> SUFFICES ASSUME NEW i \in Root, NEW q \in Met(scan', i) \ (touched \cup scan.rules[i])
               PROVE  \/ tree[q].kind = "absent"
                      \/ q \in Files(scan)
                      \/ IsDropped(q)'
                      \/ r = i /\ <<q, tree[q].stamp>> \in scan.candidates
                      \/ Lost(i, q)
    BY <1>1, <1>2, <1>3, <1>4 DEF Accounted, Lost
  <2>1. CASE q \in Met(scan, i)
    BY <2>1, <1>12 DEF ScanInv, Accounted
  <2>2. CASE i = r /\ q = p /\ ~ taken
    BY <2>2, <1>3, <1>13, KindFacts DEF ScanInv
  <2> QED
    BY <1>5, <2>1, <2>2
<1>15. Named'
  <2> SUFFICES ASSUME NEW i \in Root, NEW q \in Met(scan', i) \ (touched \cup scan.rules[i])
               PROVE  /\ tree[q].kind = "link" => IsDropped(q)'
                      /\ tree[q].kind = "large" =>
                           IsDropped(q)' \/ q \in scan.known \cup scan.indexed
    BY <1>1, <1>2 DEF Named
  <2>1. CASE q \in Met(scan, i)
    BY <2>1, <1>12 DEF ScanInv, Named
  <2>2. CASE i = r /\ q = p /\ ~ taken
    <3>1. ASSUME tree[p].kind = "large" PROVE p \in scan.known \cup scan.indexed
      <4>1. p \in Files(scan)
        BY <1>3, <2>2, <3>1 DEF IsFile
      <4>2. ASSUME NEW j \in Root PROVE p \notin scan.picks[j]
        BY <2>2, <3>1 DEF ScanInv, PicksAreApart
      <4> QED
        BY <4>1, <4>2, InFiles
    <3> QED
      BY <2>2, <1>13, <3>1
  <2> QED
    BY <1>5, <2>1, <2>2
<1> QED
  BY <1>2, <1>7, <1>8, <1>9, <1>10, <1>11, <1>14, <1>15 DEF ScanInv, Probes

\* The entry in hand becomes a candidate or a reason.
LEMMA InvLook == ASSUME ScanInv, Look PROVE ScanInv'
<1> DEFINE r == scan.root
<1>0. scan \in ScanRecord /\ scan.entry \in Path
  BY DEF ScanInv, Typed, Look, ScanRecord
<1> PICK p \in Path : p = scan.entry
  BY <1>0
<1>1. /\ scan \in ScanRecord /\ scan.stage = "walk" /\ p # NoPath /\ p = scan.entry
      /\ r \in Root /\ r \in Int
      /\ UNCHANGED <<tree, index, touched, edits>>
  BY RootFacts DEF ScanInv, Typed, Stages, Look, ScanRecord
<1>2. /\ p \in Walked[r] /\ p \notin scan.todo \cup scan.rules[r] \cup Files(scan)
      /\ p \notin touched => IsFile(tree[p].kind)
      /\ tree[p].kind \in Kind /\ tree[p].stamp \in Stamps
  BY <1>1, KindFacts DEF ScanInv, EntryIsNew
<1>3. /\ scan'.stage = "walk" /\ scan'.root = r /\ scan'.todo = scan.todo
      /\ scan'.entry = NoPath
      /\ \/ /\ tree[p].kind \in {"absent", "large"}
            /\ scan'.candidates = scan.candidates
            /\ \/ scan'.dropped = scan.dropped \cup {<<p, "Unreadable">>}
               \/ scan'.dropped = scan.dropped \cup {<<p, "OverSizeLimit">>}
         \/ /\ tree[p].kind \notin {"absent", "large"}
            /\ scan'.candidates = scan.candidates \cup {<<p, tree[p].stamp>>}
            /\ scan'.dropped = scan.dropped
      /\ scan'.rules = scan.rules /\ scan'.known = scan.known /\ scan'.indexed = scan.indexed
      /\ scan'.picks = scan.picks
      /\ scan' \in ScanRecord
  <2>1. CASE tree[p].kind = "absent"
    <3>1. scan' = [scan EXCEPT !.entry = NoPath, !.dropped = @ \cup {<<p, "Unreadable">>}]
      BY <1>1, <2>1 DEF Look, ScanRecord
    <3>2. <<p, "Unreadable">> \in Path \X Reason
      BY <1>1 DEF Reason
    <3> QED
      BY <1>1, <2>1, <3>1, <3>2 DEF ScanRecord
  <2>2. CASE tree[p].kind = "large"
    <3>1. scan' = [scan EXCEPT !.entry = NoPath, !.dropped = @ \cup {<<p, "OverSizeLimit">>}]
      BY <1>1, <2>2 DEF Look, ScanRecord
    <3>2. <<p, "OverSizeLimit">> \in Path \X Reason
      BY <1>1 DEF Reason
    <3> QED
      BY <1>1, <2>2, <3>1, <3>2 DEF ScanRecord
  <2>3. CASE tree[p].kind \notin {"absent", "large"}
    <3>1. scan' = [scan EXCEPT !.entry = NoPath,
                               !.candidates = @ \cup {<<p, tree[p].stamp>>}]
      BY <1>1, <2>3 DEF Look, ScanRecord
    <3>2. <<p, tree[p].stamp>> \in Path \X Stamps
      BY <1>1, <1>2
    <3> QED
      BY <1>1, <2>3, <3>1, <3>2 DEF ScanRecord
  <2> QED
    BY <2>1, <2>2, <2>3
<1>4. Files(scan') = Files(scan)
  BY <1>3 DEF Files
<1>5. \A i \in Root : i \in Int /\ WalkOver(scan', i) = WalkOver(scan, i)
                        /\ IndexRead(scan', i) = IndexRead(scan, i)
  BY <1>1, <1>3, RootFacts DEF WalkOver, IndexRead
<1>6. \A i \in Root : \A q \in Met(scan', i) : q \in Met(scan, i) \/ (i = r /\ q = p)
  BY <1>1, <1>3, <1>5 DEF Met
<1>7. \A k \in scan.candidates : k[1] # p /\ k[1] # NoPath
  BY <1>1, PathAssumption DEF ScanInv, CandidatesAreNew, ScanRecord
<1>8. Typed' /\ Stages'
  BY <1>1, <1>3 DEF ScanInv, Typed, Stages
<1>9. EntryIsNew'
  BY <1>3 DEF EntryIsNew
<1>10. CandidatesAreNew'
  <2>1. ASSUME NEW k \in scan'.candidates
        PROVE  /\ k[1] \in Walked[r] /\ k[1] # NoPath
               /\ k[1] \notin scan.todo \cup scan.rules[r] \cup Files(scan)
               /\ k[1] \notin touched => /\ tree[k[1]].kind \in {"file", "sealed"}
                                         /\ tree[k[1]].stamp = k[2]
               /\ k \in scan.candidates \/ (k = <<p, tree[p].stamp>> /\ k[1] = p)
    <3>1. CASE k \in scan.candidates
      BY <1>1, <1>7, <3>1 DEF ScanInv, CandidatesAreNew
    <3>2. CASE k = <<p, tree[p].stamp>> /\ tree[p].kind \notin {"absent", "large"}
      BY <1>1, <1>2, <3>2 DEF IsFile
    <3> QED
      BY <1>3, <3>1, <3>2
  <2>2. ASSUME NEW k \in scan'.candidates, NEW l \in scan'.candidates, l[1] = k[1]
        PROVE  l = k
    BY <1>1, <1>7, <2>1, <2>2 DEF ScanInv, CandidatesAreNew
  <2> QED
    BY <1>1, <1>3, <1>4, <2>1, <2>2 DEF CandidatesAreNew
<1>11. PicksAreApart'
  BY <1>1, <1>3, <1>5 DEF ScanInv, PicksAreApart
<1>12. IndexIsAskedAbout'
  BY <1>1, <1>3, <1>5 DEF ScanInv, IndexIsAskedAbout
<1>13. scan.dropped \subseteq scan'.dropped /\ scan.candidates \subseteq scan'.candidates
  BY <1>3
<1>14. \A q : IsDropped(q) => IsDropped(q)'
  BY <1>13, DropsStay
<1>15. \/ tree[p].kind \in {"absent", "large"} /\ IsDropped(p)'
       \/ tree[p].kind \notin {"absent", "large"} /\ <<p, tree[p].stamp>> \in scan'.candidates
  <2>1. CASE tree[p].kind \in {"absent", "large"}
    <3>1. <<p, "Unreadable">> \in scan'.dropped \/ <<p, "OverSizeLimit">> \in scan'.dropped
      BY <1>3, <2>1
    <3>2. "Unreadable" \in Reason /\ "OverSizeLimit" \in Reason
      BY DEF Reason
    <3> QED
      BY <2>1, <3>1, <3>2, DropIsSeen
  <2>2. CASE tree[p].kind \notin {"absent", "large"}
    BY <1>3, <2>2
  <2> QED
    BY <2>1, <2>2
<1>16. Accounted'
  <2> SUFFICES ASSUME NEW i \in Root, NEW q \in Met(scan', i) \ (touched \cup scan.rules[i])
               PROVE  \/ tree[q].kind = "absent"
                      \/ q \in Files(scan)
                      \/ IsDropped(q)'
                      \/ r = i /\ <<q, tree[q].stamp>> \in scan'.candidates
                      \/ Lost(i, q)
    BY <1>1, <1>3, <1>4, <1>5 DEF Accounted, Lost
  <2>1. CASE q \in Met(scan, i)
    BY <2>1, <1>13, <1>14 DEF ScanInv, Accounted
  <2>2. CASE i = r /\ q = p
    BY <2>2, <1>15
  <2> QED
    BY <1>6, <2>1, <2>2
<1>17. Named'
  <2> SUFFICES ASSUME NEW i \in Root, NEW q \in Met(scan', i) \ (touched \cup scan.rules[i])
               PROVE  /\ tree[q].kind = "link" => IsDropped(q)'
                      /\ tree[q].kind = "large" =>
                           IsDropped(q)' \/ q \in scan.known \cup scan.indexed
    BY <1>1, <1>3 DEF Named
  <2>1. CASE q \in Met(scan, i)
    BY <2>1, <1>14 DEF ScanInv, Named
  <2>2. CASE i = r /\ q = p
    <3>1. tree[p].kind \in {"file", "large", "sealed"}
      BY <2>2, <1>2 DEF IsFile
    <3> QED
      BY <2>2, <1>15, <3>1
  <2> QED
    BY <1>6, <2>1, <2>2
<1> QED
  BY <1>3, <1>8, <1>9, <1>10, <1>11, <1>12, <1>16, <1>17 DEF ScanInv, Probes

\* The paths of the candidates that are picked: as many as the picks, since no
\* path is a candidate twice, and all of them unless the budget is full.
LEMMA PickedFacts ==
    ASSUME ScanInv, scan.stage = "walk", NEW K \in Ranked(scan.candidates)
    PROVE  /\ K \subseteq scan.candidates
           /\ Cardinality({k[1] : k \in K}) <= MaxFiles
           /\ K = scan.candidates \/ Cardinality({k[1] : k \in K}) = MaxFiles
           /\ \A k \in K, l \in scan.candidates \ K : k[2] >= l[2]
<1> DEFINE C == scan.candidates
           P == {k[1] : k \in K}
           f == [k \in C |-> k[1]]
           g == [k \in K |-> k[1]]
<1>1. C \in SUBSET (Path \X Stamps) /\ \A k, l \in C : k[1] = l[1] => k = l
  BY DEF ScanInv, Typed, ScanRecord, CandidatesAreNew
<1>2. K \subseteq C /\ \A k \in K, l \in C \ K : k[2] >= l[2]
  BY DEF Ranked
<1>3. Cardinality(K) = IF Cardinality(C) < MaxFiles THEN Cardinality(C) ELSE MaxFiles
  BY DEF Ranked
<1>4. f \in Injection(C, Path)
  <2>1. f \in [C -> Path]
    BY <1>1
  <2>2. \A a, b \in C : f[a] = f[b] => a = b
    BY <1>1
  <2> QED
    BY <2>1, <2>2 DEF Injection, IsInjective
<1>5. IsFiniteSet(C)
  BY <1>4, FS_Injection, PathAssumption
<1>6. IsFiniteSet(K) /\ (Cardinality(C) = Cardinality(K) => C = K)
  BY <1>2, <1>5, FS_Subset
<1>7. g \in Bijection(K, P)
  <2>1. g \in [K -> P]
    OBVIOUS
  <2>2. \A a, b \in K : g[a] = g[b] => a = b
    BY <1>1, <1>2
  <2>3. \A q \in P : \E k \in K : g[k] = q
    OBVIOUS
  <2>4. g \in Injection(K, P)
    BY <2>1, <2>2 DEF Injection, IsInjective
  <2>5. g \in Surjection(K, P)
    BY <2>1, <2>3 DEF Surjection
  <2> QED
    BY <2>4, <2>5 DEF Bijection
<1>8. Cardinality(P) = Cardinality(K)
  BY <1>6, <1>7, FS_Bijection DEF ExistsBijection
<1>9. Cardinality(C) \in Nat /\ Cardinality(K) \in Nat /\ MaxFiles \in Nat
  BY <1>5, <1>6, FS_CardinalityType, RootsAssumption
<1> HIDE DEF P, C
<1>10. Cardinality(P) <= MaxFiles /\ (K = C \/ Cardinality(P) = MaxFiles)
  BY <1>3, <1>6, <1>8, <1>9
<1> QED
  BY <1>2, <1>10 DEF P, C

\* A walk ends with the most recent of its candidates; the others are accounted
\* for by those.
LEMMA InvRank == ASSUME ScanInv, Rank PROVE ScanInv'
<1> DEFINE r == scan.root
           C == scan.candidates
<1>1. /\ scan \in ScanRecord /\ scan.stage = "walk" /\ scan.todo = {} /\ scan.entry = NoPath
      /\ r \in Root /\ r \in Nat /\ r >= 1
      /\ UNCHANGED <<tree, index, touched, edits>>
  BY RootFacts DEF ScanInv, Typed, Stages, Rank
<1> PICK K \in Ranked(C) :
      scan' = Walk([scan EXCEPT !.picks[r] = {k[1] : k \in K}], r + 1)
  BY DEF Rank
<1> DEFINE P == {k[1] : k \in K}
           mid == [scan EXCEPT !.picks[r] = P]
<1>2. /\ K \subseteq C /\ Cardinality(P) <= MaxFiles
      /\ K = C \/ Cardinality(P) = MaxFiles
      /\ \A k \in K, l \in C \ K : k[2] >= l[2]
  BY <1>1, PickedFacts
<1>3. /\ \A k \in C : k = <<k[1], k[2]>> /\ k[1] \in Path /\ k[2] \in Nat
      /\ \A k, l \in C : k[1] = l[1] => k = l
      /\ P \subseteq Path
  BY <1>1, <1>2, RootsAssumption DEF ScanRecord, ScanInv, CandidatesAreNew
<1>4. \A q \in P : /\ q \in Walked[r] \ scan.rules[r] /\ q \notin Files(scan)
                   /\ q \notin touched => /\ tree[q].kind \in {"file", "sealed"}
                                          /\ <<q, tree[q].stamp>> \in K
  <2> SUFFICES ASSUME NEW k \in K
               PROVE  /\ k[1] \in Walked[r] \ scan.rules[r] /\ k[1] \notin Files(scan)
                      /\ k[1] \notin touched => /\ tree[k[1]].kind \in {"file", "sealed"}
                                                /\ <<k[1], tree[k[1]].stamp>> \in K
    OBVIOUS
  <2> QED
    BY <1>1, <1>2, <1>3 DEF ScanInv, CandidatesAreNew
<1> HIDE DEF P
<1>5. /\ mid \in ScanRecord
      /\ mid.picks = [scan.picks EXCEPT ![r] = P]
      /\ mid.rules = scan.rules /\ mid.known = scan.known
      /\ mid.indexed = scan.indexed /\ mid.dropped = scan.dropped /\ mid.entry = scan.entry
  BY <1>1, <1>3 DEF ScanRecord
<1>6. scan' = Walk(mid, r + 1)
  BY DEF P
<1> HIDE DEF mid
<1>7. /\ scan' \in ScanRecord
      /\ \A i \in Root : scan'.picks[i] = IF i = r THEN P ELSE scan.picks[i]
      /\ scan'.rules = scan.rules /\ scan'.known = scan.known
      /\ scan'.indexed = scan.indexed /\ scan'.dropped = scan.dropped /\ scan'.entry = NoPath
      /\ \/ /\ r = Len(Roots) /\ scan'.stage = "done"
         \/ /\ r < Len(Roots) /\ scan'.stage = "walk" /\ scan'.root = r + 1
            /\ scan'.todo = Walked[r + 1] /\ scan'.candidates = {}
  <2>1. scan.picks \in [Root -> SUBSET Path]
    BY <1>1 DEF ScanRecord
  <2>2. \A i \in Root : mid.picks[i] = IF i = r THEN P ELSE scan.picks[i]
    BY <1>5, <2>1
  <2>3. r + 1 \in Nat /\ r + 1 >= 1 /\ (r + 1 > Len(Roots) <=> r = Len(Roots))
        /\ (r + 1 <= Len(Roots) <=> r < Len(Roots))
    BY <1>1, RootFacts
  <2>4. r = Len(Roots) \/ r < Len(Roots)
    BY <1>1, RootFacts
  <2>5. /\ scan' \in ScanRecord
        /\ r + 1 > Len(Roots) => scan'.stage = "done"
        /\ r + 1 <= Len(Roots) =>
             /\ scan'.stage = "walk" /\ scan'.root = r + 1
             /\ scan'.todo = Walked[r + 1] /\ scan'.candidates = {}
        /\ scan'.entry = mid.entry /\ scan'.rules = mid.rules
        /\ scan'.known = mid.known /\ scan'.indexed = mid.indexed
        /\ scan'.picks = mid.picks /\ scan'.dropped = mid.dropped
    <3> DEFINE w == Walk(mid, r + 1)
    <3>1. /\ w \in ScanRecord
          /\ r + 1 > Len(Roots) => w.stage = "done"
          /\ r + 1 <= Len(Roots) => /\ w.stage = "walk" /\ w.root = r + 1
                                    /\ w.todo = Walked[r + 1] /\ w.candidates = {}
          /\ w.entry = mid.entry /\ w.rules = mid.rules
          /\ w.known = mid.known /\ w.indexed = mid.indexed
          /\ w.picks = mid.picks /\ w.dropped = mid.dropped
      BY <1>5, <2>3, WalkFields
    <3>2. scan' = w
      BY <1>6
    <3> HIDE DEF w
    <3> QED
      BY <3>1, <3>2
  <2> QED
    BY <1>1, <1>5, <2>2, <2>3, <2>4, <2>5
<1>8. \A i \in Root : /\ i \in Nat /\ scan.picks[i] \subseteq scan'.picks[i]
                      /\ WalkOver(scan', i) <=> (i = r \/ WalkOver(scan, i))
                      /\ WalkOver(scan, i) => i # r
                      /\ IndexRead(scan', i) = IndexRead(scan, i)
                      /\ (i = r => scan.picks[i] = {})
  <2>1. \A i \in Root : /\ i \in Nat
                        /\ WalkOver(scan', i) <=> (i = r \/ WalkOver(scan, i))
                        /\ WalkOver(scan, i) => i # r
                        /\ IndexRead(scan', i) = IndexRead(scan, i)
    BY <1>1, <1>7, RootFacts DEF WalkOver, IndexRead
  <2>2. scan.picks[r] = {}
    BY <1>1, <2>1 DEF ScanInv, PicksAreApart
  <2> QED
    BY <1>7, <2>1, <2>2
<1>9. \A i \in Root : \A q \in Met(scan', i) : q \in Met(scan, i)
  <2> SUFFICES ASSUME NEW i \in Root, NEW q \in Met(scan', i) PROVE q \in Met(scan, i)
    OBVIOUS
  <2>1. CASE WalkOver(scan, i)
    BY <2>1 DEF Met
  <2>2. CASE i = r
    <3>1. q \in Path
      BY WalkedFacts DEF Met
    <3> QED
      BY <1>1, <2>2, <3>1, PathAssumption DEF Met
  <2>3. CASE ~ WalkOver(scan, i) /\ i # r
    BY <1>7, <1>8, <2>3 DEF Met
  <2> QED
    BY <2>1, <2>2, <2>3
<1>10. \A q : q \in Files(scan') <=> q \in Files(scan) \/ q \in P
  <2> SUFFICES ASSUME NEW q PROVE q \in Files(scan') <=> q \in Files(scan) \/ q \in P
    OBVIOUS
  <2>1. (\E i \in Root : q \in scan'.picks[i]) <=> (\E i \in Root : q \in scan.picks[i]) \/ q \in P
    <3>1. ASSUME NEW i \in Root, q \in scan'.picks[i] PROVE q \in scan.picks[i] \/ q \in P
      BY <1>7, <3>1
    <3>2. ASSUME NEW i \in Root, q \in scan.picks[i] PROVE q \in scan'.picks[i]
      BY <1>8, <3>2
    <3>3. q \in P => q \in scan'.picks[r]
      BY <1>1, <1>7
    <3> QED
      BY <1>1, <3>1, <3>2, <3>3
  <2>2. q \in Files(scan') <=> \/ q \in scan'.known
                               \/ q \in scan'.indexed
                               \/ \E i \in Root : q \in scan'.picks[i]
    BY InFiles
  <2>3. q \in Files(scan) <=> \/ q \in scan.known
                              \/ q \in scan.indexed
                              \/ \E i \in Root : q \in scan.picks[i]
    BY InFiles
  <2> QED
    BY <1>7, <2>1, <2>2, <2>3
<1>11. Typed' /\ Stages'
  <2>1. Typed'
    BY <1>1, <1>7 DEF ScanInv, Typed
  <2>2. scan'.stage = "walk" => scan'.root \in Root /\ scan'.todo = Walked[scan'.root]
    BY <1>1, <1>7, RootFacts
  <2>3. scan'.stage # "index" /\ scan'.entry = NoPath
    BY <1>7
  <2> QED
    BY <2>1, <2>2, <2>3 DEF Stages
<1>12. EntryIsNew' /\ CandidatesAreNew'
  BY <1>7 DEF EntryIsNew, CandidatesAreNew
<1>13. PicksAreApart'
  <2> SUFFICES ASSUME NEW i \in Root
               PROVE  /\ Cardinality(scan'.picks[i]) <= MaxFiles
                      /\ scan'.picks[i] \subseteq Walked[i] \ scan.rules[i]
                      /\ \A p \in scan'.picks[i] : p \notin scan.known \cup scan.indexed
                      /\ \A j \in Root, p \in scan'.picks[i] : p \in scan'.picks[j] => i = j
                      /\ ~ WalkOver(scan', i) => scan'.picks[i] = {}
                      /\ \A p \in scan'.picks[i] \ touched : tree[p].kind \in {"file", "sealed"}
    BY <1>1, <1>7 DEF PicksAreApart
  <2>1. CASE i = r
    <3>1. \A p \in P : p \notin scan.known \cup scan.indexed
                      /\ \A j \in Root : p \notin scan.picks[j]
      BY <1>4, InFiles
    <3>2. scan'.picks[i] = P /\ WalkOver(scan', i)
      BY <1>7, <1>8, <2>1
    <3>3. \A j \in Root : j # r => scan'.picks[j] = scan.picks[j]
      BY <1>7
    <3> QED
      BY <1>2, <1>4, <2>1, <3>1, <3>2, <3>3
  <2>2. CASE i # r
    <3>1. \A j \in Root, p \in scan.picks[i] : p \in scan'.picks[j] => i = j
      <4> SUFFICES ASSUME NEW j \in Root, NEW p \in scan.picks[i], p \in scan'.picks[j]
                   PROVE  i = j
        OBVIOUS
      <4>1. p \in Files(scan)
        BY InFiles
      <4>2. j # r
        BY <1>4, <1>7, <4>1
      <4> QED
        BY <1>7, <4>2 DEF ScanInv, PicksAreApart
    <3> QED
      BY <1>7, <1>8, <2>2, <3>1 DEF ScanInv, PicksAreApart
  <2> QED
    BY <2>1, <2>2
<1>14. IndexIsAskedAbout'
  BY <1>1, <1>7, <1>8 DEF ScanInv, IndexIsAskedAbout
<1>15. \A q : IsDropped(q) => IsDropped(q)'
  BY <1>7, DropsStay
<1>16. Accounted'
  <2> SUFFICES ASSUME NEW i \in Root, NEW q \in Met(scan', i) \ (touched \cup scan.rules[i])
               PROVE  \/ tree[q].kind = "absent"
                      \/ q \in Files(scan')
                      \/ IsDropped(q)'
                      \/ /\ WalkOver(scan', i)
                         /\ Cardinality(scan'.picks[i]) = MaxFiles
                         /\ \A p \in scan'.picks[i] \ touched : tree[p].stamp >= tree[q].stamp
    BY <1>1, <1>7 DEF Accounted, Lost
  <2>1. CASE Lost(i, q)
    <3>1. i # r /\ WalkOver(scan', i)
      BY <1>8, <2>1 DEF Lost
    <3> QED
      BY <1>7, <2>1, <3>1 DEF Lost
  <2>2. CASE r = i /\ <<q, tree[q].stamp>> \in C
    <3>1. CASE <<q, tree[q].stamp>> \in K
      <4>1. q \in P
        BY <3>1 DEF P
      <4> QED
        BY <1>10, <4>1
    <3>2. CASE <<q, tree[q].stamp>> \notin K
      <4>1. Cardinality(P) = MaxFiles
        BY <1>2, <2>2, <3>2
      <4>2. ASSUME NEW p \in P \ touched PROVE tree[p].stamp >= tree[q].stamp
        <5>1. <<p, tree[p].stamp>> \in K
          BY <1>4
        <5> QED
          BY <1>2, <2>2, <3>2, <5>1
      <4> QED
        BY <1>7, <1>8, <2>2, <4>1, <4>2
    <3> QED
      BY <3>1, <3>2
  <2> QED
    BY <1>9, <1>10, <1>15, <2>1, <2>2 DEF ScanInv, Accounted
<1>17. Named'
  <2> SUFFICES ASSUME NEW i \in Root, NEW q \in Met(scan', i) \ (touched \cup scan.rules[i])
               PROVE  /\ tree[q].kind = "link" => IsDropped(q)'
                      /\ tree[q].kind = "large" =>
                           IsDropped(q)' \/ q \in scan.known \cup scan.indexed
    BY <1>1, <1>7 DEF Named
  <2> QED
    BY <1>9, <1>15 DEF ScanInv, Named
<1> QED
  BY <1>7, <1>11, <1>12, <1>13, <1>14, <1>16, <1>17 DEF ScanInv, Probes

\* A report adds to the reasons and looks for nothing else.
LEMMA InvReport == ASSUME ScanInv, Report PROVE ScanInv'
<1>1. /\ scan \in ScanRecord /\ scan.stage = "done" /\ scan.known = {}
      /\ UNCHANGED <<tree, index, touched, edits>>
  BY DEF ScanInv, Typed, Report
<1>2. Probed(scan) \in SUBSET (Path \X Reason) /\ scan.dropped \subseteq Probed(scan)
  <2>1. \A q \in Files(scan) : <<q, "Unreadable">> \in Path \X Reason
    BY <1>1, InFiles DEF ScanRecord, Reason
  <2>2. scan.dropped \in SUBSET (Path \X Reason)
    BY <1>1 DEF ScanRecord
  <2> QED
    BY <2>1, <2>2 DEF Probed
<1>3. scan' = [scan EXCEPT !.stage = "reported", !.dropped = Probed(scan)]
  BY DEF Report
<1>4. /\ scan' \in ScanRecord /\ scan'.stage = "reported" /\ scan'.dropped = Probed(scan)
      /\ scan'.root = scan.root /\ scan'.rules = scan.rules /\ scan'.known = scan.known
      /\ scan'.indexed = scan.indexed /\ scan'.picks = scan.picks /\ scan'.entry = scan.entry
      /\ scan'.candidates = scan.candidates /\ scan'.todo = scan.todo
  BY <1>1, <1>2, <1>3 DEF ScanRecord
<1>5. Files(scan') = Files(scan)
  BY <1>4 DEF Files
<1>6. \A i \in Root : /\ WalkOver(scan, i) /\ WalkOver(scan', i)
                      /\ IndexRead(scan, i) /\ Met(scan', i) = Met(scan, i)
  BY <1>1, <1>4 DEF WalkOver, IndexRead, Met
<1>7. \A q : IsDropped(q) => IsDropped(q)'
  BY <1>2, <1>4, DropsStay
<1>8. \A q \in Files(scan) : tree[q].kind = "sealed" => IsDropped(q)'
  <2> SUFFICES ASSUME NEW q \in Files(scan), tree[q].kind = "sealed" PROVE IsDropped(q)'
    OBVIOUS
  <2>1. <<q, "Unreadable">> \in Probed(scan)
    BY DEF Probed
  <2>2. "Unreadable" \in Reason
    BY DEF Reason
  <2> QED
    BY <1>4, <2>1, <2>2, DropIsSeen
<1>9. Typed' /\ Stages' /\ EntryIsNew' /\ CandidatesAreNew'
  BY <1>1, <1>4 DEF ScanInv, Typed, Stages, EntryIsNew, CandidatesAreNew
<1>10. PicksAreApart'
  BY <1>1, <1>4, <1>6 DEF ScanInv, PicksAreApart
<1>11. IndexIsAskedAbout'
  BY <1>1, <1>4, <1>6 DEF ScanInv, IndexIsAskedAbout
<1>12. Accounted'
  <2> SUFFICES ASSUME NEW i \in Root, NEW q \in Met(scan', i) \ (touched \cup scan.rules[i])
               PROVE  \/ tree[q].kind = "absent"
                      \/ q \in Files(scan)
                      \/ IsDropped(q)'
                      \/ /\ Cardinality(scan.picks[i]) = MaxFiles
                         /\ \A p \in scan.picks[i] \ touched : tree[p].stamp >= tree[q].stamp
    BY <1>1, <1>4, <1>5, <1>6 DEF Accounted, Lost
  <2> QED
    BY <1>1, <1>6, <1>7 DEF ScanInv, Accounted, Lost
<1>13. Named'
  <2> SUFFICES ASSUME NEW i \in Root, NEW q \in Met(scan', i) \ (touched \cup scan.rules[i])
               PROVE  /\ tree[q].kind = "link" => IsDropped(q)'
                      /\ tree[q].kind = "large" =>
                           IsDropped(q)' \/ q \in scan.known \cup scan.indexed
    BY <1>1, <1>4 DEF Named
  <2> QED
    BY <1>6, <1>7 DEF ScanInv, Named
<1>14. Probes'
  BY <1>1, <1>4, <1>5, <1>8 DEF Probes
<1> QED
  BY <1>9, <1>10, <1>11, <1>12, <1>13, <1>14 DEF ScanInv

-----------------------------------------------------------------------------
(* The outside world. *)

\* An edit disturbs nothing but what is said of the path it touches, and of that
\* path nothing is claimed from then on.
LEMMA InvEdit ==
    ASSUME ScanInv, NEW p \in Path, Change(p) \/ Stage(p)
    PROVE  ScanInv'
<1>1. scan' = scan /\ Edited(p)
  BY DEF Change, Stage
<1>2. Typed'
  <2>1. edits' \in 0 .. MaxEdits /\ touched' \subseteq Path
    BY <1>1, RootsAssumption DEF ScanInv, Typed, Edited
  <2>2. tree' \in [Path -> [kind : Kind, stamp : Stamps]] /\ index' \subseteq Path
    BY DEF ScanInv, Typed, Change, Stage
  <2> QED
    BY <1>1, <2>1, <2>2 DEF ScanInv, Typed
<1>3. \A q \in Path : q # p => tree'[q] = tree[q] /\ (q \in index' <=> q \in index)
  BY DEF ScanInv, Typed, Change, Stage
<1>4. CASE scan.stage = "idle"
  <2>1. \A i \in Root : /\ ~ WalkOver(scan, i) /\ ~ IndexRead(scan, i)
                        /\ Met(scan, i) = {} /\ scan.picks[i] = {}
    BY <1>4 DEF ScanInv, PicksAreApart, WalkOver, IndexRead, Met
  <2>2. Stages' /\ EntryIsNew' /\ CandidatesAreNew' /\ Accounted' /\ Named' /\ Probes'
    BY <1>1, <1>4, <2>1
       DEF ScanInv, Stages, EntryIsNew, CandidatesAreNew, Accounted, Named, Probes
  <2>3. PicksAreApart'
    BY <1>1, <2>1 DEF ScanInv, PicksAreApart
  <2>4. IndexIsAskedAbout'
    BY <1>1, <2>1 DEF ScanInv, IndexIsAskedAbout
  <2> QED
    BY <1>2, <2>2, <2>3, <2>4 DEF ScanInv
<1>5. CASE scan.stage # "idle"
  <2>1. touched' = touched \cup {p}
    BY <1>1, <1>5 DEF Edited
  <2>2. \A q \in Path : q \notin touched' =>
             q \notin touched /\ tree'[q] = tree[q] /\ (q \in index' <=> q \in index)
    BY <1>3, <2>1
  <2>3. scan \in ScanRecord /\ \A i \in Root : Met(scan, i) \subseteq Path
    BY WalkedFacts DEF ScanInv, Typed, Met
  <2>4. Stages' /\ EntryIsNew'
    <3>1. scan.entry # NoPath => scan.entry \in Path
      BY <2>3 DEF ScanRecord
    <3> QED
      BY <1>1, <2>2, <3>1 DEF ScanInv, Stages, EntryIsNew
  <2>5. CandidatesAreNew'
    <3>1. \A k \in scan.candidates : k[1] \in Path
      BY <2>3 DEF ScanRecord
    <3> QED
      BY <1>1, <2>2, <3>1 DEF ScanInv, CandidatesAreNew
  <2>6. \A i \in Root : scan.picks[i] \subseteq Path
    BY <2>3 DEF ScanRecord
  <2>7. PicksAreApart'
    <3>1. \A i \in Root : \A q \in scan.picks[i] \ touched' : tree'[q].kind \in {"file", "sealed"}
      BY <2>2, <2>6 DEF ScanInv, PicksAreApart
    <3> QED
      BY <1>1, <3>1 DEF ScanInv, PicksAreApart
  <2>8. IndexIsAskedAbout'
    <3>1. ASSUME NEW i \in Root, IndexRead(scan, i),
                 NEW q \in (index' \cap Within[i]) \ (touched' \cup scan.rules[i])
          PROVE  q \in scan.indexed
      BY <2>2, <3>1, WalkedFacts DEF ScanInv, IndexIsAskedAbout
    <3> QED
      BY <1>1, <3>1 DEF ScanInv, IndexIsAskedAbout
  <2>9. Accounted'
    <3> SUFFICES ASSUME NEW i \in Root, NEW q \in Met(scan, i) \ (touched' \cup scan.rules[i])
                 PROVE  \/ tree'[q].kind = "absent"
                        \/ q \in Files(scan)
                        \/ IsDropped(q)
                        \/ /\ scan.stage = "walk" /\ scan.root = i
                           /\ <<q, tree'[q].stamp>> \in scan.candidates
                        \/ /\ WalkOver(scan, i)
                           /\ Cardinality(scan.picks[i]) = MaxFiles
                           /\ \A l \in scan.picks[i] \ touched' : tree'[l].stamp >= tree'[q].stamp
      BY <1>1 DEF Accounted, Lost, IsDropped
    <3>1. q \notin touched /\ tree'[q] = tree[q]
      BY <2>2, <2>3
    <3>2. \A l \in scan.picks[i] \ touched' : l \notin touched /\ tree'[l] = tree[l]
      BY <2>2, <2>6
    <3> QED
      BY <3>1, <3>2 DEF ScanInv, Accounted, Lost
  <2>10. Named'
    <3> SUFFICES ASSUME NEW i \in Root, NEW q \in Met(scan, i) \ (touched' \cup scan.rules[i])
                 PROVE  /\ tree'[q].kind = "link" => IsDropped(q)
                        /\ tree'[q].kind = "large" =>
                             IsDropped(q) \/ q \in scan.known \cup scan.indexed
      BY <1>1 DEF Named, IsDropped
    <3>1. q \notin touched /\ tree'[q] = tree[q]
      BY <2>2, <2>3
    <3> QED
      BY <3>1 DEF ScanInv, Named
  <2>11. Probes'
    <3>1. Files(scan) \subseteq Path
      BY <2>3, InFiles DEF ScanRecord
    <3>2. scan.stage = "reported" =>
            \A q \in Files(scan) \ touched' : tree'[q].kind = "sealed" => IsDropped(q)
      BY <2>2, <3>1 DEF ScanInv, Probes
    <3> QED
      BY <1>1, <3>2 DEF ScanInv, Probes, IsDropped
  <2> QED
    BY <1>2, <2>4, <2>5, <2>7, <2>8, <2>9, <2>10, <2>11 DEF ScanInv
<1> QED
  BY <1>4, <1>5

\* Every step keeps the account.
LEMMA InvNext == ScanInv /\ [Next]_vars => ScanInv'
<1> SUFFICES ASSUME ScanInv, [Next]_vars PROVE ScanInv'
  OBVIOUS
<1>1. ASSUME NEW known \in SUBSET Declared, NEW rules \in [Root -> SUBSET Excluded],
             Start(known, rules)
      PROVE  ScanInv'
  BY <1>1, InvStart
<1>2. CASE ReadIndex
  BY <1>2, InvReadIndex
<1>3. ASSUME NEW p \in Path, See(p) PROVE ScanInv'
  BY <1>3, InvSee
<1>4. CASE Look
  BY <1>4, InvLook
<1>5. CASE Rank
  BY <1>5, InvRank
<1>6. CASE Report
  BY <1>6, InvReport
<1>7. ASSUME NEW p \in Path, Change(p) \/ Stage(p) PROVE ScanInv'
  BY <1>7, InvEdit
<1>8. CASE UNCHANGED vars
  BY <1>8 DEF vars, ScanInv, Typed, Stages, EntryIsNew, CandidatesAreNew, PicksAreApart,
              IndexIsAskedAbout, Accounted, Named, Probes, Lost, IsDropped
<1> QED
  BY <1>1, <1>2, <1>3, <1>4, <1>5, <1>6, <1>7, <1>8 DEF Next, Scanning

\* The account holds of every state a scan can be in.
THEOREM Invariant == Spec => []ScanInv
BY InvInit, InvNext, PTL DEF Spec

-----------------------------------------------------------------------------
(* What a capture is promised. *)

\* The state has its shape, and no root takes more than the budget.
THEOREM TypeCorrect == Spec => []TypeOK
<1>1. ScanInv => TypeOK
  <2> SUFFICES ASSUME ScanInv PROVE TypeOK
    OBVIOUS
  <2>1. Typed /\ PicksAreApart
    BY DEF ScanInv
  <2>2. Files(scan) \subseteq Path
    BY <2>1, InFiles DEF Typed, ScanRecord
  <2>3. scan.stage \in {"idle", "index", "walk", "done", "reported"}
    BY <2>1 DEF Typed, ScanRecord
  <2> QED
    BY <2>1, <2>2, <2>3 DEF TypeOK, Typed, PicksAreApart
<1> QED
  BY <1>1, Invariant, PTL

\* Nothing goes missing in silence: what a walk comes to and nobody changes is
\* looked at, named with a reason, or lost its place to a full budget of files
\* no less recent (tracked_files, recent_files).
THEOREM NothingGoesMissing == Spec => []NothingVanishes
<1>1. ScanInv => NothingVanishes
  <2> SUFFICES ASSUME ScanInv, Ended,
                      NEW i \in Root, NEW p \in Walked[i] \ (touched \cup scan.rules[i])
               PROVE  \/ tree[p].kind = "absent"
                      \/ p \in Files(scan)
                      \/ IsDropped(p)
                      \/ LET others == UNION {scan.picks[j] : j \in Root \ {i}} IN
                         /\ Cardinality(scan.picks[i] \ (scan.known \cup scan.indexed \cup others))
                              = MaxFiles
                         /\ \A q \in scan.picks[i] \ touched : tree[q].stamp >= tree[p].stamp
    BY DEF NothingVanishes
  <2> DEFINE others == UNION {scan.picks[j] : j \in Root \ {i}}
  <2>1. p \in Met(scan, i) /\ scan.stage # "walk"
    BY DEF Ended, Met, WalkOver
  <2>2. scan.picks[i] \ (scan.known \cup scan.indexed \cup others) = scan.picks[i]
    BY DEF ScanInv, PicksAreApart
  <2> QED
    BY <2>1, <2>2 DEF ScanInv, Accounted, Lost
<1> QED
  BY <1>1, Invariant, PTL

\* What the index lists is asked about although nothing is there
\* (git_tracked_files).
THEOREM MissingAreAskedAbout == Spec => []MissingIsAskedAbout
<1>1. ScanInv => MissingIsAskedAbout
  BY InFiles DEF ScanInv, MissingIsAskedAbout, IndexIsAskedAbout, IndexRead, Ended
<1> QED
  BY <1>1, Invariant, PTL

\* A report names every link, every file over the limit and every file it could
\* not read (scan_report).
THEOREM ReportsAreComplete == Spec => []ReportIsComplete
<1>1. ScanInv => ReportIsComplete
  <2> SUFFICES ASSUME ScanInv, scan.stage = "reported",
                      NEW i \in Root, NEW p \in Walked[i] \ (touched \cup scan.rules[i])
               PROVE  /\ tree[p].kind = "link" => IsDropped(p)
                      /\ tree[p].kind = "large" => IsDropped(p) \/ p \in scan.indexed
                      /\ tree[p].kind = "sealed" /\ p \in Files(scan) => IsDropped(p)
    BY DEF ReportIsComplete
  <2>1. p \in Met(scan, i) /\ scan.known = {}
    BY DEF Met, WalkOver, ScanInv, Probes
  <2> QED
    BY <2>1 DEF ScanInv, Named, Probes
<1> QED
  BY <1>1, Invariant, PTL

\* A path every root it lies beneath excludes is not looked at, unless the
\* caller named it.
THEOREM IgnoredStayOut == Spec => []IgnoredStaysOut
<1>1. ScanInv => IgnoredStaysOut
  BY InFiles, WalkedFacts DEF ScanInv, IgnoredStaysOut, IndexIsAskedAbout, PicksAreApart
<1> QED
  BY <1>1, Invariant, PTL

==============================================================================
