--------------------------------- MODULE Scan ---------------------------------
(***************************************************************************)
(* What a capture looks at (scope.rs, tracked_files): the paths it is told  *)
(* of, what the index of the repository lists beneath each root, and, root  *)
(* by root, the most recently modified of the rest, up to a budget.  The    *)
(* directory is read entry by entry while others change it and its index.   *)
(* Walking order and the order of equal stamps are the filesystem's.        *)
(***************************************************************************)
EXTENDS Integers, FiniteSets, Sequences

CONSTANTS
    Path,
    Roots,      \* scan_roots, in order
    Within,     \* the paths beneath each root
    Walked,     \* those of them no hidden, skipped or .git directory holds
    Stamps,     \* modification times
    MaxFiles,   \* ScanLimits::max_files
    NoPath,
    Declared,   \* paths a caller may name
    Excluded,   \* paths an ignore file may name
    Trees,      \* what the directory may be at first
    Listed,     \* paths the index may list at first
    MaxEdits    \* bound: changes to the directory or the index

\* TurnScope::scan_roots names at least one root.
ASSUME RootsAssumption ==
    /\ MaxFiles \in Nat /\ MaxEdits \in Nat /\ Stamps \subseteq Nat
    /\ Roots \in Seq(STRING) /\ Roots # <<>>
    /\ \A i \in DOMAIN Roots : Walked[i] \subseteq Within[i] /\ Within[i] \subseteq Path

ASSUME PathAssumption ==
    /\ IsFiniteSet(Path) /\ NoPath \notin Path
    /\ Declared \subseteq Path /\ Listed \subseteq Path

VARIABLES
    tree,       \* what is at each path, and its stamp
    index,      \* what the repository's index lists
    scan,       \* the scan under way
    touched,    \* paths changed, in tree or index, since it began (history)
    edits

vars == <<tree, index, scan, touched, edits>>

\* A regular file; one too large; one whose content may not be read; a link.
Kind == {"absent", "file", "large", "sealed", "link"}

ASSUME TreesAssumption == Trees \subseteq [Path -> [kind : Kind, stamp : Stamps]]

IsFile(kind) == kind \in {"file", "large", "sealed"}

Root == DOMAIN Roots

\* Candidates are paths with the stamp they were found with.
Idle == [stage |-> "idle", root |-> 0, rules |-> [i \in Root |-> {}],
         known |-> {}, indexed |-> {}, todo |-> {}, entry |-> NoPath,
         candidates |-> {}, picks |-> [i \in Root |-> {}], dropped |-> {}]

\* Scan::files.
Files(s) == s.known \cup s.indexed \cup UNION {s.picks[i] : i \in Root}

Init ==
    /\ tree \in Trees
    /\ index \in SUBSET Listed
    /\ scan = Idle
    /\ touched = {}
    /\ edits = 0

------------------------------------------------------------------------------
(* The outside world *)

Edited(p) ==
    /\ edits < MaxEdits
    /\ edits' = edits + 1
    /\ touched' = IF scan.stage = "idle" THEN touched ELSE touched \cup {p}

Change(p) ==
    /\ Edited(p)
    /\ \E k \in Kind, m \in Stamps :
         tree' = [tree EXCEPT ![p] = [kind |-> k, stamp |-> m]]
    /\ UNCHANGED <<index, scan>>

Stage(p) ==
    /\ Edited(p)
    /\ index' \in {index \cup {p}, index \ {p}}
    /\ UNCHANGED <<tree, scan>>

------------------------------------------------------------------------------
(* tracked_files *)

\* The ignore rules of every root are loaded first.  Rules say nothing of what
\* is not beneath their root (is_ignored).
Start(known, rules) ==
    /\ scan.stage = "idle"
    /\ scan' = [Idle EXCEPT !.stage = "index", !.root = 1, !.known = known,
                            !.rules = [i \in Root |-> rules[i] \cap Within[i]]]
    /\ UNCHANGED <<tree, index, touched, edits>>

\* Mutant of GitTracked: entries whose file is missing are left out.
GitTrackedPresent(i) ==
    {p \in (index \cap Within[i]) \ scan.rules[i] : tree[p].kind # "absent"}

\* git_tracked_files: no look at the files themselves.
GitTracked(i) == (index \cap Within[i]) \ scan.rules[i]

\* On to the walk of root i, or, past the last one, to the end.
Walk(s, i) ==
    IF i > Len(Roots) THEN [s EXCEPT !.stage = "done", !.root = 0]
    ELSE [s EXCEPT !.stage = "walk", !.root = i, !.todo = Walked[i], !.candidates = {}]

ReadIndex ==
    /\ scan.stage = "index"
    /\ LET read == [scan EXCEPT !.indexed = @ \cup GitTracked(scan.root)] IN
       scan' = IF scan.root < Len(Roots) THEN [read EXCEPT !.root = @ + 1]
               ELSE Walk(read, 1)
    /\ UNCHANGED <<tree, index, touched, edits>>

\* Mutant of Covered: only what the caller named is excluded from the ranking.
CoveredByCaller == scan.known

\* What needs no slot of the budget.
Covered == Files(scan)

\* Mutant of See: the ignore rules are not asked.
SeeIgnored(p) ==
    /\ scan.stage = "walk" /\ scan.entry = NoPath
    /\ p \in scan.todo
    /\ scan' = [scan EXCEPT
         !.todo = @ \ {p},
         !.entry = IF IsFile(tree[p].kind) /\ p \notin Covered THEN p ELSE NoPath,
         !.dropped = IF tree[p].kind = "link" THEN @ \cup {<<p, "NotARegularFile">>} ELSE @]
    /\ UNCHANGED <<tree, index, touched, edits>>

\* Mutant of See: links are passed over in silence.
SeeFiles(p) ==
    /\ scan.stage = "walk" /\ scan.entry = NoPath
    /\ p \in scan.todo
    /\ scan' = [scan EXCEPT
         !.todo = @ \ {p},
         !.entry = IF /\ IsFile(tree[p].kind)
                      /\ p \notin Covered \cup scan.rules[scan.root]
                   THEN p ELSE NoPath]
    /\ UNCHANGED <<tree, index, touched, edits>>

\* The walk comes to an entry and learns its type.
See(p) ==
    /\ scan.stage = "walk" /\ scan.entry = NoPath
    /\ p \in scan.todo
    /\ scan' = [scan EXCEPT
         !.todo = @ \ {p},
         !.entry = IF /\ IsFile(tree[p].kind)
                      /\ p \notin Covered \cup scan.rules[scan.root]
                   THEN p ELSE NoPath,
         !.dropped = IF tree[p].kind = "link" /\ p \notin scan.rules[scan.root]
                     THEN @ \cup {<<p, "NotARegularFile">>} ELSE @]
    /\ UNCHANGED <<tree, index, touched, edits>>

\* ... and looks at its size and stamp, if it is still there; fs::metadata
\* follows a link that has taken the place of the file.
Look ==
    /\ scan.stage = "walk" /\ scan.entry # NoPath
    /\ LET p == scan.entry
           next == [scan EXCEPT !.entry = NoPath]
       IN scan' = CASE tree[p].kind = "absent" ->
                         [next EXCEPT !.dropped = @ \cup {<<p, "Unreadable">>}]
                    [] tree[p].kind = "large" ->
                         [next EXCEPT !.dropped = @ \cup {<<p, "OverSizeLimit">>}]
                    [] OTHER ->
                         [next EXCEPT !.candidates = @ \cup {<<p, tree[p].stamp>>}]
    /\ UNCHANGED <<tree, index, touched, edits>>

\* Mutant of Ranked: the budget is not applied.
RankedUnbounded(candidates) == {candidates}

\* The most recent of the candidates, as many as the budget allows.
Ranked(candidates) ==
    {K \in SUBSET candidates :
       /\ Cardinality(K) = IF Cardinality(candidates) < MaxFiles
                           THEN Cardinality(candidates) ELSE MaxFiles
       /\ \A k \in K, l \in candidates \ K : k[2] >= l[2]}

Rank ==
    /\ scan.stage = "walk" /\ scan.todo = {} /\ scan.entry = NoPath
    /\ \E K \in Ranked(scan.candidates) :
         scan' = Walk([scan EXCEPT !.picks[scan.root] = {k[1] : k \in K}], scan.root + 1)
    /\ UNCHANGED <<tree, index, touched, edits>>

\* A path that cannot be opened is a drop too; opening follows links.
Probed(s) ==
    s.dropped \cup
    {<<p, "Unreadable">> : p \in {q \in Files(s) : tree[q].kind \in {"absent", "sealed"}}}

\* scan_report, which names no path to look at.
Report ==
    /\ scan.stage = "done" /\ scan.known = {}
    /\ scan' = [scan EXCEPT !.stage = "reported", !.dropped = Probed(scan)]
    /\ UNCHANGED <<tree, index, touched, edits>>

Scanning ==
    \/ \E known \in SUBSET Declared, rules \in [Root -> SUBSET Excluded] :
         Start(known, rules)
    \/ ReadIndex
    \/ \E p \in Path : See(p)
    \/ Look \/ Rank \/ Report

Next == Scanning \/ \E p \in Path : Change(p) \/ Stage(p)

Spec == Init /\ [][Next]_vars

------------------------------------------------------------------------------
(* Properties *)

\* The shape of the state; no root takes more than the budget.
TypeOK ==
    /\ tree \in [Path -> [kind : Kind, stamp : Stamps]]
    /\ index \subseteq Path /\ touched \subseteq Path
    /\ edits \in 0 .. MaxEdits
    /\ scan.stage \in {"idle", "index", "walk", "done", "reported"}
    /\ Files(scan) \subseteq Path
    /\ \A i \in Root : Cardinality(scan.picks[i]) <= MaxFiles

Ended == scan.stage \in {"done", "reported"}

IsDropped(p) == \E why \in {"OverSizeLimit", "Unreadable", "NotARegularFile"} :
                  <<p, why>> \in scan.dropped

\* Nothing in the project goes missing in silence.  Whatever a root's walk
\* comes to and nobody changes meanwhile is looked at by the capture, or is
\* named with a reason, or is a file that lost its place to a full budget of
\* files no less recent, none of which had been covered otherwise (scope.rs,
\* recent_files and tracked_files: the order is load-bearing).
NothingVanishes ==
    Ended => \A i \in Root : \A p \in Walked[i] \ (touched \cup scan.rules[i]) :
      \/ tree[p].kind = "absent"
      \/ p \in Files(scan)
      \/ IsDropped(p)
      \/ LET others == UNION {scan.picks[j] : j \in Root \ {i}} IN
         /\ Cardinality(scan.picks[i] \ (scan.known \cup scan.indexed \cup others)) = MaxFiles
         /\ \A q \in scan.picks[i] \ touched : tree[q].stamp >= tree[p].stamp

\* What the index lists is asked about although nothing is there: the capture
\* records its absence, the only evidence a restore may remove it on
\* (scope.rs, git_tracked_files).
MissingIsAskedAbout ==
    Ended => \A i \in Root : \A p \in (index \cap Within[i]) \ (touched \cup scan.rules[i]) :
      p \in Files(scan)

\* What is asked for is complete: every link the walk comes to, covered or
\* not; every file over the limit the index does not list; and, of what a
\* capture would look at, all it could not read (scope.rs, scan_report).
ReportIsComplete ==
    scan.stage = "reported" => \A i \in Root : \A p \in Walked[i] \ (touched \cup scan.rules[i]) :
      /\ tree[p].kind = "link" => IsDropped(p)
      /\ tree[p].kind = "large" => IsDropped(p) \/ p \in scan.indexed
      /\ tree[p].kind = "sealed" /\ p \in Files(scan) => IsDropped(p)

\* A path every root it lies beneath excludes is not looked at, unless the
\* caller named it.
IgnoredStaysOut ==
    Ended => \A p \in Files(scan) \ scan.known :
      \E i \in Root : p \in Within[i] \ scan.rules[i]
==============================================================================
