------------------------------ MODULE Manifests ------------------------------
(***************************************************************************)
(* What filesnap records about a file, and the arithmetic of a restore.    *)
(*                                                                         *)
(* A manifest says of each path it was asked about either what the file    *)
(* held (an entry) or that nothing was there (a tombstone), and says       *)
(* nothing of any other path.  Capture, the plan that moves one recorded   *)
(* state to another, and the check an undo makes before it overwrites      *)
(* anything are functions of manifests and of the disk; they are defined   *)
(* here without state, and Rewind runs them.                               *)
(*                                                                         *)
(* Contents stand for their SHA-256, and a manifest for its id: both       *)
(* stores are content-addressed, so an id names exactly one value.  Paths  *)
(* are the canonical keys scope.rs mints.  The stat cache is left out      *)
(* here: a capture records what the disk holds.                            *)
(*                                                                         *)
(* A capture looks at a path itself (symlink_metadata) and passes over a   *)
(* symbolic link; fs::read, fs::metadata and Path::exists look through it. *)
(* A link is modelled with what stands behind it, taken to be none of the  *)
(* paths here and never to change.  A path that cannot even be looked at   *)
(* (permissions, a loop) behaves as a link to nothing.                     *)
(***************************************************************************)

CONSTANTS
    Path,       \* canonical path keys
    Content,    \* file contents, each standing for its hash
    Mode,       \* permission bits
    NoMode,     \* FileEntry::mode = None: permissions never observed
    NoEntry,    \* a path the manifest holds no entry for
    Missing,    \* nothing at the path
    Opaque      \* a directory, or a file that cannot be read

Regular == [data : Content, mode : Mode]

\* A symbolic link: what stands behind it, and its own permissions.
Link == [to : Regular \cup {Missing, Opaque}, mode : Mode]

\* What a capture can record: a file, or its absence.
Storable == Regular \cup {Missing}

File == Storable \cup {Opaque} \cup Link
Entry == [data : Content, mode : Mode \cup {NoMode}]

Manifest == [entries : [Path -> Entry \cup {NoEntry}], absent : SUBSET Path]

ASSUME DistinctMarkers ==
    /\ NoMode \notin Mode
    /\ NoEntry \notin Entry
    /\ Missing # Opaque
    /\ {Missing, Opaque} \cap (Regular \cup Link) = {}
    /\ Regular \cap Link = {}

\* What a read of the path finds, and whether the path's canonical key is its
\* own (scope.rs, canonical_key) and not that of what stands behind it.
ThroughLinks(file) == IF file \in Link THEN file.to ELSE file
OwnKey(file) == file \in Link => file.to = Missing

\* Path::exists.
Exists(file) == ThroughLinks(file) # Missing

EmptyManifest == [entries |-> [p \in Path |-> NoEntry], absent |-> {}]

Recorded(m) == {p \in Path : m.entries[p] # NoEntry}

\* The paths a manifest has an opinion about.
Observed(m) == Recorded(m) \cup m.absent

-----------------------------------------------------------------------------
(* Recording. *)

\* Mutants of Captured: absence inferred from not having been asked about, and
\* a vanished path passed over instead of recorded.
CapturedByInference(disk, observed) ==
    [entries |-> [p \in Path |-> IF p \in observed /\ disk[p] \in Regular
                                 THEN disk[p] ELSE NoEntry],
     absent  |-> {p \in Path : ~ (p \in observed /\ disk[p] \in Regular)}]

CapturedWithoutTombstones(disk, observed) ==
    [entries |-> [p \in Path |-> IF p \in observed /\ disk[p] \in Regular
                                 THEN disk[p] ELSE NoEntry],
     absent  |-> {}]

\* checkpoint.rs, capture_at: a regular file becomes an entry, a vanished
\* path a tombstone, and anything else is dropped: neither.
Captured(disk, observed) ==
    [entries |-> [p \in Path |-> IF p \in observed /\ disk[p] \in Regular
                                 THEN disk[p] ELSE NoEntry],
     absent  |-> {p \in observed : disk[p] = Missing}]

\* store.rs, attach_pre_edit_locked, for content the edit is about to
\* replace.  No stat stands behind it, so the mode is unknown; the path's
\* tombstone, if the latest manifest has one, stays.
WithPreImage(m, p, c) ==
    [m EXCEPT !.entries[p] = [data |-> c, mode |-> NoMode]]

\* The same, for a path the edit is about to create.
WithTombstone(m, p) == [m EXCEPT !.absent = @ \cup {p}]

-----------------------------------------------------------------------------
(* Restoring. *)

\* Mode counts only where both sides observed one.
ModesClash(a, b) == a # NoMode /\ b # NoMode /\ a # b

\* Mutant of Differs: permissions are not compared.
DiffersInContent(cur, entry) == cur = NoEntry \/ cur.data # entry.data

Differs(cur, entry) ==
    \/ cur = NoEntry
    \/ cur.data # entry.data
    \/ ModesClash(cur.mode, entry.mode)

\* restore.rs, plan_restore: what to write ...
Writes(target, current, ignored) ==
    {p \in Recorded(target) \ ignored :
        Differs(current.entries[p], target.entries[p])}

\* Mutant of Deletes: whatever the target does not list.
DeletesUnlisted(target, current, ignored) ==
    (Recorded(current) \ Recorded(target)) \ ignored

\* ... and what to remove: only what the target looked for and did not find.
Deletes(target, current, ignored) ==
    (Recorded(current) \cap target.absent) \ ignored

\* write_one: the file a write leaves where `was` stood.  An entry of unknown
\* mode keeps the permissions it finds, or takes `umask` where it finds none.
Written(entry, was, umask) ==
    [data |-> entry.data,
     mode |-> IF entry.mode # NoMode THEN entry.mode
              ELSE IF ThroughLinks(was) \in Regular THEN ThroughLinks(was).mode
              ELSE umask]

\* The file is what the entry says, the entry's permissions included if known.
Matches(file, entry) ==
    /\ file \in Regular
    /\ ~ ModesClash(entry.mode, file.mode)
    /\ file.data = entry.data

\* store.rs, still_matches: a link's own permissions, and the content behind it.
StillMatches(file, entry) ==
    /\ ThroughLinks(file) \in Regular
    /\ ~ ModesClash(entry.mode, file.mode)
    /\ ThroughLinks(file).data = entry.data

\* Mutant of Conflicts: paths the rewind's target says nothing of go unchecked.
ConflictsWithTarget(expected, rescue, disk, ignored) ==
    {p \in Path \ ignored :
        \/ p \in Recorded(expected) /\ ~ StillMatches(disk[p], expected.entries[p])
        \/ p \in expected.absent /\ Exists(disk[p])}

\* store.rs, undo_conflicts: what no longer looks the way the rewind to
\* `expected` left it.  Paths only the rescue knows are compared against the
\* rescue itself, since that rewind did not touch them.
Conflicts(expected, rescue, disk, ignored) ==
    {p \in Path \ ignored :
        \/ p \in Recorded(expected) /\ ~ StillMatches(disk[p], expected.entries[p])
        \/ p \in expected.absent /\ Exists(disk[p])
        \/ /\ p \notin Observed(expected)
           /\ \/ p \in Recorded(rescue) /\ ~ StillMatches(disk[p], rescue.entries[p])
              \/ p \in rescue.absent /\ Exists(disk[p])}

=============================================================================
