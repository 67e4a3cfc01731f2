------------------------------ MODULE Collection ------------------------------
(***************************************************************************)
(* Collecting the whole store (collect.rs, sweep.rs): several workspaces    *)
(* keep records of their own and share one blob store; files are damaged    *)
(* and mended, writers die and leave half-written files, and a collection   *)
(* that meets any of it must take nothing a session still leads to and yet  *)
(* get to everything else in the end.                                       *)
(*                                                                          *)
(* Store has the finer grain (undo records one by one and how they are      *)
(* spent, forks, the moment between a sweep's look at a file and its        *)
(* unlink) within one workspace.  Here a sweep of one kind of file in one   *)
(* workspace is a step.  Every turn has a manifest of its own, so that its  *)
(* entry in the index is named after it.                                    *)
(***************************************************************************)
EXTENDS Naturals, FiniteSets, Sequences

CONSTANTS
    Session,
    Workspace,
    Home,       \* the workspace of each session
    Manifest,
    Blob,
    Holds,      \* the blobs each manifest names
    Finds,      \* the manifests a capture of each session may come to
    Heirs,      \* the sessions a rewind of each may hand its workspace to
    Shared,     \* the blob store, as against a workspace
    None,
    Fragile,    \* bound: the records that may be damaged
    MaxOps,     \* bound: captures, rewinds and deletes begun
    MaxFaults   \* bound: files damaged, processes killed

ASSUME HomeAssumption == Home \in [Session -> Workspace] /\ Shared \notin Workspace
ASSUME FindsAssumption == Finds \in [Session -> SUBSET Manifest]
ASSUME HeirsAssumption ==
    /\ Heirs \in [Session -> SUBSET Session]
    /\ \A s \in Session, o \in Session : o \in Heirs[s] => Home[o] = Home[s]
ASSUME HoldsFunction == Holds \in [Manifest -> SUBSET Blob]
ASSUME BoundsAreNumbers == MaxOps \in Nat /\ MaxFaults \in Nat

VARIABLES
    disk,       \* the files there are
    log,        \* what each session's log file says: its manifests, in order
    undo,       \* each session's undo records: what was rewound to, and what
                \*   was captured before
    fresh,      \* files younger than GC_GRACE; nobody asks for a log's age
    damaged,    \* files that cannot be read or parsed
    partitions, \* workspaces with a directory
    writer,     \* the capture under way in each session, under its lock
    gc,         \* the collection under way
    ops, faults

vars == <<disk, log, undo, fresh, damaged, partitions, writer, gc, ops, faults>>

------------------------------------------------------------------------------
(* Files *)

FileOf(where, kind, name, tmp) ==
    [dir |-> where, kind |-> kind, of |-> name, tmp |-> tmp]

BlobFile(b) == FileOf(Shared, "blob", b, FALSE)
ManifestFile(w, m) == FileOf(w, "manifest", m, FALSE)
TurnFile(w, m) == FileOf(w, "turn", m, FALSE)
LogFile(s) == FileOf(Home[s], "log", s, FALSE)
UndoFile(s) == FileOf(Home[s], "undo", s, FALSE)

Record == {ManifestFile(w, m) : w \in Workspace, m \in Manifest}
            \cup {TurnFile(w, m) : w \in Workspace, m \in Manifest}
            \cup {LogFile(s) : s \in Session} \cup {UndoFile(s) : s \in Session}
Content == {BlobFile(b) : b \in Blob}

\* tmp_name: no two writers share one.
Tmp(f, s) == [f EXCEPT !.tmp = s]
Residue == {Tmp(f, s) : f \in Record \cup Content, s \in Session}

File == Record \cup Content \cup Residue

ASSUME NoneAssumption == None \notin Manifest \cup Session \cup Record \cup Content
ASSUME ResidueAssumption == FALSE \notin Session
ASSUME FragileAssumption == Fragile \subseteq Record

Manifests(w) == {m \in Manifest : ManifestFile(w, m) \in disk}
Turns(w) == {m \in Manifest : TurnFile(w, m) \in disk}
Logs(w) == {s \in Session : Home[s] = w /\ LogFile(s) \in disk}
Undos(w) == {s \in Session : Home[s] = w /\ UndoFile(s) \in disk}
Named(s) == IF LogFile(s) \in disk THEN {log[s][i] : i \in DOMAIN log[s]} ELSE {}

UndoRecord == [target : Manifest, safety : Manifest]
Held(s) == {r.target : r \in undo[s]} \cup {r.safety : r \in undo[s]}

Latest(s) == IF LogFile(s) \in disk /\ log[s] # <<>> THEN {log[s][Len(log[s])]} ELSE {}

------------------------------------------------------------------------------
(* Captures *)

\* What is being captured; for a rewind, what it goes back to and the session
\* it hands the workspace to; what is yet to be put in place, and the file being
\* written; and (history) what was made young on the way.
Writer == [manifest : Manifest \cup {None}, target : Manifest \cup {None},
           heir : Session \cup {None}, todo : SUBSET (Record \cup Content),
           writing : Record \cup Content \cup {None}, touched : SUBSET File]

NotWriting == [manifest |-> None, target |-> None, heir |-> None, todo |-> {},
               writing |-> None, touched |-> {}]

Writing(s) == writer[s].manifest # None

\* A collection: the workspaces still to do and the one in hand; what its logs
\* name; the blobs marked and those still to judge; whether every manifest could
\* be read; and (history) files that cannot settle before this pass is over,
\* since GC_GRACE outlasts any two operations that overlap.
Gc == [stage : {"idle", "next", "orphans", "turns", "manifests", "residue", "mark", "blobs"},
       left : SUBSET Workspace, at : Workspace \cup {None},
       live : SUBSET Manifest, marked : SUBSET Blob, todo : SUBSET Blob,
       complete : BOOLEAN, shield : SUBSET File]

NoGc == [stage |-> "idle", left |-> {}, at |-> None, live |-> {}, marked |-> {},
         todo |-> {}, complete |-> TRUE, shield |-> {}]

Shielding(g, files) ==
    IF g.stage = "idle" THEN g ELSE [g EXCEPT !.shield = @ \cup files]

\* A capture needs its session's log and latest manifest to be readable.  It
\* takes over from the latest, unread and untouched, any blob whose file looks
\* unchanged.
Begin(s, m, target, heir) ==
    LET w == Home[s] IN
    /\ ~ Writing(s) /\ ops < MaxOps
    /\ LogFile(s) \notin damaged
    /\ \A l \in Latest(s) : ManifestFile(w, l) \in disk \ damaged
    /\ m \in Finds[s] \ Named(s)
    /\ \E reused \in SUBSET (Holds[m] \cap UNION {Holds[l] : l \in Latest(s)}) :
         writer' = [writer EXCEPT ![s] =
           [manifest |-> m, target |-> target, heir |-> heir,
            writing |-> None, touched |-> {},
            todo |-> {BlobFile(b) : b \in Holds[m] \ reused}
                       \cup {ManifestFile(w, m), LogFile(s), TurnFile(w, m)}
                       \cup {UndoFile(o) : o \in {heir} \ {None}}]]
    /\ partitions' = partitions \cup {w}
    /\ ops' = ops + 1
    /\ UNCHANGED <<disk, log, undo, fresh, damaged, gc, faults>>

Capture(s, m) == Begin(s, m, None, None)

\* A rewind captures too, and then files an undo record under its heir.
Rewind(s, m, target, heir) ==
    /\ {TurnFile(Home[s], target), ManifestFile(Home[s], target)} \subseteq disk \ damaged
    /\ Begin(s, m, target, heir)

\* Blobs, then the manifest, then the log, then the turn's entry; and in the end
\* the undo record.
Rank(f) == CASE f.kind = "blob" -> 1 [] f.kind = "manifest" -> 2
             [] f.kind = "log" -> 3 [] f.kind = "turn" -> 4 [] f.kind = "undo" -> 5

Due(s, f) ==
    /\ writer[s].writing = None
    /\ f \in writer[s].todo
    /\ \A g \in writer[s].todo : Rank(f) <= Rank(g)

\* RefStore::ensure, in one step: the heir gets an empty log if it has none.
Ensure(s) ==
    LET o == writer[s].heir
        f == LogFile(o)
    IN /\ o # None
       /\ Due(s, UndoFile(o)) /\ f \notin disk
       /\ disk' = disk \cup {f}
       /\ log' = [log EXCEPT ![o] = <<>>]
       /\ UNCHANGED <<undo, fresh, damaged, partitions, writer, gc, ops, faults>>

\* Content that is there is not written again ...
Adopts(f) == f.kind \in {"blob", "manifest"} /\ f \in disk

\* ... but made young.
Freshen(s, f) ==
    /\ Due(s, f) /\ Adopts(f)
    /\ writer' = [writer EXCEPT ![s].todo = @ \ {f}, ![s].touched = @ \cup {f}]
    /\ fresh' = fresh \cup {f}
    /\ gc' = Shielding(gc, {f})
    /\ UNCHANGED <<disk, log, undo, damaged, partitions, ops, faults>>

\* Everything else is written beside its place, ...
WriteTmp(s, f) ==
    /\ Due(s, f) /\ ~ Adopts(f)
    /\ ~ (f.kind \in {"log", "undo"} /\ f \in damaged)
    /\ f.kind = "undo" => LogFile(f.of) \in disk
    /\ writer' = [writer EXCEPT ![s].writing = f,
                                ![s].touched = @ \cup {f, Tmp(f, s)}]
    /\ disk' = disk \cup {Tmp(f, s)}
    /\ fresh' = fresh \cup {Tmp(f, s)}
    /\ gc' = Shielding(gc, {f, Tmp(f, s)})
    /\ UNCHANGED <<log, undo, damaged, partitions, ops, faults>>

\* Mutant of Rename: the file stays the one being written.
RenameAgain(s) ==
    LET f == writer[s].writing IN
    /\ f # None
    /\ Tmp(f, s) \in disk
    /\ disk' = (disk \ {Tmp(f, s)}) \cup {f}
    /\ writer' = [writer EXCEPT ![s].todo = @ \ {f}]
    /\ UNCHANGED <<log, undo, fresh, damaged, partitions, gc, ops, faults>>

\* ... and renamed into it.
Rename(s) ==
    LET f == writer[s].writing
        left == writer[s].todo \ {f}
    IN /\ f # None
       /\ Tmp(f, s) \in disk
       /\ disk' = (disk \ {Tmp(f, s)}) \cup {f}
       /\ fresh' = (fresh \ {Tmp(f, s)}) \cup ({f} \ {LogFile(s)})
       /\ damaged' = damaged \ {f}
       /\ log' = IF f # LogFile(s) THEN log
                 ELSE [log EXCEPT ![s] =
                         Append(IF f \in disk THEN @ ELSE <<>>, writer[s].manifest)]
       /\ undo' = IF f.kind # "undo" THEN undo
                  ELSE [undo EXCEPT ![writer[s].heir] = @ \cup
                          {[target |-> writer[s].target, safety |-> writer[s].manifest]}]
       /\ writer' = [writer EXCEPT ![s] =
                       IF left = {} THEN NotWriting
                       ELSE [@ EXCEPT !.todo = left, !.writing = None]]
       /\ gc' = Shielding(gc, {f})
       /\ UNCHANGED <<partitions, ops, faults>>

\* RefStore::append cannot read the log it is to extend, push_restore the undo
\* records: the operation fails.
Fail(s) ==
    /\ \/ LogFile(s) \in damaged /\ Due(s, LogFile(s))
       \/ \E o \in Session :
            /\ UndoFile(o) \in damaged /\ Due(s, UndoFile(o))
            /\ LogFile(o) \in disk
    /\ writer' = [writer EXCEPT ![s] = NotWriting]
    /\ UNCHANGED <<disk, log, undo, fresh, damaged, partitions, gc, ops, faults>>

\* A session is deleted with its undo records, if both can be read; what they
\* held is left to collection, as by a delete that dies there or finds another
\* log damaged (prune_sessions: Store).
Delete(s) ==
    /\ ~ Writing(s) /\ ops < MaxOps
    /\ LogFile(s) \in disk \ damaged
    /\ UndoFile(s) \notin damaged
    /\ disk' = disk \ {LogFile(s), UndoFile(s)}
    /\ fresh' = fresh \ {LogFile(s), UndoFile(s)}
    /\ log' = [log EXCEPT ![s] = <<>>]
    /\ undo' = [undo EXCEPT ![s] = {}]
    /\ ops' = ops + 1
    /\ UNCHANGED <<damaged, partitions, writer, gc, faults>>

------------------------------------------------------------------------------
(* Faults *)

\* Transient or for good.
Damage(f) ==
    /\ faults < MaxFaults
    /\ f \in (disk \cap Fragile) \ damaged
    /\ damaged' = damaged \cup {f}
    /\ faults' = faults + 1
    /\ UNCHANGED <<disk, log, undo, fresh, partitions, writer, gc, ops>>

Mend(f) ==
    /\ f \in damaged
    /\ damaged' = damaged \ {f}
    /\ UNCHANGED <<disk, log, undo, fresh, partitions, writer, gc, ops, faults>>

Kill(s) ==
    /\ Writing(s) /\ faults < MaxFaults
    /\ writer' = [writer EXCEPT ![s] = NotWriting]
    /\ faults' = faults + 1
    /\ UNCHANGED <<disk, log, undo, fresh, damaged, partitions, gc, ops>>

KillGc ==
    /\ gc.stage # "idle" /\ faults < MaxFaults
    /\ gc' = NoGc
    /\ faults' = faults + 1
    /\ UNCHANGED <<disk, log, undo, fresh, damaged, partitions, writer, ops>>

Settle(f) ==
    /\ f \in fresh \ gc.shield
    /\ \A s \in Session : f \notin writer[s].touched
    /\ fresh' = fresh \ {f}
    /\ UNCHANGED <<disk, log, undo, damaged, partitions, writer, gc, ops, faults>>

------------------------------------------------------------------------------
(* Collection *)

Removing(files) ==
    /\ disk' = disk \ files
    /\ fresh' = fresh \ files
    /\ damaged' = damaged \ files

\* collect_garbage: all_partitions.
Start ==
    /\ gc.stage = "idle"
    /\ gc' = [NoGc EXCEPT !.stage = "next", !.left = partitions,
                !.shield = UNION {writer[s].touched : s \in Session}]
    /\ UNCHANGED <<disk, log, undo, fresh, damaged, partitions, writer, ops, faults>>

\* Mutant of CollectPartition: a log that cannot be read ends the collection.
CollectPartitionAborting(w) ==
    /\ gc.stage = "next" /\ w \in gc.left
    /\ gc' = IF \E s \in Logs(w) : LogFile(s) \in damaged THEN NoGc
             ELSE [gc EXCEPT !.at = w, !.left = @ \ {w}, !.stage = "orphans",
                             !.live = UNION {Named(s) : s \in Logs(w)}]
    /\ UNCHANGED <<disk, log, undo, fresh, damaged, partitions, writer, ops, faults>>

\* roots_from_logs; one log that cannot be read, and no record may go.
CollectPartition(w) ==
    /\ gc.stage = "next" /\ w \in gc.left
    /\ gc' = [gc EXCEPT !.at = w, !.left = @ \ {w},
                !.stage = IF \E s \in Logs(w) : LogFile(s) \in damaged
                          THEN "residue" ELSE "orphans",
                !.live = UNION {Named(s) : s \in Logs(w)}]
    /\ UNCHANGED <<disk, log, undo, fresh, damaged, partitions, writer, ops, faults>>

\* Undo records of sessions without a log, of some age and readable.
Orphans(w) == {s \in Undos(w) \ Logs(w) : UndoFile(s) \notin fresh \cup damaged}

DropOrphans ==
    LET orphans == Orphans(gc.at) IN
    /\ gc.stage = "orphans"
    /\ Removing({UndoFile(s) : s \in orphans})
    /\ undo' = [s \in Session |-> IF s \in orphans THEN {} ELSE undo[s]]
    /\ gc' = [gc EXCEPT !.stage = "turns"]
    /\ UNCHANGED <<log, partitions, writer, ops, faults>>

\* Mutant of RetainTurns: undo records hold nothing.
RetainTurnsAlone ==
    LET w == gc.at
        stale == {TurnFile(w, m) : m \in Turns(w) \ gc.live} \ fresh
        kept == {m \in Turns(w) : TurnFile(w, m) \notin stale}
    IN /\ gc.stage = "turns"
       /\ Removing(stale)
       /\ gc' = [gc EXCEPT !.live = @ \cup kept,
                   !.stage = IF \E m \in kept : TurnFile(w, m) \in damaged
                             THEN "residue" ELSE "manifests"]
       /\ UNCHANGED <<log, undo, partitions, writer, ops, faults>>

\* retain_turns by name and age; what the entries left and the undo records name
\* is live too (all_manifest_ids), unless one of them cannot be read.
RetainTurns ==
    LET w == gc.at
        stale == {TurnFile(w, m) : m \in Turns(w) \ gc.live} \ fresh
        kept == {m \in Turns(w) : TurnFile(w, m) \notin stale}
        held == {TurnFile(w, m) : m \in kept} \cup {UndoFile(s) : s \in Undos(w)}
    IN /\ gc.stage = "turns"
       /\ Removing(stale)
       /\ gc' = [gc EXCEPT !.live = @ \cup kept \cup UNION {Held(s) : s \in Undos(w)},
                   !.stage = IF held \cap damaged # {} THEN "residue" ELSE "manifests"]
       /\ UNCHANGED <<log, undo, partitions, writer, ops, faults>>

SweepManifests ==
    LET w == gc.at IN
    /\ gc.stage = "manifests"
    /\ Removing({ManifestFile(w, m) : m \in Manifests(w) \ gc.live} \ fresh)
    /\ gc' = [gc EXCEPT !.stage = "residue"]
    /\ UNCHANGED <<log, undo, partitions, writer, ops, faults>>

\* Mutant of SettledResidue: whatever is half-written is taken for a leftover.
ResidueOfAnyAge(where) == {f \in disk \cap Residue : f.dir = where}

\* Half-written files of some age.
SettledResidue(where) == {f \in (disk \cap Residue) \ fresh : f.dir = where}

SweepResidue ==
    /\ gc.stage = "residue"
    /\ Removing(SettledResidue(gc.at))
    /\ gc' = [gc EXCEPT !.stage = "mark"]
    /\ UNCHANGED <<log, undo, partitions, writer, ops, faults>>

\* Mutant of Mark: a manifest that cannot be read is passed over.
MarkSkipping ==
    LET w == gc.at
        read == {m \in Manifests(w) : ManifestFile(w, m) \notin damaged}
    IN /\ gc.stage = "mark"
       /\ gc' = [gc EXCEPT !.stage = "next", !.at = None, !.live = {},
                   !.marked = @ \cup UNION {Holds[m] : m \in read}]
       /\ UNCHANGED <<disk, log, undo, fresh, damaged, partitions, writer, ops, faults>>

\* What the workspace's surviving manifests name is marked, if they can be read.
Mark ==
    LET w == gc.at
        read == {m \in Manifests(w) : ManifestFile(w, m) \notin damaged}
    IN /\ gc.stage = "mark"
       /\ gc' = [gc EXCEPT !.stage = "next", !.at = None, !.live = {},
                   !.marked = @ \cup UNION {Holds[m] : m \in read},
                   !.complete = @ /\ read = Manifests(w)]
       /\ UNCHANGED <<disk, log, undo, fresh, damaged, partitions, writer, ops, faults>>

\* Mutant of ListBlobs: half-written blobs are nobody's.
ListBlobsOnly ==
    /\ gc.stage = "next" /\ gc.left = {}
    /\ gc' = IF gc.complete
             THEN [gc EXCEPT !.stage = "blobs", !.todo = {b \in Blob : BlobFile(b) \in disk}]
             ELSE NoGc
    /\ UNCHANGED <<disk, log, undo, fresh, damaged, partitions, writer, ops, faults>>

\* Mutant of ListBlobs: a mark that found nothing is taken for one that failed.
ListBlobsIfAnyMarked ==
    /\ gc.stage = "next" /\ gc.left = {}
    /\ Removing(SettledResidue(Shared))
    /\ gc' = IF gc.complete /\ gc.marked # {}
             THEN [gc EXCEPT !.stage = "blobs", !.todo = {b \in Blob : BlobFile(b) \in disk}]
             ELSE NoGc
    /\ UNCHANGED <<log, undo, partitions, writer, ops, faults>>

\* After the last workspace.  No blob goes unless every manifest was read.
ListBlobs ==
    /\ gc.stage = "next" /\ gc.left = {}
    /\ Removing(SettledResidue(Shared))
    /\ gc' = IF gc.complete
             THEN [gc EXCEPT !.stage = "blobs", !.todo = {b \in Blob : BlobFile(b) \in disk}]
             ELSE NoGc
    /\ UNCHANGED <<log, undo, partitions, writer, ops, faults>>

SweepBlob(b) ==
    /\ gc.stage = "blobs" /\ b \in gc.todo
    /\ Removing(IF b \in gc.marked THEN {} ELSE {BlobFile(b)} \ fresh)
    /\ gc' = [gc EXCEPT !.todo = @ \ {b}]
    /\ UNCHANGED <<log, undo, partitions, writer, ops, faults>>

Finish ==
    /\ gc.stage = "blobs" /\ gc.todo = {}
    /\ gc' = NoGc
    /\ UNCHANGED <<disk, log, undo, fresh, damaged, partitions, writer, ops, faults>>

------------------------------------------------------------------------------

Init ==
    /\ disk = {} /\ fresh = {} /\ damaged = {} /\ partitions = {}
    /\ log = [s \in Session |-> <<>>]
    /\ undo = [s \in Session |-> {}]
    /\ writer = [s \in Session |-> NotWriting]
    /\ gc = NoGc
    /\ ops = 0 /\ faults = 0

Write(s) ==
    \/ \E f \in writer[s].todo : Freshen(s, f) \/ WriteTmp(s, f)
    \/ Ensure(s) \/ Rename(s) \/ Fail(s)

Collecting ==
    \/ Start
    \/ \E w \in Workspace : CollectPartition(w)
    \/ DropOrphans \/ RetainTurns \/ SweepManifests \/ SweepResidue \/ Mark \/ ListBlobs
    \/ \E b \in Blob : SweepBlob(b)
    \/ Finish

Faulting ==
    \/ \E f \in disk : Damage(f) \/ Mend(f)
    \/ \E s \in Session : Kill(s)
    \/ KillGc

Next ==
    \/ \E s \in Session, m \in Manifest :
          \/ Capture(s, m)
          \/ \E target \in Manifest, heir \in Heirs[s] : Rewind(s, m, target, heir)
    \/ \E s \in Session : Write(s) \/ Delete(s)
    \/ Faulting
    \/ \E f \in disk : Settle(f)
    \/ Collecting

\* Captures and rewinds that began go on; someone collects again and again; time passes.
Fairness ==
    /\ \A s \in Session : WF_vars(Write(s))
    /\ WF_vars(Collecting)
    /\ WF_vars(\E f \in disk : Settle(f))

Spec == Init /\ [][Next]_vars /\ Fairness

------------------------------------------------------------------------------
(* Properties *)

\* The shape of the state; a capture is writing only what it has yet to write.
TypeOK ==
    /\ disk \subseteq File
    /\ fresh \subseteq disk /\ damaged \subseteq disk
    /\ log \in [Session -> Seq(Manifest)]
    /\ undo \in [Session -> SUBSET UndoRecord]
    /\ partitions \subseteq Workspace
    /\ writer \in [Session -> Writer]
    /\ \A s \in Session : writer[s].writing \in writer[s].todo \cup {None}
    /\ gc \in Gc
    /\ gc.left \subseteq partitions /\ gc.at \in partitions \cup {None}
    /\ ops \in 0 .. MaxOps /\ faults \in 0 .. MaxFaults

\* Whatever cannot be read just then, in whichever workspace, and whoever was
\* killed halfway: what a session's log names is there, with all its content
\* (collect.rs, `running it changes nothing anyone can observe').
WhatLogsNameIsThere ==
    \A s \in Session : \A m \in Named(s) :
      /\ ManifestFile(Home[s], m) \in disk
      /\ \A b \in Holds[m] : BlobFile(b) \in disk

\* Nor what an undo would go back to, be the session that captured it deleted
\* since (refs.rs, all_manifest_ids: undo records are roots).
WhatUndosNeedIsThere ==
    \A s \in Session : \A r \in undo[s] :
      /\ ManifestFile(Home[s], r.safety) \in disk
      /\ \A b \in Holds[r.safety] : BlobFile(b) \in disk

\* A half-written file is never swept from under its writer: no rename fails
\* (sweep.rs, sweep_residue).
WritersKeepTheirFiles ==
    \A s \in Session : writer[s].writing # None => Tmp(writer[s].writing, s) \in disk

\* Records of a workspace that no log of it leads to, nor an undo record of a
\* session that has a log; undo records of sessions without one.
Unreached(w) ==
    LET logged == UNION {Named(s) : s \in Logs(w)}
        undoable == UNION {Held(s) : s \in Logs(w) \cap Undos(w)}
    IN {ManifestFile(w, m) : m \in Manifest \ (logged \cup undoable)}
         \cup {TurnFile(w, m) : m \in Manifest \ logged}
         \cup {UndoFile(s) : s \in Undos(w) \ Logs(w)}

RootsDamaged(w) ==
    \E f \in damaged : f.dir = w /\ f.kind \in {"log", "turn", "undo"}

\* Records nothing leads to are gone in the end, and damage delays only what
\* it makes uncertain: they wait for the logs, the index and the undo records
\* of their own workspace (sweep.rs, collect_partition; refs.rs,
\* all_manifest_ids).
RecordsAreReclaimed ==
    \A w \in Workspace :
      (<>[](~ RootsDamaged(w))) => <>[](disk \cap Unreached(w) = {})

\* Half-written files are gone in the end and wait for nothing: neither dead
\* writers nor files that cannot be read keep them (sweep.rs, sweep_residue).
ResidueIsReclaimed == <>[](disk \cap Residue = {})

\* Blobs no manifest of any workspace names.
Unnamed ==
    {BlobFile(b) : b \in Blob
       \ UNION {UNION {Holds[m] : m \in Manifests(w)} : w \in Workspace}}

\* Content is gone in the end once nothing names it.  It waits for the
\* manifests of every workspace to be readable, and for those alone
\* (collect.rs, the `complete' flag).
ContentIsReclaimed ==
    (<>[](\A f \in damaged : f.kind # "manifest")) => <>[](disk \cap Unnamed = {})
==============================================================================
