------------------------------- MODULE Rewind -------------------------------
(***************************************************************************)
(* Sessions capturing one working directory, rewinding it and undoing the  *)
(* rewind, while people and other programs go on editing the same files.   *)
(*                                                                         *)
(* A restore is a process of its own.  It resolves what it is going to,    *)
(* decides what to look at, waits for the session's lock (lock.rs), takes  *)
(* the rescue capture, plans, touches one file at a time, and files or     *)
(* spends the undo record.  Anything may happen between two of these       *)
(* steps: another session's capture, another restore, an edit, a change of *)
(* the ignore rules, a crash.  A declaration reads the file first and      *)
(* attaches what it read later, under the lock.                            *)
(*                                                                         *)
(* A capture reads each path once.  Reads of different paths commute with  *)
(* edits of others, so a capture is one step.  How its writes to the store *)
(* interleave with collection, and where a crash cuts them short, is the   *)
(* subject of module Store; every manifest named here is taken to be there.*)
(*                                                                         *)
(* Fields marked `history' and the variable past record what happened so   *)
(* that properties can speak of it; no action reads them.                  *)
(***************************************************************************)
EXTENDS Manifests, Naturals, FiniteSets, SequencesExt

CONSTANTS
    Session,
    Turn,
    Proc,       \* processes that may be restoring
    NoSession,  \* Rewind { undo_for: None }
    Unstorable, \* what may stand at a path that no capture can record
    MaxUndo,    \* refs.rs, MAX_RESTORE_HISTORY
    MaxLog,     \* bound: entries per session log
    MaxEdits,   \* bound: changes made from outside
    MaxImages   \* bound: declarations read and not yet attached

ASSUME SessionAssumption == NoSession \notin Session \cup Proc
ASSUME BoundAssumption ==
    /\ MaxUndo \in Nat \ {0}
    /\ MaxLog \in Nat
    /\ MaxEdits \in Nat
    /\ MaxImages \in Nat
    /\ Unstorable \subseteq File \ Storable

VARIABLES
    disk,      \* the working directory
    ignored,   \* paths the ignore rules exclude at present
    log,       \* per session, the snapshot log: turn and manifest, in order
    declared,  \* per session, the paths its declarations registered
    index,     \* the turn index: which manifest a turn resolves to
    images,    \* what declarations have read and not yet attached
    undo,      \* per session, the undo stack
    proc,      \* what each restoring process is doing
    past,      \* history: everything each path has ever been
    edits      \* bound: outside changes so far

vars == <<disk, ignored, log, declared, index, images, undo, proc, past, edits>>

-----------------------------------------------------------------------------
(* Types. *)

\* The reserved turn a rescue capture is filed under (SAFETY_TURN_PREFIX).
SafetyTurn(m) == <<"safety", m>>
TurnKey == Turn \cup ({"safety"} \X Manifest)

LogEntry == [turn : TurnKey, manifest : Manifest]

\* A path about to be edited, what declare.rs found there, and how far its
\* declaration has come.
Image == [session : Session, turn : Turn, path : Path, file : File,
          stage : {"read", "keyed", "attached"}]

\* A RestoreRecord; the rest is history: the directory as that rewind found
\* it and left it, the paths it spared because its rules excluded them, and
\* whether it met with no failure and no interference.
UndoRecord == [target : Manifest, safety : Manifest,
               found : [Path -> File], left : [Path -> File],
               spared : SUBSET Path, clean : BOOLEAN]

NoFiles == [p \in Path |-> Missing]

NoRecord == [target |-> EmptyManifest, safety |-> EmptyManifest,
             found |-> NoFiles, left |-> NoFiles, spared |-> {}, clean |-> FALSE]

Process ==
    [stage : {"idle", "resolved", "surveyed", "applying"},
     kind : {"rewind", "undo"},
     session : Session \cup {NoSession},  \* who performs it
     owner : Session \cup {NoSession},    \* whose undo stack gains the record
     target : Manifest,
     scope : SUBSET Path,                 \* what the caller asks to look at
     protected : SUBSET Path,             \* what the rules it read exclude
     safety : Manifest,
     writes : SUBSET Path,                \* what the plan still has to write
     deletes : SUBSET Path,               \* ... and to remove
     conflicts : SUBSET Path,             \* what the undo reported as moved
     failed : SUBSET Path,                \* files that could not be changed
     reversing : UndoRecord,              \* history: the record an undo read
     before : [Path -> File],             \* history: disk at the rescue capture
     sinceCheck : SUBSET Path,            \* history: changed by others since
     sinceRescue : SUBSET Path]           \*   resolving, since the rescue

Idle ==
    [stage |-> "idle", kind |-> "rewind", session |-> NoSession,
     owner |-> NoSession, target |-> EmptyManifest, scope |-> {},
     protected |-> {}, safety |-> EmptyManifest, writes |-> {}, deletes |-> {},
     conflicts |-> {}, failed |-> {}, reversing |-> NoRecord,
     before |-> NoFiles, sinceCheck |-> {}, sinceRescue |-> {}]

\* One invariant for the shape of the state; keys of the index are turns, a
\* restore under way is some session's, and no undo stack outgrows its cap.
TypeOK ==
    /\ disk \in [Path -> File]
    /\ ignored \in SUBSET Path
    /\ log \in [Session -> Seq(LogEntry)]
    /\ declared \in [Session -> SUBSET Path]
    /\ DOMAIN index \subseteq TurnKey
    /\ \A t \in DOMAIN index : index[t] \in Manifest
    /\ images \subseteq Image
    /\ undo \in [Session -> Seq(UndoRecord)]
    /\ \A s \in Session : Len(undo[s]) <= MaxUndo
    /\ proc \in [Proc -> Process]
    /\ \A r \in Proc : proc[r].stage # "idle" => proc[r].session \in Session
    /\ past \in [Path -> SUBSET File]
    /\ edits \in Nat

-----------------------------------------------------------------------------
(* Helpers. *)

\* store.rs, latest_manifest.
Latest(s) == IF log[s] = <<>> THEN EmptyManifest ELSE Last(log[s]).manifest

\* store.rs, tracked_paths: every path this session's history mentions or that
\* it ever declared.
TrackedPaths(s) ==
    declared[s] \cup UNION {Observed(log[s][i].manifest) : i \in 1..Len(log[s])}

\* The session's lock, held by a restore from its rescue capture to its end.
Locked(s) == \E r \in Proc : proc[r].stage = "applying" /\ proc[r].session = s

Indexed(t, m) == [k \in DOMAIN index \cup {t} |-> IF k = t THEN m ELSE index[k]]

\* refs.append followed by turns.set_turn, as every capture ends.
Publish(s, t, m) ==
    /\ Len(log[s]) < MaxLog
    /\ log' = [log EXCEPT ![s] = Append(@, [turn |-> t, manifest |-> m])]
    /\ index' = Indexed(t, m)

\* p becomes f by the hand of `by`; every other restore under way finds p
\* changed behind its back.
Touch(p, f, by) ==
    /\ disk' = [disk EXCEPT ![p] = f]
    /\ past' = [past EXCEPT ![p] = @ \cup {f}]
    /\ proc' = [r \in Proc |->
                  IF r = by.who THEN by.state
                  ELSE IF proc[r].stage = "idle" THEN proc[r]
                  ELSE [proc[r] EXCEPT !.sinceCheck = @ \cup {p},
                                       !.sinceRescue = @ \cup {p}]]

Outsider == [who |-> NoSession, state |-> Idle]

-----------------------------------------------------------------------------
(* The world outside. *)

\* A person, an agent or another program writes, creates or removes a file.
Edit(p) ==
    /\ edits < MaxEdits
    /\ edits' = edits + 1
    /\ \E f \in (Storable \cup Unstorable) \ {disk[p]} :
          Touch(p, f, Outsider)
    /\ UNCHANGED <<ignored, log, declared, index, images, undo>>

\* The ignore file starts or stops excluding p.
EditIgnore(p) ==
    /\ edits < MaxEdits
    /\ edits' = edits + 1
    /\ ignored' = IF p \in ignored THEN ignored \ {p} ELSE ignored \cup {p}
    /\ proc' = [r \in Proc |->
                  IF proc[r].stage = "idle" THEN proc[r]
                  ELSE [proc[r] EXCEPT !.sinceCheck = @ \cup {p}]]
    /\ UNCHANGED <<disk, log, declared, index, images, undo, past>>

-----------------------------------------------------------------------------
(* Recording. *)

\* WorkspaceStore::checkpoint, of whatever part of the tree the scan chose.
\* The scan leaves ignored paths out; a declared path is captured whatever the
\* rules have come to say of it.
Checkpoint(s, t) ==
    /\ ~ Locked(s)
    /\ \E observed \in SUBSET ((Path \ ignored) \cup declared[s]) :
          Publish(s, t, Captured(disk, observed))
    /\ UNCHANGED <<disk, ignored, declared, images, undo, proc, past, edits>>

\* The supplemental manifest attach_pre_edit appends for what it is told the
\* path held, or the latest one where it has nothing to add.
Attached(latest, p, found) ==
    IF p \in Recorded(latest) THEN latest
    ELSE IF found \in Regular THEN WithPreImage(latest, p, found.data)
    ELSE WithTombstone(latest, p)

\* The declare command reads what is about to be edited before it takes any
\* lock or looks at the ignore rules.  A read that fails for whatever reason is
\* taken to mean that there is no file, and Attached does not tell the reasons
\* apart.
DeclareRead(s, t, p) ==
    /\ Cardinality(images) < MaxImages
    /\ images' = images \cup {[session |-> s, turn |-> t, path |-> p,
                               file |-> disk[p], stage |-> "read"]}
    /\ UNCHANGED <<disk, ignored, log, declared, index, undo, proc, past, edits>>

\* declare_edits: a path the rules exclude is dropped, and one that is a link by
\* now goes on under the key of what stands behind it.
DeclareKey(i) ==
    /\ i.stage = "read"
    /\ LET kept == i.path \notin ignored /\ OwnKey(disk[i.path])
       IN  images' = (images \ {i})
                     \cup (IF kept THEN {[i EXCEPT !.stage = "keyed"]} ELSE {})
    /\ UNCHANGED <<disk, ignored, log, declared, index, undo, proc, past, edits>>

\* attach_pre_edit, under the lock, which mints the key anew: where the latest
\* manifest lacks the path, or its tombstone, a supplemental one is appended.
DeclareAttach(i) ==
    LET latest == Latest(i.session)
        extended == IF OwnKey(disk[i.path])
                    THEN Attached(latest, i.path, ThroughLinks(i.file)) ELSE latest
    IN  /\ i.stage = "keyed"
        /\ ~ Locked(i.session)
        /\ images' = (images \ {i}) \cup {[i EXCEPT !.stage = "attached"]}
        /\ \/ extended = latest /\ UNCHANGED <<log, index>>
           \/ extended # latest /\ Publish(i.session, i.turn, extended)
        /\ UNCHANGED <<disk, ignored, declared, undo, proc, past, edits>>

\* declare_paths, under the lock again: later captures keep watching the path.
DeclareWatch(i) ==
    /\ i.stage = "attached"
    /\ ~ Locked(i.session)
    /\ images' = images \ {i}
    /\ declared' = [declared EXCEPT ![i.session] = @ \cup {i.path}]
    /\ UNCHANGED <<disk, ignored, log, index, undo, proc, past, edits>>

\* The declaring process dies, or what it does next fails.
DeclareDrop(i) ==
    /\ images' = images \ {i}
    /\ UNCHANGED <<disk, ignored, log, declared, index, undo, proc, past, edits>>

\* WorkspaceStore::inherit_log: dst's log gains src's up to and including the
\* last entry for t, one append at a time, so that a crash leaves fewer of
\* them.  Only dst is locked, and the turn index is not written.
Fork(src, dst, t) ==
    LET holds(i) == log[src][i].turn = t IN
    /\ src # dst
    /\ ~ Locked(dst)
    /\ \/ /\ \A i \in 1..Len(log[src]) : ~ holds(i)
          /\ UNCHANGED log
       \/ \E cut \in 1..Len(log[src]) :
            /\ holds(cut)
            /\ \A i \in cut + 1..Len(log[src]) : ~ holds(i)
            /\ \E n \in 0..cut :
                 /\ Len(log[dst]) + n <= MaxLog
                 /\ log' = [log EXCEPT ![dst] = @ \o SubSeq(log[src], 1, n)]
    /\ UNCHANGED <<disk, ignored, declared, index, images, undo, proc, past, edits>>

-----------------------------------------------------------------------------
(* Restoring. *)

\* The restore command: the turn is resolved before any lock is taken.
ResolveRewind(r, s, t, owner) ==
    /\ proc[r].stage = "idle"
    /\ proc' = [proc EXCEPT ![r] =
                  [Idle EXCEPT !.stage = "resolved", !.kind = "rewind",
                               !.session = s, !.owner = owner,
                               !.target = index[t]]]
    /\ UNCHANGED <<disk, ignored, log, declared, index, images, undo, past, edits>>

\* The undo command: target and conflicts come from the top of the stack,
\* also before any lock is taken.
ResolveUndo(r, s) ==
    /\ proc[r].stage = "idle"
    /\ undo[s] # <<>>
    /\ LET record == Last(undo[s]) IN
         proc' = [proc EXCEPT ![r] =
                    [Idle EXCEPT !.stage = "resolved", !.kind = "undo",
                                 !.session = s, !.owner = s,
                                 !.target = record.safety,
                                 !.conflicts = Conflicts(record.target,
                                                  record.safety, disk, ignored),
                                 !.reversing = record]]
    /\ UNCHANGED <<disk, ignored, log, declared, index, images, undo, past, edits>>

\* What the rescue capture is asked to look at: the scan, everything the
\* session ever observed ...
Scope(s, scan) == scan \cup TrackedPaths(s)

\* Mutant of RescueScope: the caller is trusted to have asked for enough.
CallersScope(scope, target) == scope

\* ... and, whatever the caller asked for, the target's own paths.
RescueScope(scope, target) == scope \cup Observed(target)

\* restore_scope and load_ignore, read before the lock is taken.
Survey(r) ==
    /\ proc[r].stage = "resolved"
    /\ \E scan \in SUBSET (Path \ ignored) :
         proc' = [proc EXCEPT ![r].stage = "surveyed",
                              ![r].scope = Scope(proc[r].session, scan),
                              ![r].protected = ignored]
    /\ UNCHANGED <<disk, ignored, log, declared, index, images, undo, past, edits>>

\* restore_to up to the plan: take the lock, capture the rescue point, file
\* it in the performer's log, and compare it with the target.
Rescue(r) ==
    LET s == proc[r].session
        target == proc[r].target
        safety == Captured(disk, RescueScope(proc[r].scope, target))
    IN  /\ proc[r].stage = "surveyed"
        /\ ~ Locked(s)
        /\ Publish(s, SafetyTurn(target), safety)
        /\ proc' = [proc EXCEPT
                      ![r].stage = "applying",
                      ![r].safety = safety,
                      ![r].writes = Writes(target, safety, proc[r].protected),
                      ![r].deletes = Deletes(target, safety, proc[r].protected),
                      ![r].before = disk,
                      ![r].sinceRescue = {}]
        /\ UNCHANGED <<disk, ignored, declared, images, undo, past, edits>>

\* write_one succeeds: the file is replaced whole by a rename.
Write(r, p) ==
    /\ proc[r].stage = "applying"
    /\ p \in proc[r].writes
    /\ \E umask \in Mode :
         Touch(p, Written(proc[r].target.entries[p], disk[p], umask),
               [who |-> r, state |-> [proc[r] EXCEPT !.writes = @ \ {p}]])
    /\ UNCHANGED <<ignored, log, declared, index, images, undo, edits>>

\* apply_plan's removals follow its writes; a file already gone is no failure.
Delete(r, p) ==
    /\ proc[r].stage = "applying"
    /\ proc[r].writes = {}
    /\ p \in proc[r].deletes
    /\ Touch(p, Missing,
             [who |-> r, state |-> [proc[r] EXCEPT !.deletes = @ \ {p}]])
    /\ UNCHANGED <<ignored, log, declared, index, images, undo, edits>>

\* One file fails without stopping the rest.
Fail(r, p) ==
    /\ proc[r].stage = "applying"
    /\ \/ /\ p \in proc[r].writes
          /\ proc' = [proc EXCEPT ![r].writes = @ \ {p}, ![r].failed = @ \cup {p}]
       \/ /\ proc[r].writes = {}
          /\ p \in proc[r].deletes
          /\ disk[p] # Missing
          /\ proc' = [proc EXCEPT ![r].deletes = @ \ {p}, ![r].failed = @ \cup {p}]
    /\ UNCHANGED <<disk, ignored, log, declared, index, images, undo, past, edits>>

\* Mutant of Pushed: the cap is forgotten.
PushedUncapped(stack, record) == Append(stack, record)

\* refs.rs, push_restore: the oldest record falls off a full stack.
Pushed(stack, record) ==
    LET longer == Append(stack, record)
    IN  IF Len(longer) > MaxUndo THEN Tail(longer) ELSE longer

\* refs.rs, pop_restore.
Popped(stack) ==
    IF stack = <<>> THEN stack ELSE SubSeq(stack, 1, Len(stack) - 1)

Done(r) ==
    /\ proc[r].stage = "applying"
    /\ proc[r].writes = {}
    /\ proc[r].deletes = {}

\* A rewind is applied, in part or whole: its record goes to the session the
\* workspace is handed to.  That session's lock is not taken; Store has the
\* steps in which its log is created and its stack read and written back.
FinishRewind(r) ==
    /\ Done(r)
    /\ proc[r].kind = "rewind"
    /\ IF proc[r].owner = NoSession THEN UNCHANGED undo
       ELSE undo' = [undo EXCEPT ![proc[r].owner] =
                       Pushed(@, [target |-> proc[r].target,
                                  safety |-> proc[r].safety,
                                  found  |-> proc[r].before,
                                  left   |-> disk,
                                  spared |-> proc[r].protected,
                                  clean  |-> /\ proc[r].failed = {}
                                             /\ proc[r].sinceRescue = {}])]
    /\ proc' = [proc EXCEPT ![r] = Idle]
    /\ UNCHANGED <<disk, ignored, log, declared, index, images, past, edits>>

\* An undo is applied, in part or whole: the top of the stack is spent.
FinishUndo(r) ==
    /\ Done(r)
    /\ proc[r].kind = "undo"
    /\ undo' = [undo EXCEPT ![proc[r].session] = Popped(@)]
    /\ proc' = [proc EXCEPT ![r] = Idle]
    /\ UNCHANGED <<disk, ignored, log, declared, index, images, past, edits>>

\* The process dies, or gives up waiting for the lock.  The kernel drops its
\* lock with it; what it wrote stays.
Crash(r) ==
    /\ proc[r].stage # "idle"
    /\ proc' = [proc EXCEPT ![r] = Idle]
    /\ UNCHANGED <<disk, ignored, log, declared, index, images, undo, past, edits>>

-----------------------------------------------------------------------------

Init ==
    /\ disk \in [Path -> Storable]
    /\ ignored = {}
    /\ log = [s \in Session |-> <<>>]
    /\ declared = [s \in Session |-> {}]
    /\ index = <<>>
    /\ images = {}
    /\ undo = [s \in Session |-> <<>>]
    /\ proc = [r \in Proc |-> Idle]
    /\ past = [p \in Path |-> {disk[p]}]
    /\ edits = 0

Next ==
    \/ \E p \in Path : Edit(p) \/ EditIgnore(p)
    \/ \E s \in Session, t \in Turn :
          \/ Checkpoint(s, t)
          \/ \E p \in Path : DeclareRead(s, t, p)
          \/ \E dst \in Session : Fork(s, dst, t)
    \/ \E i \in images : DeclareKey(i)
    \/ \E i \in images : DeclareAttach(i)
    \/ \E i \in images : DeclareWatch(i)
    \/ \E i \in images : DeclareDrop(i)
    \/ \E r \in Proc :
          \/ \E s \in Session :
                \/ ResolveUndo(r, s)
                \/ \E t \in DOMAIN index, owner \in Session \cup {NoSession} :
                      ResolveRewind(r, s, t, owner)
          \/ Survey(r) \/ Rescue(r) \/ FinishRewind(r) \/ FinishUndo(r) \/ Crash(r)
          \/ \E p \in Path : Write(r, p) \/ Delete(r, p) \/ Fail(r, p)

Spec == Init /\ [][Next]_vars

-----------------------------------------------------------------------------
(* Properties. *)

\* Every manifest some log, index entry, undo record or restore still names.
Named ==
    (UNION {{log[s][i].manifest : i \in 1..Len(log[s])} : s \in Session})
    \cup {index[t] : t \in DOMAIN index}
    \cup (UNION {{undo[s][i].target : i \in 1..Len(undo[s])} : s \in Session})
    \cup (UNION {{undo[s][i].safety : i \in 1..Len(undo[s])} : s \in Session})
    \cup {proc[r].target : r \in Proc} \cup {proc[r].safety : r \in Proc}

\* A record states only what was observed (constitution II.4 and V): content
\* in a manifest was read at that path at some moment, and a tombstone's path
\* was at some moment empty.
RecordsAreTrue ==
    \A m \in Named, p \in Path :
        /\ p \in Recorded(m) =>
              \E f \in past[p] : /\ ThroughLinks(f) \in Regular
                                  /\ ThroughLinks(f).data = m.entries[p].data
        /\ p \in m.absent => Missing \in past[p]

\* Every restore is reversible before it begins (III.1, III.2): whatever a
\* restore has changed so far, the rescue capture holds as it was.  What no
\* capture can record is excepted, and what changed after the capture.
RescueCovers ==
    \A r \in Proc : proc[r].stage = "applying" =>
        \A p \in Path \ proc[r].sinceRescue :
            disk[p] # proc[r].before[p] /\ proc[r].before[p] \in Storable =>
                \/ proc[r].safety.entries[p] = proc[r].before[p]
                \/ p \in proc[r].safety.absent /\ proc[r].before[p] = Missing

\* The restore ends exactly where its target says: entries written, no file at
\* a tombstoned path (one that is both, one or the other), ignored and unknown
\* paths as they were.  Paths that failed or that others changed meanwhile are
\* excepted.
RestoreReachesTarget ==
    \A r \in Proc : Done(r) =>
        \A p \in Path \ (proc[r].failed \cup proc[r].sinceRescue) :
            LET target == proc[r].target IN
            IF p \in Observed(target) \ proc[r].protected
            THEN \/ p \in Recorded(target) /\ Matches(disk[p], target.entries[p])
                 \/ p \in target.absent /\ disk[p] \notin Regular
            ELSE disk[p] = proc[r].before[p]

\* A restore removes a file only where a capture once looked and found
\* nothing (II.1), so only where there has in fact been nothing.
RemovesOnlyWhatWasAbsent ==
    [][\A p \in Path :
          edits' = edits /\ disk[p] # Missing /\ disk'[p] = Missing
              => Missing \in past[p]]_vars

\* An undo that is about to replace or remove something other than what the
\* rewind left has said so (III.5), unless it changed after the undo looked.
Overwrites(r, p, changed(_, _)) ==
    /\ proc[r].stage = "applying"
    /\ proc[r].kind = "undo"
    /\ proc[r].reversing.clean
    /\ p \in proc[r].writes \cup proc[r].deletes
    /\ p \notin proc[r].sinceCheck
    /\ changed(disk[p], proc[r].reversing.left[p])

\* As a program that opens the path finds it: a link is what it leads to, and a
\* link to nothing is nothing.
OtherContent(now, left) ==
    LET a == ThroughLinks(now)
        b == ThroughLinks(left)
    IN  a # b /\ ~ (a \in Regular /\ b \in Regular /\ a.data = b.data)

\* A path that the target speaks of and the rewind spared is compared with what
\* the rewind would have made of it, and so is excepted.
ChangedContentIsReported ==
    \A r \in Proc, p \in Path :
        LET record == proc[r].reversing IN
        Overwrites(r, p, OtherContent) =>
            p \in proc[r].conflicts \cup (Observed(record.target) \cap record.spared)

\* A rewind can be taken back (III.1): an undo that met no failure and no
\* interference leaves each path its rewind had changed as that rewind found
\* it, whatever was rewound, captured or forked in between.  Where there was
\* nothing, something no capture can record may have come to stand.
UndoReturns ==
    \A r \in Proc : Done(r) /\ proc[r].kind = "undo" /\ proc[r].reversing.clean =>
        LET record == proc[r].reversing IN
        \A p \in Path \ (proc[r].failed \cup proc[r].sinceRescue \cup proc[r].protected) :
            record.left[p] # record.found[p] /\ record.found[p] \in Storable =>
                \/ disk[p] = record.found[p]
                \/ record.found[p] = Missing /\ disk[p] \notin Storable

=============================================================================
