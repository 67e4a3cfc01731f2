---------------------------- MODULE RewindProofs ----------------------------
(***************************************************************************)
(* Proofs about Rewind, for every set of paths, contents, sessions and     *)
(* processes.                                                              *)
(***************************************************************************)
EXTENDS Rewind, TLAPS

-----------------------------------------------------------------------------
(* Manifests. *)

\* A manifest observes paths only.
LEMMA ObservedPaths ==
    ASSUME NEW m \in Manifest PROVE Observed(m) \subseteq Path
BY DEF Observed, Recorded, Manifest

\* The empty manifest is a manifest that observes nothing.
LEMMA EmptyManifestType ==
    EmptyManifest \in Manifest /\ Recorded(EmptyManifest) = {} /\ EmptyManifest.absent = {}
BY DEF EmptyManifest, Manifest, Recorded

\* A capture of any directory is a manifest.
LEMMA CapturedType ==
    ASSUME NEW d \in [Path -> File], NEW observed \in SUBSET Path
    PROVE  Captured(d, observed) \in Manifest
BY DEF Captured, Manifest, Entry, Regular

\* What a declaration attaches is a manifest.
LEMMA AttachedType ==
    ASSUME NEW m \in Manifest, NEW p \in Path, NEW f
    PROVE  Attached(m, p, f) \in Manifest
<1>1. CASE p \in Recorded(m)
  BY <1>1 DEF Attached
<1>2. CASE p \notin Recorded(m) /\ f \in Regular
  <2>1. [data |-> f.data, mode |-> NoMode] \in Entry
    BY <1>2 DEF Entry, Regular
  <2> QED
    BY <1>2, <2>1 DEF Attached, WithPreImage, Manifest
<1>3. CASE p \notin Recorded(m) /\ f \notin Regular
  BY <1>3 DEF Attached, WithTombstone, Manifest
<1> QED
  BY <1>1, <1>2, <1>3

\* What a restore writes is a regular file.
LEMMA WrittenType ==
    ASSUME NEW entry \in Entry, NEW was, NEW umask \in Mode
    PROVE  Written(entry, was, umask) \in Regular
<1>1. ThroughLinks(was) \in Regular => ThroughLinks(was).mode \in Mode
  BY DEF Regular
<1> QED
  BY <1>1 DEF Written, Entry, Regular

\* What a capture can record is a file or nothing, never a link.
LEMMA StorableFiles ==
    /\ Storable \subseteq File /\ Regular \subseteq Storable
    /\ Missing \in Storable /\ Missing \notin Regular /\ Opaque \notin Storable
    /\ \A f \in Storable : f \notin Link /\ ThroughLinks(f) = f
<1>1. \A f \in Storable : f \notin Link
  BY DistinctMarkers DEF Storable
<1> QED
  BY <1>1, DistinctMarkers DEF Storable, File, ThroughLinks

-----------------------------------------------------------------------------
(* Types. *)

\* An idle process and the empty record have their types.
LEMMA IdleType == Idle \in Process /\ NoRecord \in UndoRecord /\ NoFiles \in [Path -> File]
<1>1. NoFiles \in [Path -> File]
  BY StorableFiles DEF NoFiles
<1>2. NoRecord \in UndoRecord
  BY <1>1, EmptyManifestType DEF NoRecord, UndoRecord
<1>3. Idle \in Process
  BY <1>1, <1>2, EmptyManifestType DEF Idle, Process
<1> QED
  BY <1>1, <1>2, <1>3

\* The latest manifest and the tracked paths of a session.
LEMMA LatestType ==
    ASSUME TypeOK, NEW s \in Session
    PROVE  Latest(s) \in Manifest /\ TrackedPaths(s) \subseteq Path
<1>1. log[s] \in Seq(LogEntry)
  BY DEF TypeOK
<1>2. Latest(s) \in Manifest
  <2>1. CASE log[s] = <<>>
    BY <2>1, EmptyManifestType DEF Latest
  <2>2. CASE log[s] # <<>>
    <3>1. Last(log[s]) \in LogEntry
      BY <1>1, <2>2 DEF Last
    <3> QED
      BY <2>2, <3>1 DEF Latest, LogEntry
  <2> QED
    BY <2>1, <2>2
<1>3. \A i \in 1..Len(log[s]) : log[s][i].manifest \in Manifest
  <2>1. \A i \in 1..Len(log[s]) : log[s][i] \in LogEntry
    BY <1>1
  <2>2. \A e \in LogEntry : e.manifest \in Manifest
    BY DEF LogEntry
  <2> QED
    BY <2>1, <2>2
<1>4. TrackedPaths(s) \subseteq Path
  <2>1. declared[s] \subseteq Path
    BY DEF TypeOK
  <2>2. \A i \in 1..Len(log[s]) : Observed(log[s][i].manifest) \subseteq Path
    BY <1>3, ObservedPaths
  <2> QED
    BY <2>1, <2>2 DEF TrackedPaths
<1> QED
  BY <1>2, <1>4

\* Publishing a manifest keeps log and index in their types.
LEMMA PublishType ==
    ASSUME TypeOK, NEW s \in Session, NEW t \in TurnKey, NEW m \in Manifest,
           Publish(s, t, m)
    PROVE  /\ log' \in [Session -> Seq(LogEntry)]
           /\ DOMAIN index' \subseteq TurnKey
           /\ \A k \in DOMAIN index' : index'[k] \in Manifest
<1>1. [turn |-> t, manifest |-> m] \in LogEntry
  BY DEF LogEntry
<1>2. log' \in [Session -> Seq(LogEntry)]
  BY <1>1 DEF TypeOK, Publish
<1>3. /\ DOMAIN index' \subseteq TurnKey
      /\ \A k \in DOMAIN index' : index'[k] \in Manifest
  BY DEF TypeOK, Publish, Indexed
<1> QED
  BY <1>2, <1>3 DEF TypeOK, Publish

\* A process that restores is some session's.
Performed(x) == x.stage # "idle" => x.session \in Session

\* What other hands do to a restore under way leaves it one.
Disturbed(x, p) == [x EXCEPT !.sinceCheck = @ \cup {p}, !.sinceRescue = @ \cup {p}]

\* A restore whose file someone else changed is still a restore.
LEMMA DisturbedType ==
    ASSUME NEW x \in Process, NEW p \in Path
    PROVE  /\ Disturbed(x, p) \in Process
           /\ Disturbed(x, p).stage = x.stage
           /\ Disturbed(x, p).session = x.session
<1>1. Disturbed(x, p) \in Process
  BY DEF Disturbed, Process
<1>2. Disturbed(x, p).stage = x.stage /\ Disturbed(x, p).session = x.session
  BY DEF Disturbed, Process
<1> QED
  BY <1>1, <1>2

\* Changing a file keeps the directory, its history and the restores typed.
LEMMA TouchType ==
    ASSUME TypeOK, NEW p \in Path, NEW f \in File,
           NEW by, by.state \in Process, Performed(by.state), Touch(p, f, by)
    PROVE  /\ disk' \in [Path -> File]
           /\ past' \in [Path -> SUBSET File]
           /\ proc' \in [Proc -> Process]
           /\ \A r \in Proc : Performed(proc'[r])
<1>1. disk' \in [Path -> File] /\ past' \in [Path -> SUBSET File]
  BY DEF TypeOK, Touch
<1>2. proc' = [r \in Proc |-> IF r = by.who THEN by.state
                              ELSE IF proc[r].stage = "idle" THEN proc[r]
                              ELSE Disturbed(proc[r], p)]
  BY DEF Touch, Disturbed
<1>3. \A r \in Proc : proc[r] \in Process /\ Performed(proc[r])
  BY DEF TypeOK, Performed
<1>4. \A r \in Proc : proc'[r] \in Process /\ Performed(proc'[r])
  BY <1>2, <1>3, DisturbedType DEF Performed
<1>5. proc' = [r \in Proc |-> proc'[r]]
  BY <1>2
<1> QED
  BY <1>1, <1>4, <1>5

\* The cap on an undo stack, and what a push and a pop leave of it.
LEMMA StackBounds ==
    ASSUME NEW stack \in Seq(UndoRecord), Len(stack) <= MaxUndo,
           NEW record \in UndoRecord
    PROVE  /\ Pushed(stack, record) \in Seq(UndoRecord)
           /\ Len(Pushed(stack, record)) <= MaxUndo
           /\ Popped(stack) \in Seq(UndoRecord)
           /\ Len(Popped(stack)) <= MaxUndo
<1>1. Popped(stack) \in Seq(UndoRecord) /\ Len(Popped(stack)) <= MaxUndo
  BY BoundAssumption DEF Popped
<1>2. /\ Append(stack, record) \in Seq(UndoRecord)
      /\ Len(Append(stack, record)) = Len(stack) + 1
  OBVIOUS
<1>3. Pushed(stack, record) \in Seq(UndoRecord) /\ Len(Pushed(stack, record)) <= MaxUndo
  BY <1>2, BoundAssumption DEF Pushed
<1> QED
  BY <1>1, <1>3

\* What a declaration read is of its session, turn, path and file.
LEMMA ImageType ==
    ASSUME NEW i \in Image
    PROVE  i.session \in Session /\ i.turn \in Turn /\ i.path \in Path /\ i.file \in File
BY DEF Image

\* A declaration that comes a stage further is of the same file.
LEMMA StagedType ==
    ASSUME NEW i \in Image, NEW stage \in {"read", "keyed", "attached"}
    PROVE  /\ [i EXCEPT !.stage = stage] \in Image
           /\ [i EXCEPT !.stage = stage].file = i.file
           /\ [i EXCEPT !.stage = stage].path = i.path
BY DEF Image

\* A session restores, and its manifests are manifests.
LEMMA ProcessType ==
    ASSUME NEW x \in Process
    PROVE  /\ x.session \in Session \cup {NoSession}
           /\ x.owner \in Session \cup {NoSession}
           /\ x.target \in Manifest
           /\ x.safety \in Manifest
           /\ x.scope \in SUBSET Path
           /\ x.protected \in SUBSET Path
           /\ x.writes \in SUBSET Path
           /\ x.deletes \in SUBSET Path
           /\ x.failed \in SUBSET Path
           /\ x.reversing \in UndoRecord
           /\ x.before \in [Path -> File]
BY DEF Process

\* What a restore has still to do is what its target asks for: the writes are
\* of its entries and the removals of its tombstones, protected paths aside.
PlanFollowsTarget ==
    \A r \in Proc : proc[r].stage = "applying" =>
        /\ proc[r].writes \subseteq Recorded(proc[r].target) \ proc[r].protected
        /\ proc[r].deletes \subseteq proc[r].target.absent \ proc[r].protected

\* One step keeps the shape of the state.
LEMMA TypeStep ==
    ASSUME TypeOK, PlanFollowsTarget, [Next]_vars PROVE TypeOK'
<1> USE DEF Performed
<1>1. ASSUME NEW p \in Path, Edit(p) PROVE TypeOK'
  <2>1. PICK f \in (Storable \cup Unstorable) \ {disk[p]} :
           Touch(p, f, Outsider)
    BY <1>1 DEF Edit
  <2>2. f \in File
    BY <2>1, BoundAssumption, StorableFiles
  <2>3. PICK by : by = Outsider
    OBVIOUS
  <2>4. by.state \in Process /\ by.state.stage = "idle"
    BY <2>3, IdleType DEF Outsider, Idle
  <2>5. /\ disk' \in [Path -> File]
        /\ past' \in [Path -> SUBSET File]
        /\ proc' \in [Proc -> Process]
        /\ \A r \in Proc : Performed(proc'[r])
    BY <2>1, <2>2, <2>3, <2>4, TouchType
  <2> QED
    BY <1>1, <2>5 DEF Edit, TypeOK
<1>2. ASSUME NEW p \in Path, EditIgnore(p) PROVE TypeOK'
  <2> DEFINE moved(x) == [x EXCEPT !.sinceCheck = @ \cup {p}]
  <2>1. \A x \in Process : moved(x) \in Process
    BY DEF Process
  <2>2. \A x \in Process : moved(x).stage = x.stage /\ moved(x).session = x.session
    BY DEF Process
  <2>3. proc' = [r \in Proc |-> IF proc[r].stage = "idle" THEN proc[r] ELSE moved(proc[r])]
    BY <1>2 DEF EditIgnore
  <2> HIDE DEF moved
  <2>4. /\ proc' \in [Proc -> Process]
        /\ \A r \in Proc : Performed(proc'[r])
    BY <2>1, <2>2, <2>3 DEF TypeOK
  <2> QED
    BY <1>2, <2>4 DEF EditIgnore, TypeOK
<1>3. ASSUME NEW i \in images, DeclareKey(i) \/ DeclareWatch(i) PROVE TypeOK'
  <2>1. i.session \in Session /\ i.path \in Path
    BY ImageType DEF TypeOK
  <2>2. CASE DeclareKey(i)
    <3>1. images' \subseteq images \cup {[i EXCEPT !.stage = "keyed"]}
      BY <2>2 DEF DeclareKey
    <3>2. images' \subseteq Image
      BY <3>1, StagedType DEF TypeOK
    <3> QED
      BY <2>2, <3>2 DEF DeclareKey, TypeOK
  <2>3. CASE DeclareWatch(i)
    <3>1. declared' \in [Session -> SUBSET Path]
      BY <2>1, <2>3 DEF DeclareWatch, TypeOK
    <3>2. images' \subseteq Image
      BY <2>3 DEF DeclareWatch, TypeOK
    <3> QED
      BY <2>3, <3>1, <3>2 DEF DeclareWatch, TypeOK
  <2> QED
    BY <1>3, <2>2, <2>3
<1>4. ASSUME NEW s \in Session, NEW t \in Turn, Checkpoint(s, t) PROVE TypeOK'
  <2>1. PICK observed \in SUBSET ((Path \ ignored) \cup declared[s]) :
           Publish(s, t, Captured(disk, observed))
    BY <1>4 DEF Checkpoint
  <2>4. observed \in SUBSET Path
    BY <2>1 DEF TypeOK
  <2>2. Captured(disk, observed) \in Manifest
    BY <2>4, CapturedType DEF TypeOK
  <2>3. t \in TurnKey
    BY DEF TurnKey
  <2> QED
    BY <1>4, <2>1, <2>2, <2>3, PublishType DEF Checkpoint, TypeOK
<1>5. ASSUME NEW s \in Session, NEW t \in Turn, NEW p \in Path, DeclareRead(s, t, p)
      PROVE  TypeOK'
  <2>1. [session |-> s, turn |-> t, path |-> p, file |-> disk[p],
         stage |-> "read"] \in Image
    BY DEF TypeOK, Image
  <2> QED
    BY <1>5, <2>1 DEF DeclareRead, TypeOK
<1>6. ASSUME NEW i \in images, DeclareAttach(i) PROVE TypeOK'
  <2> DEFINE extended == IF OwnKey(disk[i.path])
                         THEN Attached(Latest(i.session), i.path, ThroughLinks(i.file))
                         ELSE Latest(i.session)
  <2>1. /\ i.session \in Session /\ i.turn \in TurnKey
        /\ i.path \in Path /\ i.file \in File
    BY ImageType DEF TypeOK, TurnKey
  <2>2. extended \in Manifest
    BY <2>1, LatestType, AttachedType
  <2>5. images' \subseteq Image
    BY <1>6, StagedType DEF DeclareAttach, TypeOK
  <2>3. CASE UNCHANGED <<log, index>>
    BY <1>6, <2>3, <2>5 DEF DeclareAttach, TypeOK
  <2>4. CASE Publish(i.session, i.turn, extended)
    BY <1>6, <2>1, <2>2, <2>4, <2>5, PublishType DEF DeclareAttach, TypeOK
  <2> QED
    BY <1>6, <2>3, <2>4 DEF DeclareAttach
<1>7. ASSUME NEW i \in images, DeclareDrop(i) PROVE TypeOK'
  BY <1>7 DEF DeclareDrop, TypeOK
<1>8. ASSUME NEW src \in Session, NEW dst \in Session, NEW t \in Turn, Fork(src, dst, t)
      PROVE  TypeOK'
  <2>1. log' \in [Session -> Seq(LogEntry)]
    <3>1. CASE UNCHANGED log
      BY <3>1 DEF TypeOK
    <3>2. ASSUME NEW cut \in 1..Len(log[src]), NEW n \in 0..cut,
                 log' = [log EXCEPT ![dst] = @ \o SubSeq(log[src], 1, n)]
          PROVE  log' \in [Session -> Seq(LogEntry)]
      <4>1. log[src] \in Seq(LogEntry) /\ log[dst] \in Seq(LogEntry)
        BY DEF TypeOK
      <4>2. SubSeq(log[src], 1, n) \in Seq(LogEntry)
        BY <4>1
      <4>3. log[dst] \o SubSeq(log[src], 1, n) \in Seq(LogEntry)
        BY <4>1, <4>2
      <4> QED
        BY <3>2, <4>3 DEF TypeOK
    <3> QED
      BY <1>8, <3>1, <3>2 DEF Fork
  <2> QED
    BY <1>8, <2>1 DEF Fork, TypeOK
<1>9. ASSUME NEW r \in Proc, NEW s \in Session, ResolveUndo(r, s) PROVE TypeOK'
  <2> DEFINE record == Last(undo[s])
  <2>1. undo[s] \in Seq(UndoRecord) /\ undo[s] # <<>>
    BY <1>9 DEF TypeOK, ResolveUndo
  <2>2. record \in UndoRecord
    BY <2>1 DEF Last
  <2>3. record.safety \in Manifest
    BY <2>2 DEF UndoRecord
  <2>4. Conflicts(record.target, record.safety, disk, ignored) \in SUBSET Path
    BY DEF Conflicts
  <2>5. proc'[r] \in Process
    BY <1>9, <2>2, <2>3, <2>4, IdleType DEF ResolveUndo, TypeOK, Process
  <2>6. proc' \in [Proc -> Process]
    BY <1>9, <2>5 DEF ResolveUndo, TypeOK
  <2> QED
    BY <1>9, <2>6 DEF ResolveUndo, TypeOK
<1>10. ASSUME NEW r \in Proc, NEW s \in Session, NEW t \in DOMAIN index,
              NEW owner \in Session \cup {NoSession}, ResolveRewind(r, s, t, owner)
       PROVE  TypeOK'
  <2>1. index[t] \in Manifest
    BY DEF TypeOK
  <2>2. proc'[r] \in Process
    BY <1>10, <2>1, IdleType DEF ResolveRewind, TypeOK, Process
  <2> QED
    BY <1>10, <2>2 DEF ResolveRewind, TypeOK
<1>11. ASSUME NEW r \in Proc, Survey(r) PROVE TypeOK'
  <2>1. PICK scan \in SUBSET (Path \ ignored) :
           proc' = [proc EXCEPT ![r].stage = "surveyed",
                                ![r].scope = Scope(proc[r].session, scan),
                                ![r].protected = ignored]
    BY <1>11 DEF Survey
  <2>2. proc[r].session \in Session
    BY <1>11 DEF Survey, TypeOK
  <2>3. Scope(proc[r].session, scan) \in SUBSET Path
    BY <2>2, LatestType DEF Scope
  <2> DEFINE next(w, q) == [proc[r] EXCEPT !.stage = "surveyed", !.scope = w,
                                           !.protected = q]
  <2> proc[r] \in Process
    BY DEF TypeOK
  <2>4. \A w, q \in SUBSET Path : next(w, q) \in Process
    BY DEF Process
  <2>5. \A w, q \in SUBSET Path : next(w, q).session = proc[r].session
    BY DEF Process
  <2>6. proc' = [proc EXCEPT ![r] = next(Scope(proc[r].session, scan), ignored)]
    BY <2>1
  <2> HIDE DEF next
  <2>7. /\ proc' \in [Proc -> Process]
        /\ \A q \in Proc : Performed(proc'[q])
    BY <2>2, <2>3, <2>4, <2>5, <2>6 DEF TypeOK
  <2> QED
    BY <1>11, <2>7 DEF Survey, TypeOK
<1>12. ASSUME NEW r \in Proc, Rescue(r) PROVE TypeOK'
  <2> DEFINE s == proc[r].session
             target == proc[r].target
             safety == Captured(disk, RescueScope(proc[r].scope, target))
  <2>1. s \in Session /\ target \in Manifest
    BY <1>12, ProcessType DEF Rescue, TypeOK
  <2>2. RescueScope(proc[r].scope, target) \in SUBSET Path
    BY <2>1, ProcessType, ObservedPaths DEF RescueScope, TypeOK
  <2>3. safety \in Manifest
    BY <2>2, CapturedType DEF TypeOK
  <2>4. SafetyTurn(target) \in TurnKey
    BY <2>1 DEF SafetyTurn, TurnKey
  <2>5. Publish(s, SafetyTurn(target), safety)
    BY <1>12 DEF Rescue
  <2>6. /\ Writes(target, safety, proc[r].protected) \in SUBSET Path
        /\ Deletes(target, safety, proc[r].protected) \in SUBSET Path
    BY DEF Writes, Deletes, Recorded
  <2> DEFINE next(m, w, d) == [proc[r] EXCEPT !.stage = "applying", !.safety = m,
                                              !.writes = w, !.deletes = d,
                                              !.before = disk, !.sinceRescue = {}]
  <2> proc[r] \in Process /\ disk \in [Path -> File]
    BY DEF TypeOK
  <2>7. \A m \in Manifest, w, d \in SUBSET Path : next(m, w, d) \in Process
    BY DEF Process
  <2>8. \A m \in Manifest, w, d \in SUBSET Path : next(m, w, d).session = s
    BY DEF Process
  <2>9. proc' = [proc EXCEPT ![r] = next(safety,
                                      Writes(target, safety, proc[r].protected),
                                      Deletes(target, safety, proc[r].protected))]
    BY <1>12 DEF Rescue
  <2> HIDE DEF next
  <2>10. /\ proc' \in [Proc -> Process]
        /\ \A q \in Proc : Performed(proc'[q])
    BY <2>1, <2>3, <2>6, <2>7, <2>8, <2>9 DEF TypeOK
  <2>11. /\ log' \in [Session -> Seq(LogEntry)]
        /\ DOMAIN index' \subseteq TurnKey
        /\ \A k \in DOMAIN index' : index'[k] \in Manifest
    BY <2>1, <2>3, <2>4, <2>5, PublishType
  <2> QED
    BY <1>12, <2>10, <2>11 DEF Rescue, TypeOK
<1>13. ASSUME NEW r \in Proc, FinishRewind(r) PROVE TypeOK'
  <2> DEFINE owner == proc[r].owner
             record == [target |-> proc[r].target, safety |-> proc[r].safety,
                        found |-> proc[r].before, left |-> disk,
                        spared |-> proc[r].protected,
                        clean |-> proc[r].failed = {} /\ proc[r].sinceRescue = {}]
  <2>1. record \in UndoRecord
    BY ProcessType DEF TypeOK, UndoRecord
  <2>2. /\ proc' \in [Proc -> Process]
        /\ \A q \in Proc : Performed(proc'[q])
    BY <1>13, IdleType DEF FinishRewind, TypeOK, Idle
  <2>3. CASE owner = NoSession
    BY <1>13, <2>2, <2>3 DEF FinishRewind, TypeOK
  <2>4. CASE owner # NoSession
    <3>1. owner \in Session
      BY <2>4, ProcessType DEF TypeOK
    <3>2. undo' = [undo EXCEPT ![owner] = Pushed(@, record)]
      BY <1>13, <2>4 DEF FinishRewind
    <3>3. /\ Pushed(undo[owner], record) \in Seq(UndoRecord)
          /\ Len(Pushed(undo[owner], record)) <= MaxUndo
      BY <2>1, <3>1, StackBounds DEF TypeOK
    <3>4. /\ undo' \in [Session -> Seq(UndoRecord)]
          /\ \A s \in Session : Len(undo'[s]) <= MaxUndo
      BY <3>1, <3>2, <3>3 DEF TypeOK
    <3> QED
      BY <1>13, <2>2, <3>1, <3>2, <3>4 DEF FinishRewind, TypeOK
  <2> QED
    BY <2>3, <2>4
<1>14. ASSUME NEW r \in Proc, FinishUndo(r) PROVE TypeOK'
  <2> DEFINE s == proc[r].session
  <2>1. s \in Session
    BY <1>14 DEF FinishUndo, Done, TypeOK
  <2>2. Popped(undo[s]) \in Seq(UndoRecord) /\ Len(Popped(undo[s])) <= MaxUndo
    BY <2>1, IdleType, StackBounds DEF TypeOK
  <2>3. /\ undo' \in [Session -> Seq(UndoRecord)]
        /\ \A q \in Session : Len(undo'[q]) <= MaxUndo
    BY <1>14, <2>1, <2>2 DEF FinishUndo, TypeOK
  <2>4. /\ proc' \in [Proc -> Process]
        /\ \A q \in Proc : Performed(proc'[q])
    BY <1>14, IdleType DEF FinishUndo, TypeOK, Idle
  <2> QED
    BY <1>14, <2>3, <2>4 DEF FinishUndo, TypeOK
<1>15. ASSUME NEW r \in Proc, Crash(r) PROVE TypeOK'
  BY <1>15, IdleType DEF Crash, TypeOK, Idle
<1>16. ASSUME NEW r \in Proc, NEW p \in Path, Write(r, p) PROVE TypeOK'
  <2>1. PICK umask \in Mode :
           Touch(p, Written(proc[r].target.entries[p], disk[p], umask),
                 [who |-> r, state |-> [proc[r] EXCEPT !.writes = @ \ {p}]])
    BY <1>16 DEF Write
  <2>2. proc[r].target.entries[p] \in Entry
    BY <1>16, ProcessType DEF Write, PlanFollowsTarget, Recorded, Manifest, TypeOK
  <2>3. PICK f : f = Written(proc[r].target.entries[p], disk[p], umask)
    OBVIOUS
  <2>4. f \in File
    BY <2>2, <2>3, WrittenType, StorableFiles
  <2>5. PICK by : by = [who |-> r, state |-> [proc[r] EXCEPT !.writes = @ \ {p}]]
    OBVIOUS
  <2>6. by.state \in Process /\ Performed(by.state)
    <3> proc[r] \in Process
      BY DEF TypeOK
    <3>1. by.state \in Process
      BY <2>5 DEF Process
    <3>2. by.state.session = proc[r].session
      BY <2>5 DEF Process
    <3> QED
      BY <1>16, <3>1, <3>2 DEF Write, TypeOK
  <2>7. Touch(p, f, by)
    BY <2>1, <2>3, <2>5
  <2>8. /\ disk' \in [Path -> File]
        /\ past' \in [Path -> SUBSET File]
        /\ proc' \in [Proc -> Process]
        /\ \A q \in Proc : Performed(proc'[q])
    BY <2>4, <2>6, <2>7, TouchType
  <2> QED
    BY <1>16, <2>8 DEF Write, TypeOK
<1>17. ASSUME NEW r \in Proc, NEW p \in Path, Delete(r, p) PROVE TypeOK'
  <2>1. PICK by : by = [who |-> r, state |-> [proc[r] EXCEPT !.deletes = @ \ {p}]]
    OBVIOUS
  <2>2. by.state \in Process /\ Performed(by.state)
    <3> proc[r] \in Process
      BY DEF TypeOK
    <3>1. by.state \in Process
      BY <2>1 DEF Process
    <3>2. by.state.session = proc[r].session
      BY <2>1 DEF Process
    <3> QED
      BY <1>17, <3>1, <3>2 DEF Delete, TypeOK
  <2>3. Missing \in File /\ Touch(p, Missing, by)
    BY <1>17, <2>1, StorableFiles DEF Delete
  <2>4. /\ disk' \in [Path -> File]
        /\ past' \in [Path -> SUBSET File]
        /\ proc' \in [Proc -> Process]
        /\ \A q \in Proc : Performed(proc'[q])
    BY <2>2, <2>3, TouchType
  <2> QED
    BY <1>17, <2>4 DEF Delete, TypeOK
<1>18. ASSUME NEW r \in Proc, NEW p \in Path, Fail(r, p) PROVE TypeOK'
  <2> DEFINE next(w, d) == [proc[r] EXCEPT !.writes = w, !.deletes = d,
                                           !.failed = @ \cup {p}]
  <2> proc[r] \in Process
    BY DEF TypeOK
  <2>1. \A w, d \in SUBSET Path : next(w, d) \in Process
    BY DEF Process
  <2>2. \A w, d \in SUBSET Path : next(w, d).session = proc[r].session
    BY DEF Process
  <2>3. \/ proc' = [proc EXCEPT ![r] = next(proc[r].writes \ {p}, proc[r].deletes)]
        \/ proc' = [proc EXCEPT ![r] = next(proc[r].writes, proc[r].deletes \ {p})]
    BY <1>18 DEF Fail, TypeOK, Process
  <2> HIDE DEF next
  <2>4. /\ proc[r].writes \in SUBSET Path /\ proc[r].writes \ {p} \in SUBSET Path
        /\ proc[r].deletes \in SUBSET Path /\ proc[r].deletes \ {p} \in SUBSET Path
    BY ProcessType
  <2>5. PICK w, d \in SUBSET Path : proc' = [proc EXCEPT ![r] = next(w, d)]
    BY <2>3, <2>4
  <2>6. /\ proc' \in [Proc -> Process]
        /\ \A q \in Proc : Performed(proc'[q])
    BY <1>18, <2>1, <2>2, <2>5 DEF Fail, TypeOK
  <2> QED
    BY <1>18, <2>6 DEF Fail, TypeOK
<1>19. CASE UNCHANGED vars
  BY <1>19 DEF vars, TypeOK
<1> QED
  BY <1>1, <1>2, <1>3, <1>4, <1>5, <1>6, <1>7, <1>8, <1>9, <1>10, <1>11, <1>12,
     <1>13, <1>14, <1>15, <1>16, <1>17, <1>18, <1>19 DEF Next

-----------------------------------------------------------------------------
(* Restores under way. *)

\* What the rescue capture settled, and what is left to do, is the restore's
\* own: no other process touches it.
Kept(x, y) ==
    /\ y.stage = x.stage /\ y.kind = x.kind
    /\ y.target = x.target /\ y.safety = x.safety
    /\ y.scope = x.scope /\ y.protected = x.protected /\ y.before = x.before
    /\ y.writes = x.writes /\ y.deletes = x.deletes /\ y.failed = x.failed
    /\ y.conflicts = x.conflicts /\ y.reversing = x.reversing
    /\ x.sinceRescue \subseteq y.sinceRescue /\ x.sinceCheck \subseteq y.sinceCheck

\* ... and has the same work left to do.
LEMMA DisturbedKept ==
    ASSUME NEW x \in Process, NEW p \in Path
    PROVE  /\ Kept(x, Disturbed(x, p))
           /\ Disturbed(x, p).sinceRescue = x.sinceRescue \cup {p}
           /\ Disturbed(x, p).sinceCheck = x.sinceCheck \cup {p}
BY DEF Process, Disturbed, Kept

\* A restore that does not take the step itself stands where it stood: files
\* that others changed, and ignore rules that changed, it counts as changed.
Stands(q) ==
    /\ Kept(proc[q], proc'[q])
    /\ \A p \in Path \ proc'[q].sinceRescue : disk'[p] = disk[p]
    /\ \A p \in Path \ proc'[q].sinceCheck :
          disk'[p] = disk[p] /\ (p \in ignored' <=> p \in ignored)

\* Another hand on a file is seen by every restore under way.
LEMMA TouchKept ==
    ASSUME TypeOK, NEW p \in Path, NEW f, NEW by, Touch(p, f, by), UNCHANGED ignored,
           NEW q \in Proc, q # by.who, proc[q].stage # "idle"
    PROVE  Stands(q)
<1>1. proc[q] \in Process
  BY DEF TypeOK
<1>2. proc'[q] = Disturbed(proc[q], p)
  BY DEF Touch, Disturbed
<1>3. /\ Kept(proc[q], proc'[q])
      /\ p \in proc'[q].sinceRescue /\ p \in proc'[q].sinceCheck
  BY <1>1, <1>2, DisturbedKept
<1> QED
  BY <1>3 DEF Touch, TypeOK, Stands

\* A restore that is under way after a step has just resolved its target, or
\* decided what to look at, or taken its rescue capture, has dealt with one
\* file, or stands where it stood.
LEMMA MovingStep ==
    ASSUME TypeOK, [Next]_vars, NEW q \in Proc, proc'[q].stage # "idle"
    PROVE  \/ \E s \in Session :
                 \/ ResolveUndo(q, s)
                 \/ \E t \in DOMAIN index, owner \in Session \cup {NoSession} :
                       ResolveRewind(q, s, t, owner)
           \/ Survey(q) \/ Rescue(q)
           \/ \E p \in Path : Write(q, p) \/ Delete(q, p) \/ Fail(q, p)
           \/ Stands(q)
<1> DEFINE Goal == \/ \E s \in Session :
                         \/ ResolveUndo(q, s)
                         \/ \E t \in DOMAIN index, owner \in Session \cup {NoSession} :
                               ResolveRewind(q, s, t, owner)
                   \/ Survey(q) \/ Rescue(q)
                   \/ \E p \in Path : Write(q, p) \/ Delete(q, p) \/ Fail(q, p)
                   \/ Stands(q)
<1>1. ASSUME proc'[q] = proc[q], disk' = disk, ignored' = ignored PROVE Stands(q)
  BY <1>1 DEF Kept, Stands
<1>2. Idle.stage = "idle"
  BY DEF Idle
<1>3. ASSUME NEW p \in Path, Edit(p) PROVE Goal
  <2>1. PICK f : Touch(p, f, Outsider) /\ ignored' = ignored
    BY <1>3 DEF Edit
  <2>2. PICK by : by = Outsider
    OBVIOUS
  <2>3. q # by.who
    BY <2>2, SessionAssumption DEF Outsider
  <2>4. proc[q].stage # "idle"
    BY <2>1, <2>2, <2>3 DEF Touch
  <2> QED
    BY <2>1, <2>2, <2>3, <2>4, TouchKept
<1>4. ASSUME NEW p \in Path, EditIgnore(p) PROVE Goal
  <2> DEFINE moved(x) == [x EXCEPT !.sinceCheck = @ \cup {p}]
  <2>1. \A x \in Process : Kept(x, moved(x)) /\ moved(x).sinceCheck = x.sinceCheck \cup {p}
    BY DEF Process, Kept
  <2>2. proc'[q] = IF proc[q].stage = "idle" THEN proc[q] ELSE moved(proc[q])
    BY <1>4 DEF EditIgnore
  <2> HIDE DEF moved
  <2>3. Kept(proc[q], proc'[q]) /\ p \in proc'[q].sinceCheck
    BY <2>1, <2>2 DEF TypeOK
  <2>4. disk' = disk /\ \A x \in Path \ {p} : x \in ignored' <=> x \in ignored
    BY <1>4 DEF EditIgnore
  <2> QED
    BY <2>3, <2>4 DEF Stands
<1>5. ASSUME UNCHANGED <<disk, ignored, proc>> PROVE Goal
  BY <1>1, <1>5
<1>6. ASSUME NEW r \in Proc, r # q, NEW p \in Path, Write(r, p) \/ Delete(r, p)
      PROVE  Goal
  <2>1. PICK f, by : Touch(p, f, by) /\ by.who = r /\ ignored' = ignored
    <3>1. CASE Write(r, p)
      BY <3>1 DEF Write
    <3>2. CASE Delete(r, p)
      BY <3>2 DEF Delete
    <3> QED
      BY <1>6, <3>1, <3>2
  <2>2. proc[q].stage # "idle"
    BY <1>6, <2>1 DEF Touch
  <2> QED
    BY <1>6, <2>1, <2>2, TouchKept
<1>7. ASSUME NEW r \in Proc, r # q,
             \/ \E s \in Session :
                   \/ ResolveUndo(r, s)
                   \/ \E t \in DOMAIN index, owner \in Session \cup {NoSession} :
                         ResolveRewind(r, s, t, owner)
             \/ Survey(r) \/ Rescue(r) \/ FinishRewind(r) \/ FinishUndo(r) \/ Crash(r)
             \/ \E p \in Path : Fail(r, p)
      PROVE  Goal
  <2> DEFINE Apart == \E x : proc' = [proc EXCEPT ![r] = x] /\ UNCHANGED <<disk, ignored>>
  <2>1. PICK x : proc' = [proc EXCEPT ![r] = x] /\ UNCHANGED <<disk, ignored>>
    <3>1. ASSUME NEW s \in Session, ResolveUndo(r, s) PROVE Apart
      BY <3>1 DEF ResolveUndo
    <3>2. ASSUME NEW s \in Session, NEW t \in DOMAIN index,
                 NEW owner \in Session \cup {NoSession}, ResolveRewind(r, s, t, owner)
          PROVE  Apart
      BY <3>2 DEF ResolveRewind
    <3>3. ASSUME Survey(r) \/ Rescue(r) PROVE Apart
      BY <3>3 DEF Survey, Rescue
    <3>4. ASSUME FinishRewind(r) \/ FinishUndo(r) \/ Crash(r) PROVE Apart
      BY <3>4 DEF FinishRewind, FinishUndo, Crash
    <3>5. ASSUME NEW p \in Path, Fail(r, p) PROVE Apart
      BY <3>5 DEF Fail
    <3> QED
      BY <1>7, <3>1, <3>2, <3>3, <3>4, <3>5
  <2>2. proc'[q] = proc[q]
    BY <1>7, <2>1 DEF TypeOK
  <2> QED
    BY <1>1, <2>1, <2>2
<1>8. ~ FinishRewind(q) /\ ~ FinishUndo(q) /\ ~ Crash(q)
  BY <1>2 DEF FinishRewind, FinishUndo, Crash, TypeOK
<1>9. ASSUME \/ \E s \in Session, t \in Turn :
                   \/ Checkpoint(s, t)
                   \/ \E p \in Path : DeclareRead(s, t, p)
                   \/ \E dst \in Session : Fork(s, dst, t)
             \/ \E i \in images : DeclareKey(i)
             \/ \E i \in images : DeclareAttach(i)
             \/ \E i \in images : DeclareWatch(i)
             \/ \E i \in images : DeclareDrop(i)
             \/ UNCHANGED vars
      PROVE  UNCHANGED <<disk, ignored, proc>>
  BY <1>9 DEF Checkpoint, DeclareRead, Fork, DeclareKey, DeclareAttach, DeclareWatch,
                DeclareDrop, vars
<1>10. ASSUME NEW r \in Proc,
              \/ \E s \in Session :
                    \/ ResolveUndo(r, s)
                    \/ \E t \in DOMAIN index, owner \in Session \cup {NoSession} :
                          ResolveRewind(r, s, t, owner)
              \/ Survey(r) \/ Rescue(r) \/ FinishRewind(r) \/ FinishUndo(r) \/ Crash(r)
              \/ \E p \in Path : Write(r, p) \/ Delete(r, p) \/ Fail(r, p)
       PROVE  Goal
  <2>1. CASE r = q
    BY <1>8, <1>10, <2>1
  <2>2. CASE r # q
    <3> HIDE DEF Goal
    <3> QED
      BY <1>6, <1>7, <1>10, <2>2
  <2> QED
    BY <2>1, <2>2
<1> HIDE DEF Goal
<1>11. Goal
  BY <1>3, <1>4, <1>5, <1>9, <1>10 DEF Next
<1> QED
  BY <1>11 DEF Goal

\* What resolving an undo, and deciding what to look at, make of a restore.
LEMMA ResolveEffect ==
    ASSUME TypeOK, NEW q \in Proc, NEW s \in Session, ResolveUndo(q, s)
    PROVE  /\ undo[s] # <<>> /\ UNCHANGED <<disk, ignored>>
           /\ proc'[q].stage = "resolved" /\ proc'[q].kind = "undo"
           /\ proc'[q].reversing = Last(undo[s])
           /\ proc'[q].target = Last(undo[s]).safety
           /\ proc'[q].conflicts = Conflicts(Last(undo[s]).target, Last(undo[s]).safety,
                                             disk, ignored)
<1> DEFINE record == Last(undo[s])
           next(k, x) == [Idle EXCEPT !.stage = "resolved", !.kind = "undo",
                                      !.session = s, !.owner = s,
                                      !.target = x.safety, !.conflicts = k,
                                      !.reversing = x]
<1>1. \A k, x : /\ next(k, x).stage = "resolved" /\ next(k, x).kind = "undo"
                /\ next(k, x).reversing = x /\ next(k, x).target = x.safety
                /\ next(k, x).conflicts = k
  BY IdleType DEF Process
<1>2. proc' = [proc EXCEPT ![q] = next(Conflicts(record.target, record.safety, disk, ignored),
                                       record)]
  BY DEF ResolveUndo
<1> HIDE DEF next
<1>3. proc'[q] = next(Conflicts(record.target, record.safety, disk, ignored), record)
  BY <1>2 DEF TypeOK
<1> QED
  BY <1>1, <1>3 DEF ResolveUndo

\* A rewind that has just resolved its target is no undo.
LEMMA ResolveRewindEffect ==
    ASSUME TypeOK, NEW q \in Proc, NEW s \in Session, NEW t \in DOMAIN index,
           NEW owner \in Session \cup {NoSession}, ResolveRewind(q, s, t, owner)
    PROVE  proc'[q].stage = "resolved" /\ proc'[q].kind = "rewind"
BY IdleType DEF ResolveRewind, TypeOK, Process

\* The rules that protect files are those in force when it is decided what to
\* look at.
LEMMA SurveyEffect ==
    ASSUME TypeOK, NEW q \in Proc, Survey(q)
    PROVE  /\ proc[q].stage = "resolved" /\ proc'[q].stage = "surveyed"
           /\ proc'[q].kind = proc[q].kind /\ proc'[q].target = proc[q].target
           /\ proc'[q].reversing = proc[q].reversing
           /\ proc'[q].conflicts = proc[q].conflicts
           /\ proc'[q].sinceCheck = proc[q].sinceCheck
           /\ proc'[q].protected = ignored /\ UNCHANGED <<disk, ignored>>
<1> DEFINE next(w) == [proc[q] EXCEPT !.stage = "surveyed", !.scope = w,
                                      !.protected = ignored]
<1>1. proc[q] \in Process
  BY DEF TypeOK
<1>2. \A w : /\ next(w).stage = "surveyed"
             /\ next(w).kind = proc[q].kind /\ next(w).target = proc[q].target
             /\ next(w).reversing = proc[q].reversing
             /\ next(w).conflicts = proc[q].conflicts
             /\ next(w).sinceCheck = proc[q].sinceCheck
             /\ next(w).protected = ignored
  BY <1>1 DEF Process
<1>3. PICK w : proc' = [proc EXCEPT ![q] = next(w)]
  BY DEF Survey
<1> HIDE DEF next
<1>4. proc'[q] = next(w)
  BY <1>3 DEF TypeOK
<1> QED
  BY <1>2, <1>4 DEF Survey

\* A restore that is applying after a step has just taken its rescue capture,
\* has dealt with one file, or stands where it stood.
LEMMA ApplyingStep ==
    ASSUME TypeOK, [Next]_vars, NEW q \in Proc, proc'[q].stage = "applying"
    PROVE  \/ Rescue(q)
           \/ \E p \in Path : Write(q, p) \/ Delete(q, p) \/ Fail(q, p)
           \/ Stands(q)
<1>1. ~ Survey(q)
  BY SurveyEffect
<1>2. \A s \in Session :
        /\ ~ ResolveUndo(q, s)
        /\ \A t \in DOMAIN index, owner \in Session \cup {NoSession} :
              ~ ResolveRewind(q, s, t, owner)
  BY ResolveEffect, ResolveRewindEffect
<1> QED
  BY <1>1, <1>2, MovingStep

\* What the three steps of a restore that is applying do to it and to the
\* directory.
LEMMA RescueEffect ==
    ASSUME TypeOK, NEW q \in Proc, Rescue(q)
    PROVE  /\ proc'[q].target = proc[q].target
           /\ proc'[q].scope = proc[q].scope
           /\ proc'[q].protected = proc[q].protected
           /\ proc'[q].failed = proc[q].failed
           /\ proc'[q].kind = proc[q].kind
           /\ proc'[q].reversing = proc[q].reversing
           /\ proc'[q].conflicts = proc[q].conflicts
           /\ proc'[q].sinceCheck = proc[q].sinceCheck
           /\ proc[q].stage = "surveyed" /\ UNCHANGED ignored
           /\ proc'[q].before = disk /\ disk' = disk
           /\ proc'[q].safety = Captured(disk, RescueScope(proc[q].scope, proc[q].target))
           /\ proc'[q].writes = Writes(proc[q].target, proc'[q].safety, proc[q].protected)
           /\ proc'[q].deletes = Deletes(proc[q].target, proc'[q].safety, proc[q].protected)
<1> DEFINE next(m, w, d) == [proc[q] EXCEPT !.stage = "applying", !.safety = m,
                                            !.writes = w, !.deletes = d,
                                            !.before = disk, !.sinceRescue = {}]
           safety == Captured(disk, RescueScope(proc[q].scope, proc[q].target))
           writes == Writes(proc[q].target, safety, proc[q].protected)
           deletes == Deletes(proc[q].target, safety, proc[q].protected)
<1>1. proc[q] \in Process
  BY DEF TypeOK
<1>2. \A m, w, d : /\ next(m, w, d).target = proc[q].target
                   /\ next(m, w, d).scope = proc[q].scope
                   /\ next(m, w, d).protected = proc[q].protected
                   /\ next(m, w, d).failed = proc[q].failed
                   /\ next(m, w, d).kind = proc[q].kind
                   /\ next(m, w, d).reversing = proc[q].reversing
                   /\ next(m, w, d).conflicts = proc[q].conflicts
                   /\ next(m, w, d).sinceCheck = proc[q].sinceCheck
                   /\ next(m, w, d).before = disk
                   /\ next(m, w, d).safety = m
                   /\ next(m, w, d).writes = w
                   /\ next(m, w, d).deletes = d
  BY <1>1 DEF Process
<1>3. proc' = [proc EXCEPT ![q] = next(safety, writes, deletes)] /\ disk' = disk
  BY DEF Rescue
<1> HIDE DEF next, safety, writes, deletes
<1>4. proc'[q] = next(safety, writes, deletes)
  BY <1>3 DEF TypeOK
<1> QED
  BY <1>2, <1>3, <1>4 DEF safety, writes, deletes, Rescue

\* Writing or removing a file of the plan, or failing to, changes that file and
\* the plan and nothing else.
LEMMA FileEffect ==
    ASSUME TypeOK, NEW q \in Proc, NEW p \in Path,
           Write(q, p) \/ Delete(q, p) \/ Fail(q, p)
    PROVE  /\ proc[q].stage = "applying"
           /\ proc'[q].target = proc[q].target
           /\ proc'[q].safety = proc[q].safety
           /\ proc'[q].scope = proc[q].scope
           /\ proc'[q].protected = proc[q].protected
           /\ proc'[q].before = proc[q].before
           /\ proc'[q].sinceRescue = proc[q].sinceRescue
           /\ proc'[q].stage = proc[q].stage /\ proc'[q].kind = proc[q].kind
           /\ proc'[q].reversing = proc[q].reversing
           /\ proc'[q].conflicts = proc[q].conflicts
           /\ proc'[q].sinceCheck = proc[q].sinceCheck
           /\ UNCHANGED ignored
           /\ \/ /\ p \in proc[q].writes
                 /\ proc'[q].writes = proc[q].writes \ {p}
                 /\ proc'[q].deletes = proc[q].deletes
              \/ /\ p \in proc[q].deletes
                 /\ proc'[q].writes = proc[q].writes
                 /\ proc'[q].deletes = proc[q].deletes \ {p}
           /\ \A x \in Path \ {p} : disk'[x] = disk[x]
           /\ \/ /\ proc'[q].failed = proc[q].failed \cup {p}
                 /\ disk' = disk
              \/ /\ proc'[q].failed = proc[q].failed
                 /\ p \in proc[q].writes
                 /\ \E umask \in Mode :
                       disk'[p] = Written(proc[q].target.entries[p], disk[p], umask)
              \/ /\ proc'[q].failed = proc[q].failed
                 /\ p \in proc[q].deletes
                 /\ disk'[p] = Missing
<1>1. proc[q] \in Process /\ disk \in [Path -> File]
  BY DEF TypeOK
<1>2. CASE Write(q, p)
  <2>1. PICK umask \in Mode :
           /\ disk' = [disk EXCEPT ![p] = Written(proc[q].target.entries[p], disk[p], umask)]
           /\ proc'[q] = [proc[q] EXCEPT !.writes = @ \ {p}]
    BY <1>2 DEF Write, Touch
  <2>2. /\ proc'[q].writes = proc[q].writes \ {p}
        /\ proc'[q].deletes = proc[q].deletes
        /\ proc'[q].failed = proc[q].failed
        /\ proc'[q].target = proc[q].target
        /\ proc'[q].safety = proc[q].safety
        /\ proc'[q].scope = proc[q].scope
        /\ proc'[q].protected = proc[q].protected
        /\ proc'[q].before = proc[q].before
        /\ proc'[q].sinceRescue = proc[q].sinceRescue
        /\ proc'[q].stage = proc[q].stage /\ proc'[q].kind = proc[q].kind
        /\ proc'[q].reversing = proc[q].reversing
        /\ proc'[q].conflicts = proc[q].conflicts
        /\ proc'[q].sinceCheck = proc[q].sinceCheck
    BY <1>1, <2>1 DEF Process
  <2>3. /\ disk'[p] = Written(proc[q].target.entries[p], disk[p], umask)
        /\ \A x \in Path \ {p} : disk'[x] = disk[x]
    BY <1>1, <2>1
  <2> QED
    BY <1>2, <2>2, <2>3 DEF Write
<1>3. CASE Delete(q, p)
  <2>1. /\ disk' = [disk EXCEPT ![p] = Missing]
        /\ proc'[q] = [proc[q] EXCEPT !.deletes = @ \ {p}]
    BY <1>3 DEF Delete, Touch
  <2>2. /\ proc'[q].writes = proc[q].writes
        /\ proc'[q].deletes = proc[q].deletes \ {p}
        /\ proc'[q].failed = proc[q].failed
        /\ proc'[q].target = proc[q].target
        /\ proc'[q].safety = proc[q].safety
        /\ proc'[q].scope = proc[q].scope
        /\ proc'[q].protected = proc[q].protected
        /\ proc'[q].before = proc[q].before
        /\ proc'[q].sinceRescue = proc[q].sinceRescue
        /\ proc'[q].stage = proc[q].stage /\ proc'[q].kind = proc[q].kind
        /\ proc'[q].reversing = proc[q].reversing
        /\ proc'[q].conflicts = proc[q].conflicts
        /\ proc'[q].sinceCheck = proc[q].sinceCheck
    BY <1>1, <2>1 DEF Process
  <2>3. /\ disk'[p] = Missing
        /\ \A x \in Path \ {p} : disk'[x] = disk[x]
    BY <1>1, <2>1
  <2> QED
    BY <1>3, <2>2, <2>3 DEF Delete
<1>4. CASE Fail(q, p)
  <2>1. /\ disk' = disk /\ proc[q].stage = "applying"
        /\ \/ /\ p \in proc[q].writes
              /\ proc'[q] = [proc[q] EXCEPT !.writes = @ \ {p}, !.failed = @ \cup {p}]
           \/ /\ p \in proc[q].deletes
              /\ proc'[q] = [proc[q] EXCEPT !.deletes = @ \ {p}, !.failed = @ \cup {p}]
    BY <1>4 DEF Fail, TypeOK
  <2>2. /\ \/ /\ p \in proc[q].writes
              /\ proc'[q].writes = proc[q].writes \ {p}
              /\ proc'[q].deletes = proc[q].deletes
           \/ /\ p \in proc[q].deletes
              /\ proc'[q].writes = proc[q].writes
              /\ proc'[q].deletes = proc[q].deletes \ {p}
        /\ proc'[q].failed = proc[q].failed \cup {p}
        /\ proc'[q].target = proc[q].target
        /\ proc'[q].safety = proc[q].safety
        /\ proc'[q].scope = proc[q].scope
        /\ proc'[q].protected = proc[q].protected
        /\ proc'[q].before = proc[q].before
        /\ proc'[q].sinceRescue = proc[q].sinceRescue
        /\ proc'[q].stage = proc[q].stage /\ proc'[q].kind = proc[q].kind
        /\ proc'[q].reversing = proc[q].reversing
        /\ proc'[q].conflicts = proc[q].conflicts
        /\ proc'[q].sinceCheck = proc[q].sinceCheck
    BY <1>1, <2>1 DEF Process
  <2> QED
    BY <1>4, <2>1, <2>2 DEF Fail
<1> QED
  BY <1>2, <1>3, <1>4

\* A step keeps every plan within what its target records.
LEMMA PlanStep ==
    ASSUME TypeOK, PlanFollowsTarget, [Next]_vars PROVE PlanFollowsTarget'
<1> SUFFICES ASSUME NEW q \in Proc, proc'[q].stage = "applying"
             PROVE  /\ proc'[q].writes \subseteq
                           Recorded(proc'[q].target) \ proc'[q].protected
                    /\ proc'[q].deletes \subseteq
                           proc'[q].target.absent \ proc'[q].protected
  BY DEF PlanFollowsTarget, Recorded
<1>1. CASE Rescue(q)
  BY <1>1, RescueEffect DEF Writes, Deletes
<1>2. ASSUME NEW p \in Path, Write(q, p) \/ Delete(q, p) \/ Fail(q, p)
      PROVE  /\ proc'[q].writes \subseteq Recorded(proc'[q].target) \ proc'[q].protected
             /\ proc'[q].deletes \subseteq proc'[q].target.absent \ proc'[q].protected
  BY <1>2, FileEffect DEF PlanFollowsTarget
<1>3. CASE Stands(q)
  BY <1>3 DEF Stands, Kept, PlanFollowsTarget
<1> QED
  BY <1>1, <1>2, <1>3, ApplyingStep

\* Initially the state is typed and no restore has a plan.
LEMMA InitTyped == Init => TypeOK /\ PlanFollowsTarget
<1> SUFFICES ASSUME Init PROVE TypeOK /\ PlanFollowsTarget
  OBVIOUS
<1>1. Idle.stage = "idle"
  BY DEF Idle
<1>2. /\ disk \in [Path -> File]
      /\ past \in [Path -> SUBSET File]
  BY StorableFiles DEF Init
<1>3. /\ log \in [Session -> Seq(LogEntry)]
      /\ undo \in [Session -> Seq(UndoRecord)]
      /\ \A s \in Session : Len(undo[s]) <= MaxUndo
  BY BoundAssumption DEF Init
<1>4. DOMAIN index = {}
  BY DEF Init
<1>5. proc \in [Proc -> Process]
  BY IdleType DEF Init
<1> QED
  BY <1>1, <1>2, <1>3, <1>4, <1>5 DEF Init, TypeOK, PlanFollowsTarget

\* The state has the shape TypeOK gives it: in particular no undo stack ever
\* holds more than MAX_RESTORE_HISTORY records, and every restore under way is
\* some session's.  A plan follows its target's entries and tombstones, which
\* the argument needs: what is written is then always a recorded file.
THEOREM TypeInvariant == Spec => [](TypeOK /\ PlanFollowsTarget)
<1>1. TypeOK /\ PlanFollowsTarget /\ [Next]_vars => (TypeOK /\ PlanFollowsTarget)'
  BY TypeStep, PlanStep
<1> QED
  BY <1>1, InitTyped, PTL DEF Spec

-----------------------------------------------------------------------------
(* Undo stacks. *)

\* Undo stacks change only where a restore ends.
LEMMA StackStep ==
    ASSUME [Next]_vars
    PROVE  UNCHANGED undo \/ \E r \in Proc : FinishRewind(r) \/ FinishUndo(r)
<1> DEFINE Goal == UNCHANGED undo \/ \E r \in Proc : FinishRewind(r) \/ FinishUndo(r)
<1>1. ASSUME NEW p \in Path, Edit(p) \/ EditIgnore(p) PROVE Goal
  BY <1>1 DEF Edit, EditIgnore
<1>2. ASSUME NEW i \in images, DeclareKey(i) \/ DeclareWatch(i) PROVE Goal
  BY <1>2 DEF DeclareKey, DeclareWatch
<1>3. ASSUME NEW s \in Session, NEW t \in Turn, Checkpoint(s, t) PROVE Goal
  BY <1>3 DEF Checkpoint, Publish
<1>4. ASSUME NEW s \in Session, NEW t \in Turn, NEW p \in Path, DeclareRead(s, t, p)
      PROVE  Goal
  BY <1>4 DEF DeclareRead
<1>5. ASSUME NEW s \in Session, NEW dst \in Session, NEW t \in Turn, Fork(s, dst, t)
      PROVE  Goal
  BY <1>5 DEF Fork
<1>6. ASSUME NEW i \in images, DeclareAttach(i) PROVE Goal
  BY <1>6 DEF DeclareAttach, Publish
<1>7. ASSUME NEW i \in images, DeclareDrop(i) PROVE Goal
  BY <1>7 DEF DeclareDrop
<1>8. ASSUME NEW r \in Proc, NEW s \in Session, ResolveUndo(r, s) PROVE Goal
  BY <1>8 DEF ResolveUndo
<1>9. ASSUME NEW r \in Proc, NEW s \in Session, NEW t \in DOMAIN index,
             NEW owner \in Session \cup {NoSession}, ResolveRewind(r, s, t, owner)
      PROVE  Goal
  BY <1>9 DEF ResolveRewind
<1>10. ASSUME NEW r \in Proc, Survey(r) \/ Crash(r) PROVE Goal
  BY <1>10 DEF Survey, Crash
<1>11. ASSUME NEW r \in Proc, Rescue(r) PROVE Goal
  BY <1>11 DEF Rescue, Publish
<1>12. ASSUME NEW r \in Proc, FinishRewind(r) PROVE Goal
  BY <1>12 DEF FinishRewind
<1>13. ASSUME NEW r \in Proc, FinishUndo(r) PROVE Goal
  BY <1>13 DEF FinishUndo
<1>14. ASSUME NEW r \in Proc, NEW p \in Path, Write(r, p) \/ Delete(r, p) \/ Fail(r, p)
       PROVE  Goal
  BY <1>14 DEF Write, Delete, Fail
<1>15. ASSUME UNCHANGED vars PROVE Goal
  BY <1>15 DEF vars
<1> HIDE DEF Goal
<1>16. Goal
  BY <1>1, <1>2, <1>3, <1>4, <1>5, <1>6, <1>7, <1>8, <1>9, <1>10, <1>11, <1>12,
     <1>13, <1>14, <1>15 DEF Next
<1> QED
  BY <1>16 DEF Goal

\* The record that r files at the end of a rewind.
FiledBy(r) == [target |-> proc[r].target, safety |-> proc[r].safety,
               found |-> proc[r].before, left |-> disk,
               spared |-> proc[r].protected,
               clean |-> proc[r].failed = {} /\ proc[r].sinceRescue = {}]

\* Whatever is on an undo stack was on it already, or a rewind that has just
\* ended filed it.
LEMMA StackMember ==
    ASSUME TypeOK, [Next]_vars, NEW y \in Session, NEW i \in 1..Len(undo'[y])
    PROVE  \/ \E j \in 1..Len(undo[y]) : undo'[y][i] = undo[y][j]
           \/ \E r \in Proc : FinishRewind(r) /\ undo'[y][i] = FiledBy(r)
<1> DEFINE Old == \E j \in 1..Len(undo[y]) : undo'[y][i] = undo[y][j]
<1>1. undo[y] \in Seq(UndoRecord)
  BY DEF TypeOK
<1>2. ASSUME undo'[y] = undo[y] PROVE Old
  BY <1>2
<1>3. ASSUME NEW r \in Proc, FinishRewind(r)
      PROVE  Old \/ undo'[y][i] = FiledBy(r)
  <2> DEFINE x == FiledBy(r)
  <2>1. x \in UndoRecord
    BY ProcessType DEF TypeOK, UndoRecord, FiledBy
  <2>2. UNCHANGED undo \/ \E s \in Session : undo' = [undo EXCEPT ![s] = Pushed(@, x)]
    BY <1>3, ProcessType DEF FinishRewind, TypeOK, FiledBy
  <2> HIDE DEF x
  <2>3. undo'[y] = undo[y] \/ undo'[y] = Pushed(undo[y], x)
    BY <2>2 DEF TypeOK
  <2>4. /\ Append(undo[y], x) \in Seq(UndoRecord)
        /\ \A k \in 1..Len(Append(undo[y], x)) :
              \/ k \in 1..Len(undo[y]) /\ Append(undo[y], x)[k] = undo[y][k]
              \/ Append(undo[y], x)[k] = x
    BY <1>1, <2>1
  <2>5. \A stack \in Seq(UndoRecord) :
           \A k \in 1..Len(Tail(stack)) : \E n \in 1..Len(stack) : Tail(stack)[k] = stack[n]
    OBVIOUS
  <2>6. CASE undo'[y] = Pushed(undo[y], x)
    <3>1. \E k \in 1..Len(Append(undo[y], x)) : undo'[y][i] = Append(undo[y], x)[k]
      BY <2>4, <2>5, <2>6 DEF Pushed
    <3> QED
      BY <2>4, <3>1 DEF x
  <2> QED
    BY <1>2, <2>3, <2>6
<1>4. ASSUME NEW r \in Proc, FinishUndo(r) PROVE Old
  <2>1. undo'[y] = undo[y] \/ undo'[y] = Popped(undo[y])
    BY <1>4 DEF FinishUndo, TypeOK
  <2>2. CASE undo[y] # <<>>
    <3>1. PICK n : n = Len(undo[y]) - 1
      OBVIOUS
    <3>2. n \in 0..Len(undo[y])
      BY <1>1, <2>2, <3>1
    <3>3. /\ Len(SubSeq(undo[y], 1, n)) = n
          /\ \A k \in 1..n : SubSeq(undo[y], 1, n)[k] = undo[y][k]
      BY <1>1, <3>2
    <3>4. CASE undo'[y] = SubSeq(undo[y], 1, n)
      <4>1. i \in 1..n
        BY <3>3, <3>4
      <4>2. undo'[y][i] = undo[y][i] /\ i \in 1..Len(undo[y])
        BY <1>1, <3>2, <3>3, <3>4, <4>1
      <4> QED
        BY <4>2
    <3> QED
      BY <1>2, <2>1, <2>2, <3>1, <3>4 DEF Popped
  <2>3. CASE undo[y] = <<>>
    BY <1>2, <2>1, <2>3 DEF Popped
  <2> QED
    BY <2>2, <2>3
<1> HIDE DEF Old
<1>5. Old \/ \E r \in Proc : FinishRewind(r) /\ undo'[y][i] = FiledBy(r)
  BY <1>2, <1>3, <1>4, StackStep
<1> QED
  BY <1>5 DEF Old

-----------------------------------------------------------------------------
(* A restore ends where its target says. *)

\* Where r has nothing left to do at p, p is as the target has it, or as the
\* rescue capture found it.
ReachedAt(r, p) ==
    LET target == proc[r].target IN
    IF p \in Observed(target) \ proc[r].protected
    THEN p \notin proc[r].writes \cup proc[r].deletes =>
            \/ p \in Recorded(target) /\ Matches(disk[p], target.entries[p])
            \/ p \in target.absent /\ disk[p] \notin Regular
    ELSE disk[p] = proc[r].before[p]

\* RestoreReachesTarget, for a restore at any point of applying.
RestoreAdvances ==
    \A r \in Proc : proc[r].stage = "applying" =>
        \A p \in Path \ (proc[r].failed \cup proc[r].sinceRescue) : ReachedAt(r, p)

\* A file that need not be written already is what the target asks for, and
\* one that has been written is.
LEMMA NothingToWrite ==
    ASSUME NEW d \in [Path -> File], NEW observed \in SUBSET Path, NEW target \in Manifest,
           NEW p \in Recorded(target), ~ Differs(Captured(d, observed).entries[p],
                                                 target.entries[p])
    PROVE  Matches(d[p], target.entries[p])
<1>1. p \in Path
  BY DEF Recorded
<1>2. Captured(d, observed).entries[p] # NoEntry
  BY DEF Differs
<1>3. d[p] \in Regular /\ Captured(d, observed).entries[p] = d[p]
  BY <1>1, <1>2 DEF Captured
<1> QED
  BY <1>3 DEF Differs, ModesClash, Matches

\* A file just written from an entry matches that entry.
LEMMA WrittenMatches ==
    ASSUME NEW entry \in Entry, NEW was \in File, NEW umask \in Mode
    PROVE  Matches(Written(entry, was, umask), entry)
<1>1. Written(entry, was, umask) \in Regular
  BY WrittenType
<1>2. Written(entry, was, umask).data = entry.data
  BY DEF Written
<1>3. entry.mode # NoMode => Written(entry, was, umask).mode = entry.mode
  BY DEF Written
<1> QED
  BY <1>1, <1>2, <1>3 DEF Matches, ModesClash

\* A step brings every restore under way closer to its target.
LEMMA AdvanceStep ==
    ASSUME TypeOK, PlanFollowsTarget, RestoreAdvances, [Next]_vars
    PROVE  RestoreAdvances'
<1> SUFFICES ASSUME NEW q \in Proc, proc'[q].stage = "applying",
                    NEW p \in Path \ (proc'[q].failed \cup proc'[q].sinceRescue)
             PROVE  ReachedAt(q, p)'
  BY DEF RestoreAdvances
<1> DEFINE target == proc[q].target
<1>1. /\ proc[q] \in Process /\ target \in Manifest
      /\ disk \in [Path -> File]
      /\ proc[q].scope \in SUBSET Path
  BY ProcessType DEF TypeOK
<1>2. CASE Rescue(q)
  <2> DEFINE observed == RescueScope(proc[q].scope, target)
             safety == Captured(disk, observed)
  <2>1. /\ proc'[q].target = target
        /\ proc'[q].protected = proc[q].protected
        /\ proc'[q].before = disk /\ disk' = disk
        /\ proc'[q].writes = Writes(target, safety, proc[q].protected)
        /\ proc'[q].deletes = Deletes(target, safety, proc[q].protected)
    BY <1>2, RescueEffect
  <2>2. observed \in SUBSET Path /\ Observed(target) \subseteq observed
    BY <1>1, ObservedPaths DEF RescueScope
  <2>3. ASSUME p \in Observed(target) \ proc[q].protected,
               p \notin Writes(target, safety, proc[q].protected),
               p \notin Deletes(target, safety, proc[q].protected)
        PROVE  \/ p \in Recorded(target) /\ Matches(disk[p], target.entries[p])
               \/ p \in target.absent /\ disk[p] \notin Regular
    <3>1. CASE p \in Recorded(target)
      <4>1. ~ Differs(safety.entries[p], target.entries[p])
        BY <2>3, <3>1 DEF Writes
      <4> QED
        BY <1>1, <2>2, <3>1, <4>1, NothingToWrite
    <3>2. CASE p \in target.absent
      <4>1. p \notin Recorded(safety)
        BY <2>3, <3>2 DEF Deletes
      <4>2. disk[p] \notin Regular
        BY <2>2, <2>3, <4>1, DistinctMarkers DEF Recorded, Captured, Regular, Entry
      <4> QED
        BY <3>2, <4>2
    <3> QED
      BY <2>3, <3>1, <3>2 DEF Observed
  <2> HIDE DEF safety
  <2> QED
    BY <2>1, <2>3 DEF ReachedAt, Observed, Recorded
<1>3. ASSUME NEW x \in Path, Write(q, x) \/ Delete(q, x) \/ Fail(q, x)
      PROVE  ReachedAt(q, p)'
  <2>1. /\ proc[q].stage = "applying"
        /\ proc'[q].target = target
        /\ proc'[q].protected = proc[q].protected
        /\ proc'[q].before = proc[q].before
        /\ proc'[q].sinceRescue = proc[q].sinceRescue
        /\ proc[q].failed \subseteq proc'[q].failed
    BY <1>3, FileEffect
  <2>2. ReachedAt(q, p)
    BY <2>1 DEF RestoreAdvances
  <2>3. CASE p # x
    <3>1. /\ disk'[p] = disk[p]
          /\ p \in proc'[q].writes \cup proc'[q].deletes
                <=> p \in proc[q].writes \cup proc[q].deletes
      BY <1>3, <2>3, FileEffect
    <3> QED
      BY <2>1, <2>2, <3>1 DEF ReachedAt, Observed, Recorded
  <2>4. CASE p = x
    <3>1. /\ proc[q].writes \subseteq Recorded(target) \ proc[q].protected
          /\ proc[q].deletes \subseteq target.absent \ proc[q].protected
      BY <2>1 DEF PlanFollowsTarget
    <3>2. \/ /\ p \in proc[q].writes
             /\ \E umask \in Mode : disk'[p] = Written(target.entries[p], disk[p], umask)
          \/ p \in proc[q].deletes /\ disk'[p] = Missing
      BY <1>3, <2>4, FileEffect
    <3>3. CASE /\ p \in proc[q].writes
               /\ \E umask \in Mode : disk'[p] = Written(target.entries[p], disk[p], umask)
      <4>1. target.entries[p] \in Entry /\ disk[p] \in File
        BY <1>1, <3>1, <3>3 DEF Recorded, Manifest
      <4>2. Matches(disk'[p], target.entries[p])
        BY <3>3, <4>1, WrittenMatches
      <4> QED
        BY <2>1, <3>1, <3>3, <4>2 DEF ReachedAt, Observed, Recorded
    <3>4. CASE p \in proc[q].deletes /\ disk'[p] = Missing
      BY <2>1, <3>1, <3>4, StorableFiles DEF ReachedAt, Observed, Recorded
    <3> QED
      BY <3>2, <3>3, <3>4
  <2> QED
    BY <2>3, <2>4
<1>4. CASE Stands(q)
  <2>1. ReachedAt(q, p)
    BY <1>4 DEF Stands, Kept, RestoreAdvances
  <2>2. disk'[p] = disk[p]
    BY <1>4 DEF Stands
  <2> QED
    BY <1>4, <2>1, <2>2 DEF Stands, Kept, ReachedAt, Observed, Recorded
<1> QED
  BY <1>2, <1>3, <1>4, ApplyingStep

\* A restore that ends has left every path its target speaks of as the target
\* has it, whatever other restores, captures and edits of other files went on
\* around it (restore.rs, plan_restore and apply_plan).
THEOREM RestoresReachTheirTarget == Spec => []RestoreReachesTarget
<1>1. Init => RestoreAdvances
  <2>1. Idle.stage = "idle"
    BY DEF Idle
  <2> QED
    BY <2>1 DEF Init, RestoreAdvances
<1>2. TypeOK /\ PlanFollowsTarget /\ RestoreAdvances /\ [Next]_vars => RestoreAdvances'
  BY AdvanceStep
<1>3. ASSUME TypeOK, RestoreAdvances PROVE RestoreReachesTarget
  <2> SUFFICES ASSUME NEW r \in Proc, Done(r),
                      NEW p \in Path \ (proc[r].failed \cup proc[r].sinceRescue)
               PROVE  LET target == proc[r].target IN
                      IF p \in Observed(target) \ proc[r].protected
                      THEN \/ /\ p \in Recorded(target)
                              /\ Matches(disk[p], target.entries[p])
                           \/ p \in target.absent /\ disk[p] \notin Regular
                      ELSE disk[p] = proc[r].before[p]
    BY DEF RestoreReachesTarget
  <2>1. ReachedAt(r, p)
    BY <1>3 DEF RestoreAdvances, Done
  <2> QED
    BY <2>1 DEF ReachedAt, Done
<1> QED
  BY <1>1, <1>2, <1>3, TypeInvariant, PTL DEF Spec

-----------------------------------------------------------------------------
(* Every restore is reversible before it begins. *)

\* What a restore has changed so far its target speaks of, and is a file or
\* nothing; and the rescue capture looked at everything its target speaks of.
RescueIsComplete ==
    \A r \in Proc : proc[r].stage = "applying" =>
        /\ proc[r].safety = Captured(proc[r].before,
                                     RescueScope(proc[r].scope, proc[r].target))
        /\ \A p \in Path \ proc[r].sinceRescue :
              disk[p] # proc[r].before[p] =>
                  p \in Observed(proc[r].target) /\ disk[p] \in Storable

\* A file, or its absence, that a capture of it holds.
LEMMA CapturedHolds ==
    ASSUME NEW d \in [Path -> File], NEW observed \in SUBSET Path, NEW p \in observed,
           d[p] \in Storable
    PROVE  \/ Captured(d, observed).entries[p] = d[p]
           \/ p \in Captured(d, observed).absent /\ d[p] = Missing
BY DEF Captured, Storable

-----------------------------------------------------------------------------
(* What the records say was so. *)

\* m says of the past only what was seen.  Where unstorable paths may occur, a
\* tombstone may be false (declare.rs takes any read failure for absence).
KnownIn(m, seen) ==
    \A p \in Path :
        /\ p \in Recorded(m) =>
              \E f \in seen[p] : /\ ThroughLinks(f) \in Regular
                                 /\ ThroughLinks(f).data = m.entries[p].data
        /\ Unstorable = {} /\ p \in m.absent => Missing \in seen[p]

FilesSeen ==
    /\ \A p \in Path : disk[p] \in past[p] /\ (Unstorable = {} => disk[p] \in Storable)
    /\ \A i \in images : i.file \in past[i.path] /\ (Unstorable = {} => i.file \in Storable)

LogsKnown == \A s \in Session : \A i \in 1..Len(log[s]) : KnownIn(log[s][i].manifest, past)
IndexKnown == \A t \in DOMAIN index : KnownIn(index[t], past)
StacksKnown ==
    \A s \in Session : \A i \in 1..Len(undo[s]) :
        KnownIn(undo[s][i].target, past) /\ KnownIn(undo[s][i].safety, past)
RestoresKnown ==
    \A r \in Proc : KnownIn(proc[r].target, past) /\ KnownIn(proc[r].safety, past)

Truth == FilesSeen /\ LogsKnown /\ IndexKnown /\ StacksKnown /\ RestoresKnown

\* A true record stays true as more is seen.
LEMMA KnownStays ==
    ASSUME NEW m, NEW seen, NEW later, KnownIn(m, seen), \A p \in Path : seen[p] \subseteq later[p]
    PROVE  KnownIn(m, later)
BY DEF KnownIn

\* The empty manifest states nothing that was not seen.
LEMMA EmptyKnown == ASSUME NEW seen PROVE KnownIn(EmptyManifest, seen)
BY EmptyManifestType DEF KnownIn

\* A capture states only what is on disk.
LEMMA CapturedKnown ==
    ASSUME NEW d \in [Path -> File], NEW observed \in SUBSET Path, NEW seen,
           \A p \in Path : d[p] \in seen[p]
    PROVE  KnownIn(Captured(d, observed), seen)
BY StorableFiles DEF KnownIn, Captured, Recorded

\* A declaration adds only what it read, if what it read can be stored.
LEMMA AttachedKnown ==
    ASSUME NEW m \in Manifest, NEW p \in Path, NEW f \in File, NEW seen, KnownIn(m, seen),
           f \in seen[p], Unstorable = {} => f \in Storable
    PROVE  KnownIn(Attached(m, p, ThroughLinks(f)), seen)
<1> DEFINE g == ThroughLinks(f)
<1>1. CASE p \in Recorded(m)
  BY <1>1 DEF Attached
<1>2. CASE p \notin Recorded(m) /\ g \in Regular
  <2> DEFINE entry == [data |-> g.data, mode |-> NoMode]
  <2>1. Attached(m, p, g) = [m EXCEPT !.entries[p] = entry]
    BY <1>2 DEF Attached, WithPreImage
  <2>2. /\ Attached(m, p, g).entries = [m.entries EXCEPT ![p] = entry]
        /\ Attached(m, p, g).absent = m.absent
    BY <2>1 DEF Manifest
  <2>3. m.entries \in [Path -> Entry \cup {NoEntry}]
    BY DEF Manifest
  <2>4. \A x \in Path : Attached(m, p, g).entries[x] = IF x = p THEN entry ELSE m.entries[x]
    BY <2>2, <2>3
  <2>5. entry.data = g.data
    OBVIOUS
  <2> HIDE DEF entry
  <2> QED
    BY <1>2, <2>2, <2>4, <2>5 DEF KnownIn, Recorded
<1>3. CASE p \notin Recorded(m) /\ g \notin Regular
  <2>1. Attached(m, p, g) = [m EXCEPT !.absent = @ \cup {p}]
    BY <1>3 DEF Attached, WithTombstone
  <2>2. /\ Attached(m, p, g).entries = m.entries
        /\ Attached(m, p, g).absent = m.absent \cup {p}
    BY <2>1 DEF Manifest
  <2>3. Unstorable = {} => f = Missing
    BY <1>3, StorableFiles DEF Storable
  <2> QED
    BY <2>2, <2>3 DEF KnownIn, Recorded
<1> QED
  BY <1>1, <1>2, <1>3

\* A step changes no file, or one: what it becomes is seen, and a file is
\* removed only from outside or by a restore's Delete.
LEMMA FileStep ==
    ASSUME TypeOK, PlanFollowsTarget, [Next]_vars
    PROVE  \/ UNCHANGED <<disk, past>>
           \/ \E p \in Path, f \in File :
                 /\ disk' = [disk EXCEPT ![p] = f]
                 /\ past' = [past EXCEPT ![p] = @ \cup {f}]
                 /\ Unstorable = {} => f \in Storable
                 /\ \/ edits' # edits
                    \/ f \in Regular
                    \/ \E r \in Proc : Delete(r, p)
<1> DEFINE Changed(p, f) == /\ disk' = [disk EXCEPT ![p] = f]
                            /\ past' = [past EXCEPT ![p] = @ \cup {f}]
                            /\ Unstorable = {} => f \in Storable
                            /\ \/ edits' # edits
                               \/ f \in Regular
                               \/ \E r \in Proc : Delete(r, p)
           Goal == UNCHANGED <<disk, past>> \/ \E p \in Path, f \in File : Changed(p, f)
<1>1. ASSUME NEW p \in Path, Edit(p) PROVE Goal
  <2>1. PICK f \in (Storable \cup Unstorable) \ {disk[p]} :
           Touch(p, f, Outsider)
    BY <1>1 DEF Edit
  <2>2. f \in File /\ (Unstorable = {} => f \in Storable)
    BY <2>1, BoundAssumption, StorableFiles
  <2>3. edits' # edits
    BY <1>1 DEF Edit, TypeOK
  <2>4. disk' = [disk EXCEPT ![p] = f] /\ past' = [past EXCEPT ![p] = @ \cup {f}]
    BY <2>1 DEF Touch
  <2> QED
    BY <2>2, <2>3, <2>4
<1>2. ASSUME NEW r \in Proc, NEW p \in Path, Write(r, p) PROVE Goal
  <2>1. PICK umask \in Mode :
           Touch(p, Written(proc[r].target.entries[p], disk[p], umask),
                 [who |-> r, state |-> [proc[r] EXCEPT !.writes = @ \ {p}]])
    BY <1>2 DEF Write
  <2>2. proc[r].target.entries[p] \in Entry
    BY <1>2, ProcessType DEF Write, PlanFollowsTarget, Recorded, Manifest, TypeOK
  <2>3. PICK f : f = Written(proc[r].target.entries[p], disk[p], umask)
    OBVIOUS
  <2>4. f \in Regular
    BY <2>2, <2>3, WrittenType DEF TypeOK
  <2>5. f \in File /\ f \in Storable
    BY <2>4, StorableFiles
  <2>6. disk' = [disk EXCEPT ![p] = f] /\ past' = [past EXCEPT ![p] = @ \cup {f}]
    BY <2>1, <2>3 DEF Touch
  <2> QED
    BY <2>4, <2>5, <2>6
<1>3. ASSUME NEW r \in Proc, NEW p \in Path, Delete(r, p) PROVE Goal
  <2>1. Missing \in File /\ Missing \in Storable
    BY StorableFiles
  <2>2. disk' = [disk EXCEPT ![p] = Missing] /\ past' = [past EXCEPT ![p] = @ \cup {Missing}]
    BY <1>3 DEF Delete, Touch
  <2> QED
    BY <1>3, <2>1, <2>2
<1>4. ASSUME NEW p \in Path, EditIgnore(p) PROVE Goal
  BY <1>4 DEF EditIgnore
<1>5. ASSUME NEW i \in images, DeclareKey(i) \/ DeclareWatch(i) PROVE Goal
  BY <1>5 DEF DeclareKey, DeclareWatch
<1>6. ASSUME NEW s \in Session, NEW t \in Turn, Checkpoint(s, t) PROVE Goal
  BY <1>6 DEF Checkpoint
<1>7. ASSUME NEW s \in Session, NEW t \in Turn, NEW p \in Path, DeclareRead(s, t, p)
      PROVE  Goal
  BY <1>7 DEF DeclareRead
<1>8. ASSUME NEW s \in Session, NEW dst \in Session, NEW t \in Turn, Fork(s, dst, t)
      PROVE  Goal
  BY <1>8 DEF Fork
<1>9. ASSUME NEW i \in images, DeclareAttach(i) \/ DeclareDrop(i) PROVE Goal
  BY <1>9 DEF DeclareAttach, DeclareDrop
<1>10. ASSUME NEW r \in Proc, NEW s \in Session, ResolveUndo(r, s) PROVE Goal
  BY <1>10 DEF ResolveUndo
<1>11. ASSUME NEW r \in Proc, NEW s \in Session, NEW t \in DOMAIN index,
              NEW owner \in Session \cup {NoSession}, ResolveRewind(r, s, t, owner)
       PROVE  Goal
  BY <1>11 DEF ResolveRewind
<1>12. ASSUME NEW r \in Proc, Survey(r) \/ Rescue(r) \/ Crash(r) PROVE Goal
  BY <1>12 DEF Survey, Rescue, Crash
<1>13. ASSUME NEW r \in Proc, FinishRewind(r) \/ FinishUndo(r) PROVE Goal
  BY <1>13 DEF FinishRewind, FinishUndo
<1>14. ASSUME NEW r \in Proc, NEW p \in Path, Fail(r, p) PROVE Goal
  BY <1>14 DEF Fail
<1>15. ASSUME UNCHANGED vars PROVE Goal
  BY <1>15 DEF vars
<1> HIDE DEF Goal
<1>16. Goal
  BY <1>1, <1>2, <1>3, <1>4, <1>5, <1>6, <1>7, <1>8, <1>9, <1>10, <1>11, <1>12,
     <1>13, <1>14, <1>15 DEF Next
<1> QED
  BY <1>16 DEF Goal

\* What was seen stays seen.
LEMMA SeenStep ==
    ASSUME TypeOK, PlanFollowsTarget, [Next]_vars
    PROVE  \A p \in Path : past[p] \subseteq past'[p]
BY FileStep DEF TypeOK

\* A step leaves log and index alone, publishes what is known, or forks.
LEMMA LogStep ==
    ASSUME TypeOK, Truth, [Next]_vars
    PROVE  \/ UNCHANGED <<log, index>>
           \/ \E s \in Session, t \in TurnKey, m \in Manifest :
                 Publish(s, t, m) /\ KnownIn(m, past)
           \/ /\ UNCHANGED index
              /\ \E src, dst \in Session : \E n \in 0..Len(log[src]) :
                    log' = [log EXCEPT ![dst] = @ \o SubSeq(log[src], 1, n)]
<1> DEFINE Published == \E s \in Session, t \in TurnKey, m \in Manifest :
                           Publish(s, t, m) /\ KnownIn(m, past)
           Forked == /\ UNCHANGED index
                     /\ \E src, dst \in Session : \E n \in 0..Len(log[src]) :
                           log' = [log EXCEPT ![dst] = @ \o SubSeq(log[src], 1, n)]
           Goal == UNCHANGED <<log, index>> \/ Published \/ Forked
<1>1. \A p \in Path : disk[p] \in past[p]
  BY DEF Truth, FilesSeen
<1>2. disk \in [Path -> File]
  BY DEF TypeOK
<1>3. ASSUME NEW s \in Session, NEW t \in Turn, Checkpoint(s, t) PROVE Goal
  <2>1. PICK observed \in SUBSET ((Path \ ignored) \cup declared[s]) :
           Publish(s, t, Captured(disk, observed))
    BY <1>3 DEF Checkpoint
  <2>4. observed \in SUBSET Path
    BY <2>1 DEF TypeOK
  <2>2. Captured(disk, observed) \in Manifest /\ KnownIn(Captured(disk, observed), past)
    BY <1>1, <1>2, <2>4, CapturedType, CapturedKnown
  <2>3. t \in TurnKey
    BY DEF TurnKey
  <2> QED
    BY <2>1, <2>2, <2>3
<1>4. ASSUME NEW i \in images, DeclareAttach(i) PROVE Goal
  <2> DEFINE extended == IF OwnKey(disk[i.path])
                         THEN Attached(Latest(i.session), i.path, ThroughLinks(i.file))
                         ELSE Latest(i.session)
  <2>1. /\ i.session \in Session /\ i.turn \in TurnKey
        /\ i.path \in Path /\ i.file \in File
    BY ImageType DEF TypeOK, TurnKey
  <2>2. Latest(i.session) \in Manifest /\ extended \in Manifest
    BY <2>1, LatestType, AttachedType
  <2>3. KnownIn(Latest(i.session), past)
    <3>1. CASE log[i.session] = <<>>
      BY <3>1, EmptyKnown DEF Latest
    <3>2. CASE log[i.session] # <<>>
      <4>1. log[i.session] \in Seq(LogEntry)
        BY <2>1 DEF TypeOK
      <4>2. /\ Len(log[i.session]) \in 1..Len(log[i.session])
            /\ Latest(i.session) = log[i.session][Len(log[i.session])].manifest
        BY <3>2, <4>1 DEF Latest, Last
      <4> QED
        BY <2>1, <4>2 DEF Truth, LogsKnown
    <3> QED
      BY <3>1, <3>2
  <2>4. KnownIn(extended, past)
    BY <2>1, <2>2, <2>3, AttachedKnown DEF Truth, FilesSeen
  <2>5. UNCHANGED <<log, index>> \/ Publish(i.session, i.turn, extended)
    BY <1>4 DEF DeclareAttach
  <2> HIDE DEF extended
  <2> QED
    BY <2>1, <2>2, <2>4, <2>5
<1>5. ASSUME NEW src \in Session, NEW dst \in Session, NEW t \in Turn, Fork(src, dst, t)
      PROVE  Goal
  <2>1. UNCHANGED index
    BY <1>5 DEF Fork
  <2>2. CASE UNCHANGED log
    BY <2>1, <2>2
  <2>3. ASSUME NEW cut \in 1..Len(log[src]), NEW n \in 0..cut,
               log' = [log EXCEPT ![dst] = @ \o SubSeq(log[src], 1, n)]
        PROVE  Forked
    <3>1. n \in 0..Len(log[src])
      BY DEF TypeOK
    <3> QED
      BY <2>1, <2>3, <3>1
  <2> QED
    BY <1>5, <2>2, <2>3 DEF Fork
<1>6. ASSUME NEW r \in Proc, Rescue(r) PROVE Goal
  <2> DEFINE safety == Captured(disk, RescueScope(proc[r].scope, proc[r].target))
  <2>1. proc[r].session \in Session /\ proc[r].target \in Manifest
    BY <1>6, ProcessType DEF Rescue, TypeOK
  <2>2. RescueScope(proc[r].scope, proc[r].target) \in SUBSET Path
    BY <2>1, ProcessType, ObservedPaths DEF RescueScope, TypeOK
  <2>3. safety \in Manifest /\ KnownIn(safety, past)
    BY <1>1, <1>2, <2>2, CapturedType, CapturedKnown
  <2>4. SafetyTurn(proc[r].target) \in TurnKey
    BY <2>1 DEF SafetyTurn, TurnKey
  <2>5. Publish(proc[r].session, SafetyTurn(proc[r].target), safety)
    BY <1>6 DEF Rescue
  <2> HIDE DEF safety
  <2> QED
    BY <2>1, <2>3, <2>4, <2>5
<1>7. ASSUME NEW p \in Path, Edit(p) \/ EditIgnore(p) PROVE Goal
  BY <1>7 DEF Edit, EditIgnore
<1>8. ASSUME NEW i \in images, DeclareKey(i) \/ DeclareWatch(i) PROVE Goal
  BY <1>8 DEF DeclareKey, DeclareWatch
<1>9. ASSUME NEW s \in Session, NEW t \in Turn, NEW p \in Path, DeclareRead(s, t, p)
      PROVE  Goal
  BY <1>9 DEF DeclareRead
<1>10. ASSUME NEW i \in images, DeclareDrop(i) PROVE Goal
  BY <1>10 DEF DeclareDrop
<1>11. ASSUME NEW r \in Proc, NEW s \in Session, ResolveUndo(r, s) PROVE Goal
  BY <1>11 DEF ResolveUndo
<1>12. ASSUME NEW r \in Proc, NEW s \in Session, NEW t \in DOMAIN index,
              NEW owner \in Session \cup {NoSession}, ResolveRewind(r, s, t, owner)
       PROVE  Goal
  BY <1>12 DEF ResolveRewind
<1>13. ASSUME NEW r \in Proc, Survey(r) \/ Crash(r) PROVE Goal
  BY <1>13 DEF Survey, Crash
<1>14. ASSUME NEW r \in Proc, FinishRewind(r) \/ FinishUndo(r) PROVE Goal
  BY <1>14 DEF FinishRewind, FinishUndo
<1>15. ASSUME NEW r \in Proc, NEW p \in Path, Write(r, p) \/ Delete(r, p) \/ Fail(r, p)
       PROVE  Goal
  BY <1>15 DEF Write, Delete, Fail
<1>16. ASSUME UNCHANGED vars PROVE Goal
  BY <1>16 DEF vars
<1> HIDE DEF Goal
<1>17. Goal
  BY <1>3, <1>4, <1>5, <1>6, <1>7, <1>8, <1>9, <1>10, <1>11, <1>12, <1>13, <1>14,
     <1>15, <1>16 DEF Next
<1> QED
  BY <1>17 DEF Goal

\* Where a restore takes its target and its rescue capture from.
LEMMA NamesStep ==
    ASSUME TypeOK, [Next]_vars, NEW q \in Proc
    PROVE  \/ proc'[q].target = proc[q].target /\ proc'[q].safety = proc[q].safety
           \/ Rescue(q)
           \/ proc'[q].safety = EmptyManifest /\ \E t \in DOMAIN index :
                 proc'[q].target = index[t]
           \/ proc'[q].safety = EmptyManifest /\ \E s \in Session :
                 undo[s] # <<>> /\ proc'[q].target = Last(undo[s]).safety
           \/ proc'[q].safety = EmptyManifest /\ proc'[q].target = EmptyManifest
<1> DEFINE Same == proc'[q].target = proc[q].target /\ proc'[q].safety = proc[q].safety
           Goal == \/ Same
                   \/ Rescue(q)
                   \/ proc'[q].safety = EmptyManifest /\ \E t \in DOMAIN index :
                         proc'[q].target = index[t]
                   \/ proc'[q].safety = EmptyManifest /\ \E s \in Session :
                         undo[s] # <<>> /\ proc'[q].target = Last(undo[s]).safety
                   \/ proc'[q].safety = EmptyManifest /\ proc'[q].target = EmptyManifest
<1>1. /\ proc \in [Proc -> Process] /\ proc[q] \in Process
      /\ Idle \in Process /\ Idle.target = EmptyManifest /\ Idle.safety = EmptyManifest
  BY IdleType DEF TypeOK, Idle
<1>2. ASSUME NEW p \in Path, Edit(p) PROVE Goal
  <2>1. proc'[q] \in {Idle, proc[q], Disturbed(proc[q], p)}
    BY <1>2 DEF Edit, Touch, Outsider, Disturbed
  <2> QED
    BY <1>1, <2>1 DEF Disturbed, Process
<1>3. ASSUME NEW p \in Path, EditIgnore(p) PROVE Goal
  <2>1. proc'[q] \in {proc[q], [proc[q] EXCEPT !.sinceCheck = @ \cup {p}]}
    BY <1>3 DEF EditIgnore
  <2> QED
    BY <1>1, <2>1 DEF Process
<1>4. ASSUME NEW r \in Proc, NEW p \in Path, Write(r, p) \/ Delete(r, p) PROVE Goal
  <2>1. proc'[q] \in {proc[q], Disturbed(proc[q], p),
                      [proc[q] EXCEPT !.writes = @ \ {p}],
                      [proc[q] EXCEPT !.deletes = @ \ {p}]}
    BY <1>4 DEF Write, Delete, Touch, Disturbed
  <2> QED
    BY <1>1, <2>1 DEF Disturbed, Process
<1>5. ASSUME NEW r \in Proc, NEW p \in Path, Fail(r, p) PROVE Goal
  <2>1. proc'[q] \in {proc[q],
                      [proc[q] EXCEPT !.writes = @ \ {p}, !.failed = @ \cup {p}],
                      [proc[q] EXCEPT !.deletes = @ \ {p}, !.failed = @ \cup {p}]}
    BY <1>1, <1>5 DEF Fail
  <2> QED
    BY <1>1, <2>1 DEF Process
<1>6. ASSUME NEW r \in Proc, NEW s \in Session, ResolveUndo(r, s) PROVE Goal
  <2>1. CASE r = q
    <3> DEFINE record == Last(undo[s])
               next(k) == [Idle EXCEPT !.stage = "resolved", !.kind = "undo",
                                       !.session = s, !.owner = s,
                                       !.target = record.safety, !.conflicts = k,
                                       !.reversing = record]
    <3>1. \A k : next(k).target = record.safety /\ next(k).safety = EmptyManifest
      BY <1>1 DEF Process
    <3>2. proc' = [proc EXCEPT ![q] = next(Conflicts(record.target, record.safety,
                                                     disk, ignored))]
      BY <1>6, <2>1 DEF ResolveUndo
    <3> HIDE DEF next
    <3> QED
      BY <1>1, <1>6, <3>1, <3>2 DEF ResolveUndo
  <2>2. CASE r # q
    BY <1>1, <1>6, <2>2 DEF ResolveUndo
  <2> QED
    BY <2>1, <2>2
<1>7. ASSUME NEW r \in Proc, NEW s \in Session, NEW t \in DOMAIN index,
             NEW owner \in Session \cup {NoSession}, ResolveRewind(r, s, t, owner)
      PROVE  Goal
  <2>1. CASE r = q
    BY <1>1, <1>7, <2>1 DEF ResolveRewind, Process
  <2>2. CASE r # q
    BY <1>1, <1>7, <2>2 DEF ResolveRewind
  <2> QED
    BY <2>1, <2>2
<1>8. ASSUME NEW r \in Proc, Survey(r) PROVE Goal
  <2> DEFINE next(w) == [proc[r] EXCEPT !.stage = "surveyed", !.scope = w,
                                        !.protected = ignored]
  <2>1. \A w : next(w).target = proc[r].target /\ next(w).safety = proc[r].safety
    BY <1>1 DEF Process
  <2>2. PICK w : proc' = [proc EXCEPT ![r] = next(w)]
    BY <1>8 DEF Survey
  <2> HIDE DEF next
  <2> QED
    BY <1>1, <2>1, <2>2
<1>9. ASSUME NEW r \in Proc, Rescue(r) PROVE Goal
  <2>1. CASE r = q
    BY <1>9, <2>1
  <2>2. CASE r # q
    <3>1. proc'[q] = proc[q]
      BY <1>1, <1>9, <2>2 DEF Rescue
    <3> QED
      BY <3>1
  <2> QED
    BY <2>1, <2>2
<1>10. ASSUME NEW r \in Proc, FinishRewind(r) \/ FinishUndo(r) \/ Crash(r) PROVE Goal
  BY <1>1, <1>10 DEF FinishRewind, FinishUndo, Crash
<1>11. ASSUME UNCHANGED proc PROVE Goal
  BY <1>11
<1>12. ASSUME NEW i \in images, DeclareKey(i) \/ DeclareWatch(i) PROVE UNCHANGED proc
  BY <1>12 DEF DeclareKey, DeclareWatch
<1>13. ASSUME NEW s \in Session, NEW t \in Turn, Checkpoint(s, t) PROVE UNCHANGED proc
  BY <1>13 DEF Checkpoint
<1>14. ASSUME NEW s \in Session, NEW t \in Turn, NEW p \in Path, DeclareRead(s, t, p)
       PROVE  UNCHANGED proc
  BY <1>14 DEF DeclareRead
<1>15. ASSUME NEW s \in Session, NEW dst \in Session, NEW t \in Turn, Fork(s, dst, t)
       PROVE  UNCHANGED proc
  BY <1>15 DEF Fork
<1>16. ASSUME NEW i \in images, DeclareAttach(i) \/ DeclareDrop(i) PROVE UNCHANGED proc
  BY <1>16 DEF DeclareAttach, DeclareDrop
<1>17. ASSUME UNCHANGED vars PROVE UNCHANGED proc
  BY <1>17 DEF vars
<1> HIDE DEF Goal
<1>18. Goal
  BY <1>2, <1>3, <1>4, <1>5, <1>6, <1>7, <1>8, <1>9, <1>10, <1>11, <1>12, <1>13,
     <1>14, <1>15, <1>16, <1>17 DEF Next
<1> QED
  BY <1>18 DEF Goal

\* A step keeps every record true.
LEMMA TruthStep ==
    ASSUME TypeOK, PlanFollowsTarget, Truth, [Next]_vars PROVE Truth'
<1>1. \A p \in Path : past[p] \subseteq past'[p]
  BY SeenStep
<1>2. \A m : KnownIn(m, past) => KnownIn(m, past')
  BY <1>1, KnownStays
<1>3. FilesSeen'
  <2>1. \A p \in Path : disk'[p] \in past'[p] /\ (Unstorable = {} => disk'[p] \in Storable)
    <3>1. \A p \in Path : disk[p] \in past[p] /\ (Unstorable = {} => disk[p] \in Storable)
      BY DEF Truth, FilesSeen
    <3>2. CASE UNCHANGED <<disk, past>>
      BY <3>1, <3>2
    <3>3. ASSUME NEW x \in Path, NEW f \in File,
                 disk' = [disk EXCEPT ![x] = f], past' = [past EXCEPT ![x] = @ \cup {f}],
                 Unstorable = {} => f \in Storable
          PROVE  \A p \in Path : disk'[p] \in past'[p]
                                 /\ (Unstorable = {} => disk'[p] \in Storable)
      <4>1. disk \in [Path -> File] /\ past \in [Path -> SUBSET File]
        BY DEF TypeOK
      <4>2. /\ disk'[x] = f /\ f \in past'[x]
            /\ \A p \in Path \ {x} : disk'[p] = disk[p] /\ past'[p] = past[p]
        BY <3>3, <4>1
      <4> QED
        BY <3>1, <3>3, <4>2
    <3> QED
      BY <3>2, <3>3, FileStep
  <2>2. ASSUME NEW i \in images'
        PROVE  i.file \in past'[i.path] /\ (Unstorable = {} => i.file \in Storable)
    <3>1. CASE i \in images
      BY <1>1, <3>1, ImageType DEF Truth, FilesSeen, TypeOK
    <3>2. CASE /\ i \notin images
               /\ \E j \in images : DeclareKey(j) \/ DeclareAttach(j)
      <4>1. PICK j \in images : i \in {[j EXCEPT !.stage = "keyed"],
                                       [j EXCEPT !.stage = "attached"]}
        BY <3>2 DEF DeclareKey, DeclareAttach
      <4>2. j \in Image /\ i.file = j.file /\ i.path = j.path
        BY <4>1, StagedType DEF TypeOK
      <4> QED
        BY <1>1, <4>1, <4>2, ImageType DEF Truth, FilesSeen
    <3>3. CASE /\ i \notin images
               /\ ~ \E j \in images : DeclareKey(j) \/ DeclareAttach(j)
      <4>1. PICK s \in Session, t \in Turn, p \in Path : DeclareRead(s, t, p)
        <5>1. ASSUME NEW s \in Session, NEW t \in Turn,
                     Checkpoint(s, t) \/ \E dst \in Session : Fork(s, dst, t)
              PROVE  FALSE
          BY <3>3, <5>1 DEF Checkpoint, Fork
        <5>2. ASSUME NEW p \in Path, Edit(p) \/ EditIgnore(p) PROVE FALSE
          BY <3>3, <5>2 DEF Edit, EditIgnore
        <5>4. ASSUME NEW j \in images, DeclareWatch(j) \/ DeclareDrop(j) PROVE FALSE
          BY <3>3, <5>4 DEF DeclareWatch, DeclareDrop
        <5>5. ASSUME NEW r \in Proc, NEW s \in Session, ResolveUndo(r, s) PROVE FALSE
          BY <3>3, <5>5 DEF ResolveUndo
        <5>6. ASSUME NEW r \in Proc, NEW s \in Session, NEW t \in DOMAIN index,
                     NEW owner \in Session \cup {NoSession}, ResolveRewind(r, s, t, owner)
              PROVE  FALSE
          BY <3>3, <5>6 DEF ResolveRewind
        <5>7. ASSUME NEW r \in Proc, Survey(r) \/ Rescue(r) \/ Crash(r) PROVE FALSE
          BY <3>3, <5>7 DEF Survey, Rescue, Crash
        <5>8. ASSUME NEW r \in Proc, FinishRewind(r) \/ FinishUndo(r) PROVE FALSE
          BY <3>3, <5>8 DEF FinishRewind, FinishUndo
        <5>9. ASSUME NEW r \in Proc, NEW p \in Path, Write(r, p) \/ Delete(r, p) \/ Fail(r, p)
              PROVE  FALSE
          BY <3>3, <5>9 DEF Write, Delete, Fail
        <5>10. ASSUME UNCHANGED vars PROVE FALSE
          BY <3>3, <5>10 DEF vars
        <5> QED
          BY <3>3, <5>1, <5>2, <5>4, <5>5, <5>6, <5>7, <5>8, <5>9, <5>10 DEF Next
      <4>2. i = [session |-> s, turn |-> t, path |-> p, file |-> disk[p],
         stage |-> "read"]
        BY <3>3, <4>1 DEF DeclareRead
      <4>3. i.path = p /\ i.file = disk[p] /\ p \in Path
        BY <4>2
      <4> QED
        BY <1>1, <4>3 DEF Truth, FilesSeen
    <3> QED
      BY <3>1, <3>2, <3>3
  <2> QED
    BY <2>1, <2>2 DEF FilesSeen
<1>4. LogsKnown' /\ IndexKnown'
  <2>1. CASE UNCHANGED <<log, index>>
    BY <1>2, <2>1 DEF Truth, LogsKnown, IndexKnown
  <2>2. ASSUME NEW s \in Session, NEW t \in TurnKey, NEW m \in Manifest,
               Publish(s, t, m), KnownIn(m, past)
        PROVE  LogsKnown' /\ IndexKnown'
    <3>1. IndexKnown'
      BY <1>2, <2>2 DEF Truth, IndexKnown, Publish, Indexed
    <3>2. ASSUME NEW x \in Session, NEW i \in 1..Len(log'[x])
          PROVE  KnownIn(log'[x][i].manifest, past)
      <4>1. log[x] \in Seq(LogEntry)
        BY DEF TypeOK
      <4>2. CASE i \in 1..Len(log[x]) /\ log'[x][i] = log[x][i]
        BY <4>2 DEF Truth, LogsKnown
      <4>3. CASE log'[x][i] = [turn |-> t, manifest |-> m]
        BY <2>2, <4>3
      <4>4. CASE x # s
        BY <2>2, <4>2, <4>4 DEF Publish, TypeOK
      <4>5. CASE x = s
        <5>1. log'[x] = Append(log[x], [turn |-> t, manifest |-> m])
          BY <2>2, <4>5 DEF Publish, TypeOK
        <5> QED
          BY <4>1, <4>2, <4>3, <5>1
      <4> QED
        BY <4>4, <4>5
    <3> QED
      BY <1>2, <3>1, <3>2 DEF LogsKnown
  <2>3. ASSUME UNCHANGED index, NEW src \in Session, NEW dst \in Session,
               NEW n \in 0..Len(log[src]),
               log' = [log EXCEPT ![dst] = @ \o SubSeq(log[src], 1, n)]
        PROVE  LogsKnown' /\ IndexKnown'
    <3>1. IndexKnown'
      BY <1>2, <2>3 DEF Truth, IndexKnown
    <3>2. ASSUME NEW x \in Session, NEW i \in 1..Len(log'[x])
          PROVE  KnownIn(log'[x][i].manifest, past)
      <4>1. log[x] \in Seq(LogEntry) /\ log[src] \in Seq(LogEntry)
        BY DEF TypeOK
      <4>2. CASE i \in 1..Len(log[x]) /\ log'[x][i] = log[x][i]
        BY <4>2 DEF Truth, LogsKnown
      <4>3. CASE x # dst
        BY <2>3, <4>2, <4>3 DEF TypeOK
      <4>4. CASE x = dst
        <5>1. log'[x] = log[x] \o SubSeq(log[src], 1, n)
          BY <2>3, <4>4 DEF TypeOK
        <5>2. CASE i \in 1..Len(log[x])
          BY <4>1, <4>2, <5>1, <5>2
        <5>3. CASE i \notin 1..Len(log[x])
          <6>1. /\ SubSeq(log[src], 1, n) \in Seq(LogEntry)
                /\ Len(SubSeq(log[src], 1, n)) = n
                /\ \A j \in 1..n : SubSeq(log[src], 1, n)[j] = log[src][j]
            BY <4>1
          <6> DEFINE taken == SubSeq(log[src], 1, n)
          <6>2. taken \in Seq(LogEntry) /\ Len(taken) = n
            BY <6>1
          <6>3. log'[x] = log[x] \o taken
            BY <5>1
          <6> HIDE DEF taken
          <6>4. PICK j : j = i - Len(log[x])
            OBVIOUS
          <6>5. /\ Len(log'[x]) = Len(log[x]) + n
                /\ Len(log[x]) \in Nat /\ n \in Nat
            <7>1. Len(log[x] \o taken) = Len(log[x]) + Len(taken)
              BY <4>1, <6>2
            <7>2. Len(log[x]) \in Nat /\ Len(log[src]) \in Nat
              BY <4>1
            <7> QED
              BY <6>2, <6>3, <7>1, <7>2
          <6>6. j \in 1..n /\ i = Len(log[x]) + j
            BY <5>3, <6>4, <6>5
          <6>7. log'[x][i] = taken[j]
            BY <4>1, <6>2, <6>3, <6>5, <6>6
          <6>8. log'[x][i] = log[src][j] /\ j \in 1..Len(log[src])
            BY <4>1, <6>1, <6>6, <6>7 DEF taken
          <6> QED
            BY <6>8 DEF Truth, LogsKnown
        <5> QED
          BY <5>2, <5>3
      <4> QED
        BY <4>3, <4>4
    <3> QED
      BY <1>2, <3>1, <3>2 DEF LogsKnown
  <2> QED
    BY <2>1, <2>2, <2>3, LogStep
<1>5. StacksKnown'
  <2> DEFINE Good(x) == KnownIn(x.target, past) /\ KnownIn(x.safety, past)
  <2>1. \A s \in Session : \A i \in 1..Len(undo[s]) : Good(undo[s][i])
    BY DEF Truth, StacksKnown
  <2>2. \A r \in Proc : Good(FiledBy(r))
    BY DEF Truth, RestoresKnown, FiledBy
  <2> HIDE DEF Good
  <2>3. \A s \in Session : \A i \in 1..Len(undo'[s]) : Good(undo'[s][i])
    BY <2>1, <2>2, StackMember
  <2> QED
    BY <1>2, <2>3 DEF StacksKnown, Good
<1>6. RestoresKnown'
  <2> SUFFICES ASSUME NEW q \in Proc
               PROVE  KnownIn(proc'[q].target, past) /\ KnownIn(proc'[q].safety, past)
    BY <1>2 DEF RestoresKnown
  <2>1. KnownIn(EmptyManifest, past)
    BY EmptyKnown
  <2>2. KnownIn(proc[q].target, past) /\ KnownIn(proc[q].safety, past)
    BY DEF Truth, RestoresKnown
  <2>3. CASE Rescue(q)
    <3>1. /\ proc'[q].target = proc[q].target
          /\ proc'[q].safety = Captured(disk, RescueScope(proc[q].scope, proc[q].target))
      BY <2>3, RescueEffect
    <3>2. RescueScope(proc[q].scope, proc[q].target) \in SUBSET Path
      BY ProcessType, ObservedPaths DEF RescueScope, TypeOK
    <3>3. KnownIn(proc'[q].safety, past)
      BY <3>1, <3>2, CapturedKnown DEF TypeOK, Truth, FilesSeen
    <3> QED
      BY <2>2, <3>1, <3>3
  <2>4. \A t \in DOMAIN index : KnownIn(index[t], past)
    BY DEF Truth, IndexKnown
  <2>5. ASSUME NEW s \in Session, undo[s] # <<>> PROVE KnownIn(Last(undo[s]).safety, past)
    <3>1. undo[s] \in Seq(UndoRecord)
      BY DEF TypeOK
    <3>2. Len(undo[s]) \in 1..Len(undo[s]) /\ Last(undo[s]) = undo[s][Len(undo[s])]
      BY <2>5, <3>1 DEF Last
    <3> QED
      BY <3>2 DEF Truth, StacksKnown
  <2> QED
    BY <2>1, <2>2, <2>3, <2>4, <2>5, NamesStep
<1> QED
  BY <1>3, <1>4, <1>5, <1>6 DEF Truth

\* A step keeps the rescue of every restore under way complete.
LEMMA RescueStep ==
    ASSUME TypeOK, PlanFollowsTarget, Truth, RescueIsComplete, [Next]_vars
    PROVE  RescueIsComplete'
<1> SUFFICES ASSUME NEW q \in Proc, proc'[q].stage = "applying"
             PROVE  /\ proc'[q].safety = Captured(proc'[q].before,
                                   RescueScope(proc'[q].scope, proc'[q].target))
                    /\ \A p \in Path \ proc'[q].sinceRescue :
                          disk'[p] # proc'[q].before[p] =>
                              p \in Observed(proc'[q].target) /\ disk'[p] \in Storable
  BY DEF RescueIsComplete, Captured, RescueScope, Observed, Recorded
<1>1. CASE Rescue(q)
  BY <1>1, RescueEffect DEF Truth, FilesSeen
<1>2. CASE \E p \in Path : Write(q, p) \/ Delete(q, p) \/ Fail(q, p)
  <2>1. PICK x \in Path : Write(q, x) \/ Delete(q, x) \/ Fail(q, x)
    BY <1>2
  <2>2. /\ proc[q].stage = "applying"
        /\ proc'[q].target = proc[q].target
        /\ proc'[q].safety = proc[q].safety
        /\ proc'[q].scope = proc[q].scope
        /\ proc'[q].before = proc[q].before
        /\ proc'[q].sinceRescue = proc[q].sinceRescue
        /\ x \in proc[q].writes \cup proc[q].deletes
        /\ \A p \in Path \ {x} : disk'[p] = disk[p]
        /\ \/ disk' = disk
           \/ /\ x \in proc[q].writes
              /\ \E umask \in Mode :
                    disk'[x] = Written(proc[q].target.entries[x], disk[x], umask)
           \/ disk'[x] = Missing
    BY <2>1, FileEffect
  <2>3. x \in Observed(proc[q].target)
    BY <2>2 DEF PlanFollowsTarget, Observed
  <2>4. x \in proc[q].writes => proc[q].target.entries[x] \in Entry
    BY <2>2, ProcessType DEF PlanFollowsTarget, Recorded, Manifest, TypeOK
  <2>5. disk' = disk \/ disk'[x] \in Storable
    BY <2>2, <2>4, WrittenType, StorableFiles
  <2> QED
    BY <2>2, <2>3, <2>5 DEF RescueIsComplete
<1>3. CASE Stands(q)
  BY <1>3 DEF Stands, Kept, RescueIsComplete
<1> QED
  BY <1>1, <1>2, <1>3, ApplyingStep

\* Initially every record is true and there is no restore to rescue.
LEMMA InitTruth == Init => Truth /\ RescueIsComplete
<1> SUFFICES ASSUME Init PROVE Truth /\ RescueIsComplete
  OBVIOUS
<1>1. FilesSeen
  BY DEF Init, FilesSeen
<1>2. LogsKnown /\ IndexKnown /\ StacksKnown
  BY DEF Init, LogsKnown, IndexKnown, StacksKnown
<1>3. /\ Idle.target = EmptyManifest /\ Idle.safety = EmptyManifest
      /\ Idle.stage = "idle"
  BY DEF Idle
<1>4. RestoresKnown /\ RescueIsComplete
  BY <1>3, EmptyKnown DEF Init, RestoresKnown, RescueIsComplete
<1> QED
  BY <1>1, <1>2, <1>4 DEF Truth

\* Every record is true in every reachable state.
LEMMA TruthInvariant == Spec => [](TypeOK /\ PlanFollowsTarget /\ Truth)
<1>1. /\ TypeOK /\ PlanFollowsTarget /\ Truth
      /\ [Next]_vars
      => (TypeOK /\ PlanFollowsTarget /\ Truth)'
  BY TypeStep, PlanStep, TruthStep
<1> QED
  BY <1>1, InitTyped, InitTruth, PTL DEF Spec

\* No log, index entry, undo record or restore ever names a manifest that says
\* of a file what was not so: content it holds was at that path, and, unless
\* something no capture can store occurs, a tombstone's path was empty.
THEOREM RecordsStateOnlyWhatWas == Spec => [](Unstorable = {} => RecordsAreTrue)
<1>1. TypeOK /\ Truth => (Unstorable = {} => RecordsAreTrue)
  <2> SUFFICES ASSUME Truth, Unstorable = {} PROVE RecordsAreTrue
    OBVIOUS
  <2>1. ASSUME NEW m \in Named PROVE KnownIn(m, past)
    <3>1. CASE \E s \in Session : \E i \in 1..Len(log[s]) : m = log[s][i].manifest
      BY <3>1 DEF Truth, LogsKnown
    <3>2. CASE \E t \in DOMAIN index : m = index[t]
      BY <3>2 DEF Truth, IndexKnown
    <3>3. CASE \E s \in Session : \E i \in 1..Len(undo[s]) :
                  m = undo[s][i].target \/ m = undo[s][i].safety
      BY <3>3 DEF Truth, StacksKnown
    <3>4. CASE \E r \in Proc : m = proc[r].target \/ m = proc[r].safety
      BY <3>4 DEF Truth, RestoresKnown
    <3> DEFINE InLogs == UNION {{log[s][i].manifest : i \in 1..Len(log[s])} : s \in Session}
               InIndex == {index[t] : t \in DOMAIN index}
               Targets == UNION {{undo[s][i].target : i \in 1..Len(undo[s])} : s \in Session}
               Safeties == UNION {{undo[s][i].safety : i \in 1..Len(undo[s])} : s \in Session}
               Restored == {proc[r].target : r \in Proc}
               Rescued == {proc[r].safety : r \in Proc}
    <3>5. Named = InLogs \cup InIndex \cup Targets \cup Safeties \cup Restored \cup Rescued
      BY DEF Named
    <3> HIDE DEF InLogs, InIndex, Targets, Safeties, Restored, Rescued
    <3>6. ASSUME m \in InLogs
          PROVE  \E s \in Session : \E i \in 1..Len(log[s]) : m = log[s][i].manifest
      BY <3>6, Zenon DEF InLogs
    <3>7. ASSUME m \in Targets \cup Safeties
          PROVE  \E s \in Session : \E i \in 1..Len(undo[s]) :
                    m = undo[s][i].target \/ m = undo[s][i].safety
      BY <3>7, Zenon DEF Targets, Safeties
    <3>8. m \in InIndex => \E t \in DOMAIN index : m = index[t]
      BY DEF InIndex
    <3>9. m \in Restored \cup Rescued => \E r \in Proc : m = proc[r].target \/ m = proc[r].safety
      BY DEF Restored, Rescued
    <3> QED
      BY <2>1, <3>1, <3>2, <3>3, <3>4, <3>5, <3>6, <3>7, <3>8, <3>9
  <2> QED
    BY <2>1 DEF RecordsAreTrue, KnownIn
<1> QED
  BY <1>1, TruthInvariant, PTL

\* A restore removes a file only where there has been none (restore.rs,
\* plan_restore: absence from the target is not enough, a tombstone is needed).
THEOREM OnlyTheAbsentIsRemoved == Unstorable = {} => (Spec => RemovesOnlyWhatWasAbsent)
<1> SUFFICES ASSUME Unstorable = {} PROVE Spec => RemovesOnlyWhatWasAbsent
  OBVIOUS
<1>1. ASSUME TypeOK, PlanFollowsTarget, Truth, [Next]_vars,
             NEW p \in Path, edits' = edits, disk[p] # Missing, disk'[p] = Missing
      PROVE  Missing \in past[p]
  <2>1. PICK f \in File :
           /\ disk' = [disk EXCEPT ![p] = f]
           /\ f \in Regular \/ \E r \in Proc : Delete(r, p)
    BY <1>1, FileStep DEF TypeOK
  <2>2. f = Missing
    BY <1>1, <2>1 DEF TypeOK
  <2>3. PICK r \in Proc : Delete(r, p)
    BY <2>1, <2>2, DistinctMarkers
  <2>4. p \in proc[r].target.absent
    BY <1>1, <2>3 DEF Delete, PlanFollowsTarget
  <2> QED
    BY <1>1, <2>4 DEF Truth, RestoresKnown, KnownIn
<1>2. TypeOK /\ PlanFollowsTarget /\ Truth /\ [Next]_vars
      => [\A p \in Path : edits' = edits /\ disk[p] # Missing /\ disk'[p] = Missing
             => Missing \in past[p]]_vars
  BY <1>1
<1> QED
  BY <1>2, TruthInvariant, PTL DEF Spec, RemovesOnlyWhatWasAbsent

\* Whatever a restore has changed so far, its rescue capture holds as it was,
\* for any manifest, whatever the caller asked to look at, and at every moment
\* between the capture and the restore's end (store.rs, restore_to).  Something
\* that no capture can record is beyond rescue.
THEOREM EveryRestoreIsReversible == Spec => []RescueCovers
<1>1. /\ TypeOK /\ PlanFollowsTarget /\ Truth /\ RescueIsComplete
      /\ [Next]_vars
      => RescueIsComplete'
  BY RescueStep
<1>2. TypeOK /\ RescueIsComplete => RescueCovers
  <2> SUFFICES ASSUME TypeOK, RescueIsComplete,
                      NEW r \in Proc, proc[r].stage = "applying",
                      NEW p \in Path \ proc[r].sinceRescue,
                      disk[p] # proc[r].before[p], proc[r].before[p] \in Storable
               PROVE  \/ proc[r].safety.entries[p] = proc[r].before[p]
                      \/ p \in proc[r].safety.absent /\ proc[r].before[p] = Missing
    BY DEF RescueCovers
  <2>1. RescueScope(proc[r].scope, proc[r].target) \in SUBSET Path
    BY ProcessType, ObservedPaths DEF RescueScope, TypeOK
  <2>2. p \in RescueScope(proc[r].scope, proc[r].target)
    BY DEF RescueIsComplete, RescueScope
  <2>3. proc[r].before \in [Path -> File]
    BY ProcessType DEF TypeOK
  <2> QED
    BY <2>1, <2>2, <2>3, CapturedHolds DEF RescueIsComplete
<1> QED
  BY <1>1, <1>2, InitTruth, TruthInvariant, PTL DEF Spec

-----------------------------------------------------------------------------
(* A rewind can be taken back. *)

\* What a record says of the rewind it stands for: its rescue capture holds the
\* directory that rewind found, as far as its target speaks of it; and a rewind
\* that met with no failure and no interference changed only what its target
\* speaks of, and left it as the target has it.
Faithful(record) ==
    /\ \A p \in Path :
          /\ p \in Recorded(record.safety) =>
                /\ record.found[p] \in Regular
                /\ record.safety.entries[p] = record.found[p]
          /\ p \in record.safety.absent => record.found[p] = Missing
          /\ p \in Observed(record.target) /\ record.found[p] \in Storable
                => p \in Observed(record.safety)
    /\ record.clean => \A p \in Path :
          /\ record.left[p] # record.found[p]
                => p \in Observed(record.target) /\ record.left[p] \in Storable
          /\ p \in Observed(record.target) \ record.spared =>
                \/ /\ p \in Recorded(record.target)
                   /\ Matches(record.left[p], record.target.entries[p])
                \/ p \in record.target.absent /\ record.left[p] \notin Regular

RecordsFaithful == \A s \in Session : \A i \in 1..Len(undo[s]) : Faithful(undo[s][i])

\* An undo restores the rescue capture of the record it read.
UndosFollow ==
    \A r \in Proc : proc[r].stage # "idle" /\ proc[r].kind = "undo" =>
        Faithful(proc[r].reversing) /\ proc[r].target = proc[r].reversing.safety

\* What an entry of a capture, or a tombstone, says of the directory captured.
LEMMA CapturedSays ==
    ASSUME NEW d \in [Path -> File], NEW observed \in SUBSET Path, NEW p \in Path
    PROVE  /\ p \in Recorded(Captured(d, observed)) =>
                 d[p] \in Regular /\ Captured(d, observed).entries[p] = d[p]
           /\ p \in Captured(d, observed).absent => d[p] = Missing
BY DEF Captured, Recorded

\* The record of a rewind that ends tells the truth about it.
LEMMA FiledFaithful ==
    ASSUME TypeOK, RestoreAdvances, RescueIsComplete, NEW r \in Proc, Done(r)
    PROVE  Faithful(FiledBy(r))
<1> DEFINE x == proc[r]
           observed == RescueScope(x.scope, x.target)
<1>1. /\ x \in Process /\ x.target \in Manifest /\ x.before \in [Path -> File]
      /\ disk \in [Path -> File] /\ x.scope \in SUBSET Path
  BY ProcessType DEF TypeOK
<1>2. observed \in SUBSET Path /\ Observed(x.target) \subseteq observed
  BY <1>1, ObservedPaths DEF RescueScope
<1>3. /\ x.stage = "applying" /\ x.writes = {} /\ x.deletes = {}
      /\ x.safety = Captured(x.before, observed)
  BY DEF Done, RescueIsComplete
<1>4. ASSUME NEW p \in Path
      PROVE  /\ p \in Recorded(x.safety) =>
                   x.before[p] \in Regular /\ x.safety.entries[p] = x.before[p]
             /\ p \in x.safety.absent => x.before[p] = Missing
             /\ p \in Observed(x.target) /\ x.before[p] \in Storable => p \in Observed(x.safety)
  <2>1. /\ p \in Recorded(x.safety) =>
              x.before[p] \in Regular /\ x.safety.entries[p] = x.before[p]
        /\ p \in x.safety.absent => x.before[p] = Missing
    BY <1>1, <1>2, <1>3, CapturedSays
  <2>2. ASSUME p \in Observed(x.target), x.before[p] \in Storable PROVE p \in Observed(x.safety)
    <3>1. x.safety.entries[p] = x.before[p] \/ p \in x.safety.absent
      BY <1>1, <1>2, <1>3, <2>2, CapturedHolds
    <3>2. CASE p \notin x.safety.absent
      <4>1. x.before[p] \in Regular
        BY <1>1, <1>2, <1>3, <2>2, <3>2 DEF Captured, Storable
      <4> QED
        BY <3>1, <3>2, <4>1, DistinctMarkers DEF Observed, Recorded, Regular, Entry
    <3> QED
      BY <3>2 DEF Observed
  <2> QED
    BY <1>3, <2>1, <2>2 DEF RescueIsComplete
<1>5. ASSUME x.failed = {}, x.sinceRescue = {}, NEW p \in Path
      PROVE  /\ disk[p] # x.before[p] => p \in Observed(x.target) /\ disk[p] \in Storable
             /\ p \in Observed(x.target) \ x.protected =>
                   \/ p \in Recorded(x.target) /\ Matches(disk[p], x.target.entries[p])
                   \/ p \in x.target.absent /\ disk[p] \notin Regular
  BY <1>3, <1>5 DEF RescueIsComplete, RestoreAdvances, ReachedAt
<1>6. /\ FiledBy(r).target = x.target /\ FiledBy(r).safety = x.safety
      /\ FiledBy(r).found = x.before /\ FiledBy(r).left = disk
      /\ FiledBy(r).spared = x.protected
      /\ FiledBy(r).clean <=> x.failed = {} /\ x.sinceRescue = {}
  BY DEF FiledBy
<1> HIDE DEF x
<1> QED
  BY <1>4, <1>5, <1>6 DEF Faithful

\* Records stay true to their rewinds, and undos to their records.
LEMMA FaithfulStep ==
    ASSUME TypeOK, RestoreAdvances, RescueIsComplete, RecordsFaithful, UndosFollow,
           [Next]_vars
    PROVE  RecordsFaithful' /\ UndosFollow'
<1>1. RecordsFaithful'
  <2>1. \A r \in Proc : FinishRewind(r) => Faithful(FiledBy(r))
    BY FiledFaithful DEF FinishRewind
  <2>2. \A s \in Session : \A i \in 1..Len(undo'[s]) : Faithful(undo'[s][i])
    BY <2>1, StackMember DEF RecordsFaithful
  <2> QED
    BY <2>2 DEF RecordsFaithful, Faithful, Observed, Recorded, Matches, ModesClash
<1>2. UndosFollow'
  <2> DEFINE Follows(x) == x.kind = "undo" => Faithful(x.reversing) /\ x.target = x.reversing.safety
  <2>1. \A r \in Proc : proc[r].stage # "idle" => Follows(proc[r])
    BY DEF UndosFollow
  <2> SUFFICES ASSUME NEW q \in Proc, proc'[q].stage # "idle" PROVE Follows(proc'[q])
    BY DEF UndosFollow, Faithful, Observed, Recorded, Matches, ModesClash
  <2>2. ASSUME NEW s \in Session, ResolveUndo(q, s) PROVE Follows(proc'[q])
    <3>1. /\ undo[s] # <<>> /\ proc'[q].reversing = Last(undo[s])
          /\ proc'[q].target = Last(undo[s]).safety
      BY <2>2, ResolveEffect
    <3>2. undo[s] \in Seq(UndoRecord)
      BY DEF TypeOK
    <3>3. Len(undo[s]) \in 1..Len(undo[s]) /\ Last(undo[s]) = undo[s][Len(undo[s])]
      BY <3>1, <3>2 DEF Last
    <3> QED
      BY <3>1, <3>3 DEF RecordsFaithful
  <2>3. ASSUME NEW s \in Session, NEW t \in DOMAIN index,
               NEW owner \in Session \cup {NoSession}, ResolveRewind(q, s, t, owner)
        PROVE  Follows(proc'[q])
    BY <2>3, ResolveRewindEffect
  <2>4. ASSUME \/ Survey(q) \/ Rescue(q)
               \/ \E p \in Path : Write(q, p) \/ Delete(q, p) \/ Fail(q, p)
               \/ Stands(q)
        PROVE  Follows(proc'[q])
    <3>1. /\ proc[q].stage # "idle" /\ proc'[q].kind = proc[q].kind
          /\ proc'[q].reversing = proc[q].reversing /\ proc'[q].target = proc[q].target
      <4>1. CASE Survey(q)
        BY <4>1, SurveyEffect
      <4>2. CASE Rescue(q)
        BY <4>2, RescueEffect
      <4>3. CASE \E p \in Path : Write(q, p) \/ Delete(q, p) \/ Fail(q, p)
        BY <4>3, FileEffect
      <4>4. CASE Stands(q)
        BY <4>4 DEF Stands, Kept
      <4> QED
        BY <2>4, <4>1, <4>2, <4>3, <4>4
    <3> QED
      BY <2>1, <3>1
  <2> HIDE DEF Follows
  <2> QED
    BY <2>2, <2>3, <2>4, MovingStep
<1> QED
  BY <1>1, <1>2

\* Initially there are no records, and no undos.
LEMMA InitFaithful == Init => RestoreAdvances /\ RecordsFaithful /\ UndosFollow
<1>1. Idle.stage = "idle"
  BY DEF Idle
<1> QED
  BY <1>1 DEF Init, RestoreAdvances, RecordsFaithful, UndosFollow

\* Every record is true to its rewind in every reachable state.
LEMMA FaithfulInvariant ==
    Spec => [](/\ TypeOK /\ PlanFollowsTarget /\ Truth /\ RestoreAdvances
               /\ RescueIsComplete /\ RecordsFaithful /\ UndosFollow)
<1>1. /\ TypeOK /\ PlanFollowsTarget /\ Truth /\ RestoreAdvances
      /\ RescueIsComplete /\ RecordsFaithful /\ UndosFollow /\ [Next]_vars
      => (/\ TypeOK /\ PlanFollowsTarget /\ Truth /\ RestoreAdvances
          /\ RescueIsComplete /\ RecordsFaithful /\ UndosFollow)'
  BY TypeStep, PlanStep, TruthStep, AdvanceStep, RescueStep, FaithfulStep
<1> QED
  BY <1>1, InitTyped, InitTruth, InitFaithful, PTL DEF Spec

\* A rewind can be taken back: an undo that met no failure and no interference
\* leaves what its rewind changed as that rewind found it, whatever else was
\* rewound, undone, captured, declared or forked in between, and however many
\* records the stack has dropped (store.rs, restore_to; refs.rs, push_restore).
\* What no capture can record is not brought back, nor moved out of the way.
THEOREM UndoesReturn == Spec => []UndoReturns
<1>1. TypeOK /\ RestoreAdvances /\ UndosFollow => UndoReturns
  <2> SUFFICES ASSUME TypeOK, RestoreAdvances, UndosFollow,
                      NEW r \in Proc, Done(r), proc[r].kind = "undo",
                      proc[r].reversing.clean,
                      NEW p \in Path \ (proc[r].failed \cup proc[r].sinceRescue
                                            \cup proc[r].protected),
                      proc[r].reversing.left[p] # proc[r].reversing.found[p],
                      proc[r].reversing.found[p] \in Storable
               PROVE  \/ disk[p] = proc[r].reversing.found[p]
                      \/ proc[r].reversing.found[p] = Missing /\ disk[p] \notin Storable
    BY DEF UndoReturns
  <2> DEFINE rec == proc[r].reversing
             entry == rec.safety.entries[p]
  <2>1. Faithful(rec) /\ proc[r].target = rec.safety
    BY DEF UndosFollow, Done
  <2>2. p \in Observed(rec.safety)
    BY <2>1 DEF Faithful
  <2>3. \/ p \in Recorded(rec.safety) /\ Matches(disk[p], entry)
        \/ p \in rec.safety.absent /\ disk[p] \notin Regular
    BY <2>1, <2>2 DEF RestoreAdvances, ReachedAt, Done
  <2>4. CASE p \in Recorded(rec.safety) /\ Matches(disk[p], entry)
    <3>1. entry = rec.found[p] /\ entry \in Regular
      BY <2>1, <2>4 DEF Faithful
    <3>2. disk[p] \in Regular /\ disk[p].data = entry.data
      BY <2>4 DEF Matches
    <3>3. disk[p].mode = entry.mode
      BY <2>4, <3>1, <3>2, DistinctMarkers DEF Matches, ModesClash, Regular
    <3> QED
      BY <3>1, <3>2, <3>3 DEF Regular
  <2>5. CASE p \in rec.safety.absent /\ disk[p] \notin Regular
    BY <2>1, <2>5 DEF Faithful, Storable
  <2> QED
    BY <2>3, <2>4, <2>5
<1> QED
  BY <1>1, FaithfulInvariant, PTL

-----------------------------------------------------------------------------
(* An undo says what it is about to overwrite. *)

\* p is among what the undo reported, or looks as the rewind left it.
AsLeft(r, p) ==
    \/ p \in proc[r].conflicts
    \/ p \notin Conflicts(proc[r].reversing.target, proc[r].reversing.safety, disk, {})

\* The check an undo made still stands for every path nobody changed since: for
\* those the rules did not exclude, then for those the plan has still to change.
CheckHolds ==
    \A r \in Proc : proc[r].kind = "undo" =>
        /\ proc[r].stage = "resolved" =>
              \A p \in Path \ (proc[r].sinceCheck \cup ignored) : AsLeft(r, p)
        /\ proc[r].stage = "surveyed" =>
              \A p \in Path \ (proc[r].sinceCheck \cup proc[r].protected) : AsLeft(r, p)
        /\ proc[r].stage = "applying" =>
              /\ proc[r].writes \cap proc[r].deletes = {}
              /\ \A p \in (proc[r].writes \cup proc[r].deletes) \ proc[r].sinceCheck :
                    AsLeft(r, p)

\* Whether p looks as it was left depends on the file at p alone.
LEMMA AsLeftStays ==
    ASSUME NEW q \in Proc, NEW p \in Path, AsLeft(q, p), disk'[p] = disk[p],
           proc'[q].conflicts = proc[q].conflicts, proc'[q].reversing = proc[q].reversing
    PROVE  AsLeft(q, p)'
BY DEF AsLeft, Conflicts, Observed, Recorded, StillMatches, ModesClash, Exists,
       ThroughLinks

\* What an undo's check found stays found.
LEMMA CheckStep ==
    ASSUME TypeOK, PlanFollowsTarget, UndosFollow, CheckHolds, [Next]_vars
    PROVE  CheckHolds'
<1> SUFFICES ASSUME NEW q \in Proc, proc'[q].kind = "undo", proc'[q].stage # "idle"
             PROVE  /\ proc'[q].stage = "resolved" =>
                          \A p \in Path \ (proc'[q].sinceCheck \cup ignored') : AsLeft(q, p)'
                    /\ proc'[q].stage = "surveyed" =>
                          \A p \in Path \ (proc'[q].sinceCheck \cup proc'[q].protected) :
                              AsLeft(q, p)'
                    /\ proc'[q].stage = "applying" =>
                          /\ proc'[q].writes \cap proc'[q].deletes = {}
                          /\ \A p \in (proc'[q].writes \cup proc'[q].deletes)
                                        \ proc'[q].sinceCheck :
                                AsLeft(q, p)'
  BY DEF CheckHolds
<1>1. proc[q] \in Process
  BY DEF TypeOK
<1>2. ASSUME NEW s \in Session, ResolveUndo(q, s)
      PROVE  /\ proc'[q].stage = "resolved"
             /\ \A p \in Path \ (proc'[q].sinceCheck \cup ignored') : AsLeft(q, p)'
  <2>1. /\ proc'[q].stage = "resolved" /\ disk' = disk /\ ignored' = ignored
        /\ proc'[q].conflicts = Conflicts(proc'[q].reversing.target,
                                          proc'[q].reversing.safety, disk', ignored')
    BY <1>2, ResolveEffect
  <2> QED
    BY <2>1 DEF AsLeft, Conflicts
<1>3. CASE Survey(q)
  <2>1. /\ proc[q].stage = "resolved" /\ proc'[q].stage = "surveyed"
        /\ proc[q].kind = "undo" /\ disk' = disk
        /\ proc'[q].reversing = proc[q].reversing /\ proc'[q].conflicts = proc[q].conflicts
        /\ proc'[q].sinceCheck = proc[q].sinceCheck /\ proc'[q].protected = ignored
    BY <1>3, SurveyEffect
  <2>2. \A p \in Path \ (proc[q].sinceCheck \cup ignored) : AsLeft(q, p)
    BY <2>1 DEF CheckHolds
  <2> QED
    BY <2>1, <2>2, AsLeftStays
<1>4. CASE Rescue(q)
  <2> DEFINE target == proc[q].target
  <2>1. /\ proc[q].stage = "surveyed" /\ proc[q].kind = "undo" /\ disk' = disk
        /\ proc'[q].reversing = proc[q].reversing /\ proc'[q].conflicts = proc[q].conflicts
        /\ proc'[q].sinceCheck = proc[q].sinceCheck
        /\ proc'[q].writes \subseteq Recorded(target) \ proc[q].protected
        /\ proc'[q].deletes \subseteq target.absent \ proc[q].protected
    BY <1>4, RescueEffect DEF Writes, Deletes
  <2>2. proc'[q].stage = "applying"
    BY <1>4 DEF Rescue, TypeOK, Process
  <2>3. Recorded(target) \cap target.absent = {}
    <3>1. Faithful(proc[q].reversing) /\ target = proc[q].reversing.safety
      BY <2>1 DEF UndosFollow
    <3> QED
      BY <3>1, DistinctMarkers DEF Faithful, Recorded
  <2>4. target.absent \subseteq Path /\ Recorded(target) \subseteq Path
    BY <1>1, ProcessType, ObservedPaths DEF Observed
  <2>5. \A p \in Path \ (proc[q].sinceCheck \cup proc[q].protected) : AsLeft(q, p)
    BY <2>1 DEF CheckHolds
  <2> QED
    BY <2>1, <2>2, <2>3, <2>4, <2>5, AsLeftStays
<1>5. ASSUME NEW x \in Path, Write(q, x) \/ Delete(q, x) \/ Fail(q, x)
      PROVE  /\ proc'[q].stage = "applying"
             /\ proc'[q].writes \cap proc'[q].deletes = {}
             /\ \A p \in (proc'[q].writes \cup proc'[q].deletes) \ proc'[q].sinceCheck :
                   AsLeft(q, p)'
  <2>1. /\ proc[q].stage = "applying" /\ proc'[q].stage = "applying"
        /\ proc[q].kind = "undo"
        /\ proc'[q].reversing = proc[q].reversing /\ proc'[q].conflicts = proc[q].conflicts
        /\ proc'[q].sinceCheck = proc[q].sinceCheck
        /\ \A p \in Path \ {x} : disk'[p] = disk[p]
        /\ \/ /\ x \in proc[q].writes
              /\ proc'[q].writes = proc[q].writes \ {x}
              /\ proc'[q].deletes = proc[q].deletes
           \/ /\ x \in proc[q].deletes
              /\ proc'[q].writes = proc[q].writes
              /\ proc'[q].deletes = proc[q].deletes \ {x}
    BY <1>5, FileEffect
  <2>2. /\ proc[q].writes \cap proc[q].deletes = {}
        /\ \A p \in (proc[q].writes \cup proc[q].deletes) \ proc[q].sinceCheck : AsLeft(q, p)
    BY <2>1 DEF CheckHolds
  <2>3. proc[q].writes \subseteq Path /\ proc[q].deletes \subseteq Path
    BY <1>1, ProcessType
  <2> QED
    BY <2>1, <2>2, <2>3, AsLeftStays
<1>6. CASE Stands(q)
  <2>1. /\ Kept(proc[q], proc'[q])
        /\ \A p \in Path \ proc'[q].sinceCheck :
              disk'[p] = disk[p] /\ (p \in ignored' <=> p \in ignored)
    BY <1>6 DEF Stands
  <2>2. proc[q].writes \subseteq Path /\ proc[q].deletes \subseteq Path
    BY <1>1, ProcessType
  <2>3. ASSUME NEW p \in Path \ proc'[q].sinceCheck, AsLeft(q, p) PROVE AsLeft(q, p)'
    BY <2>1, <2>3, AsLeftStays DEF Kept
  <2> QED
    BY <2>1, <2>2, <2>3 DEF Kept, CheckHolds
<1>7. \A s \in Session, t \in DOMAIN index, owner \in Session \cup {NoSession} :
        ~ ResolveRewind(q, s, t, owner)
  BY ResolveRewindEffect
<1> QED
  BY <1>2, <1>3, <1>4, <1>5, <1>6, <1>7, MovingStep

\* An undo that is about to replace or remove something other than what its
\* rewind left has reported it, unless it changed after the undo looked or the
\* rewind had spared it (store.rs, undo_conflicts): whatever happened between
\* the rewind and the undo's look, and between its look and its lock.
THEOREM ChangesAreReported == Spec => []ChangedContentIsReported
<1>1. Init => CheckHolds
  <2>1. Idle.kind = "rewind"
    BY DEF Idle
  <2> QED
    BY <2>1 DEF Init, CheckHolds
<1>2. TypeOK /\ PlanFollowsTarget /\ UndosFollow /\ CheckHolds /\ [Next]_vars => CheckHolds'
  BY CheckStep
<1>3. ASSUME TypeOK, PlanFollowsTarget, UndosFollow, CheckHolds
      PROVE  ChangedContentIsReported
  <2> SUFFICES ASSUME NEW r \in Proc, NEW p \in Path,
                      Overwrites(r, p, OtherContent),
                      p \notin proc[r].conflicts,
                      p \notin Observed(proc[r].reversing.target)
                                   \cap proc[r].reversing.spared
               PROVE  FALSE
    BY DEF ChangedContentIsReported
  <2> DEFINE rec == proc[r].reversing
             now == disk[p]
             left == rec.left[p]
  <2>1. /\ proc[r].stage = "applying" /\ proc[r].kind = "undo" /\ rec.clean
        /\ p \in proc[r].writes \cup proc[r].deletes
        /\ p \notin proc[r].sinceCheck
        /\ OtherContent(now, left)
    BY DEF Overwrites
  <2>2. Faithful(rec) /\ proc[r].target = rec.safety
    BY <1>3, <2>1 DEF UndosFollow
  <2>3. p \in Observed(rec.safety)
    BY <1>3, <2>1, <2>2 DEF PlanFollowsTarget, Observed
  <2>4. AsLeft(r, p)
    BY <1>3, <2>1 DEF CheckHolds
  <2>5. p \notin Conflicts(rec.target, rec.safety, disk, {})
    BY <2>4 DEF AsLeft
  <2>6. /\ p \in Recorded(rec.target) => StillMatches(now, rec.target.entries[p])
        /\ p \in rec.target.absent => ThroughLinks(now) = Missing
        /\ p \notin Observed(rec.target) =>
              /\ p \in Recorded(rec.safety) => StillMatches(now, rec.safety.entries[p])
              /\ p \in rec.safety.absent => ThroughLinks(now) = Missing
    BY <2>5 DEF Conflicts, Exists
  <2>7. rec.found[p] \in Storable
    BY <2>2, <2>3, StorableFiles DEF Faithful, Observed
  <2>8. left \in Storable /\ ThroughLinks(left) = left
    BY <2>1, <2>2, <2>7, StorableFiles DEF Faithful
  <2>9. ASSUME NEW entry, StillMatches(now, entry), left \in Regular, left.data = entry.data
        PROVE  FALSE
    BY <2>1, <2>8, <2>9 DEF StillMatches, OtherContent
  <2>10. ASSUME ThroughLinks(now) = Missing, left = Missing PROVE FALSE
    BY <2>1, <2>8, <2>10 DEF OtherContent
  <2>11. CASE p \in Observed(rec.target)
    <3>1. \/ /\ p \in Recorded(rec.target)
             /\ Matches(left, rec.target.entries[p])
          \/ p \in rec.target.absent /\ left \notin Regular
      BY <2>1, <2>2, <2>11 DEF Faithful
    <3> QED
      BY <2>6, <2>8, <2>9, <2>10, <3>1 DEF Matches, Storable
  <2>12. CASE p \notin Observed(rec.target)
    <3>1. left = rec.found[p]
      BY <2>1, <2>2, <2>12 DEF Faithful
    <3>2. CASE p \in Recorded(rec.safety)
      BY <2>2, <2>6, <2>9, <2>12, <3>1, <3>2 DEF Faithful
    <3>3. CASE p \in rec.safety.absent
      BY <2>2, <2>6, <2>10, <2>12, <3>1, <3>3 DEF Faithful
    <3> QED
      BY <2>3, <3>2, <3>3 DEF Observed
  <2> QED
    BY <2>11, <2>12
<1> QED
  BY <1>1, <1>2, <1>3, FaithfulInvariant, PTL DEF Spec

=============================================================================
