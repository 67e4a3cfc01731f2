# filesnap in TLA+

filesnap records what the files of a working directory held at the start of
each turn of a session, so that the directory can be rewound to any recorded
turn and the rewind undone. This directory models the engine
(`crates/filesnap`) and the parts of its command line (`crates/filesnap-cli`)
that decide in which order things are read and written, model-checks the model
with TLC, and proves its central properties with TLAPS. Paths below are
relative to `crates/filesnap/src/` unless they say otherwise.

## 1. The system

| component | state | operations | interacts with |
|---|---|---|---|
| manifests (`manifest.rs`) | immutable records: path -> entry (hash, mode, stat), and tombstones | save, load, ids, remove | content-addressed; named by logs, index, undo records |
| blobs (`blob.rs`) | immutable contents by hash, shared by all workspaces | store_bytes, load, hashes, remove | named by manifests |
| capture (`checkpoint.rs`) | none; a stat cache in the previous manifest | capture | reads the disk, stores blobs, then a manifest |
| session logs (`refs.rs`) | per session, turns and manifests in order | append, ensure, load, remove | roots of every sweep |
| turn index (`refs.rs`) | turn -> manifest | set_turn, manifest_for_turn, retain_turns, remove_turn_file | what a rewind resolves |
| undo stacks (`refs.rs`) | per session, up to 20 (target, rescue) pairs | push_restore, pop_restore, last_restore, remove_restores | roots too |
| workspace store (`store.rs`) | the above, for one workspace | checkpoint, attach_pre_edit, ensure_session, inherit_log, restore_to, undo_conflicts, delete_sessions | takes the session lock |
| restore (`restore.rs`) | none | plan_restore, apply_plan | writes the user's files |
| lock (`lock.rs`) | one kernel lock per session | acquire, drop | every writing operation, except on a session handed to |
| deletion, collection (`sweep.rs`, `collect.rs`) | none | prune_sessions, collect_garbage | lock-free against captures; a grace window stands in |
| declared set (`declared.rs`) | per session, paths and the turn that declared them | declare, note_turn, active | what a capture looks at |
| scan (`scope.rs`, `turn.rs`) | none | tracked_files, restore_scope, declare_edits | git index, recency, ignore rules |
| tracker (`controller.rs`), ids (`id.rs`), layout (`workspace.rs`) | | | |
| command line (`../../filesnap-cli/src`) | none | capture, declare, restore, undo, delete, gc, log, status, doctor | each call is a process of its own |

Processes share nothing but the file system. What is hard about this code:

* **A restore is not atomic, and the directory is not locked.** Only sessions
  are. Between a restore's rescue capture and its last write, other sessions,
  editors and agents change the same files. Several decisions are read before
  the lock: the target, the conflicts, the scope, the ignore rules, the
  pre-image of a declaration.
* **Deletion needs evidence.** A manifest says that a file was there, that it
  was not, or nothing. Everything a restore may remove hangs on not confusing
  the last two.
* **Publication is in several steps** (blobs, manifest, log entry, index entry)
  and sweeps take no lock. A writer may adopt an object it finds instead of
  writing it. A process may die between any two steps.
* **A rewind hands the workspace over to another session** and writes to that
  session's log and undo stack without its lock.

What makes each part correct: records are true (`RecordsAreTrue`); a restore
reaches its target, is covered by its rescue, removes only what was absent and
can be undone; an undo reports what it overwrites; logs, index and undo records
keep naming what exists, and collection removes all the rest.

## 2. The modules

| module | what it is |
|---|---|
| `Manifests` | files, manifests, capture, the restore plan, what a write leaves, conflicts of an undo: pure operators |
| `Rewind` | sessions, declarations, forks, and restoring processes over one directory, with everything else that changes it |
| `RewindClaims` | two statements of the repository's constitution about restoring that the code does not keep |
| `RewindProofs` | the theorems about `Rewind` |
| `Store` | the files of one workspace's store under captures, rewinds, undos, forks, deletes, collections and crashes, one file operation per step |
| `StoreSteps` | what each step of `Store` does to the process that takes it, to the others and to the files; `TypeOK` |
| `StoreProofs` | the theorems about `Store` |
| `Collection` | collecting several workspaces over one blob store, with files that cannot be read, half-written files and processes that die |
| `CollectionProofs` | the theorems about `Collection` |
| `Mutex` | what the lock of a session promises: an abstract specification |
| `SessionLock` | `lock.rs` step by step; implements `Mutex` |
| `SessionLockProofs` | the theorems about `SessionLock`, the refinement of `Mutex` among them |
| `TurnScope` | one session's captures and declarations as locked sections with gaps between, its declared set, and the collection of orphaned sets; built on `Mutex` |
| `TurnScopeProofs` | the theorems about `TurnScope` |
| `Observation` | what the captures of a file promise: an abstract specification |
| `StatCache` | captures with the stat cache, under a clock that ticks; implements `Observation` |
| `StatCacheProofs` | the theorems about `StatCache`, the refinement of `Observation` among them |
| `Scan` | what a capture looks at: index, walks, budget and ignore rules |
| `ScanProofs` | the theorems about `Scan` |
| `MCRewind`, `MCStore`, `MCCollection`, `MCStatCache`, `MCScan` | definitions the TLC configurations need |

`Rewind` and `Store` are two views of the same operations. `Rewind` has the
values (what is in a manifest, what is on disk) and takes every publication to
be one step; `Store` has the steps and takes values to be opaque names.
The others each take one thing apart which these two take for granted:
`SessionLock` that a session's lock excludes, `TurnScope` what happens between
the locked sections of one call, `StatCache` that a capture records what is on
disk, `Scan` which paths it looks at, `Collection` that there are other
workspaces and files that cannot be read.

### Rewind and the code

* `disk` is the directory, `ignored` what `.filesnapignore` excludes now.
  `Edit` and `EditIgnore` are the world outside; nothing limits when they occur.
* `log`, `index`, `undo` are `refs/`, `turns/` and `restores/`; `declared` is
  what declarations have registered per session. Which log files *exist*, apart
  from what is in them, is the subject of `Store`.
* `images` holds declarations under way: `DeclareRead` reads the file
  (`filesnap-cli/src/commands/declare.rs`), before any lock and before the
  ignore rules are looked at; `DeclareKey` applies the rules and mints the key;
  `DeclareAttach` and `DeclareWatch` attach what was read and register the path,
  each under the lock. `DeclareDrop` ends a declaration anywhere.
* What stands at a path is a file, nothing, something no capture can record
  (a directory, a file without read permission: `Opaque`), or a link (`Link`,
  with what stands behind it). A capture looks at the path itself and passes
  links over; `declare`, the undo's comparison (`store.rs:428-440`) and
  `Path::exists` look through them (`ThroughLinks`, `Exists`). A path that cannot
  be looked at at all behaves as a link to nothing.
* `proc` holds the restores under way. `ResolveRewind` and `ResolveUndo` are
  the commands up to the target and the conflicts, `Survey` is `restore_scope`
  and `load_ignore`, `Rescue` takes the lock, captures, publishes and plans;
  `Write`, `Delete` and `Fail` are `apply_plan` file by file; `FinishRewind`
  and `FinishUndo` file or spend the undo record. `Crash` may end any of it; a
  process that gives up waiting for the lock looks the same.
* A capture looks at *any* set of paths that are not ignored, and of declared
  paths whether ignored or not (`scope.rs:292-294`): that is what the scan, the
  declared window and the size limits come to (`Scan`, `TurnScope`).
* The lock is not a variable: a session is locked while a restore of it is
  applying. Every other locked operation is one step here.

Both readings of the ignore rules by an undo are of the same rules. In the
code they are rooted at the directory as given and at its canonical name; when
those differ the first excludes nothing and the undo reports more conflicts.

### Store and the code

* `objects` are blobs and manifests; `log`, `turns`, `undo` are functions whose
  domains are the files that exist.
* `fresh` is the set of files younger than `GC_GRACE`. `Settle` ends a file's
  youth, never before the operations that overlap the one that touched it have
  ended. This is the one assumption about time, and it is the code's own: the
  grace window is chosen to be longer than any operation. Nothing in the code
  enforces it.
* `op[p]` is what process p is doing and what it has read so far. A capture
  goes through `Capturing`, `Store`/`Freshen`, `AppendEntry`, `SetTurn`; a
  rewind goes on with `Ensure`, `Create`, `ReadStack`, `Push`, an undo with
  `ReadRecord`, `Pop`. A fork is `Fork`, `Ensure`, `Create`, `Inherit`. A delete is `Delete`,
  `LockDoomed`, `UnlinkUndo`, `UnlinkLog`, and then, like a collection, reads
  the logs, prunes the index and the manifests; a collection goes on to blobs.
* A listed log, index entry or undo record that is gone when it is read makes the
  answer partial (`ReadLog`, `MissRoots`). A delete then stops; a collection
  leaves the records of the workspace alone and goes on to mark and sweep blobs
  (`Unsure`; `sweep.rs:255`, `sweep.rs:275`, `collect.rs:91-156`).
* An append reads and rewrites a log under the lock of its session and is one
  step. What a hand-over does without that lock is two, and so is a pop: it holds
  its own session's lock, and hand-overs to that session push regardless.
* `raced` collects files removed (or overwritten) after a check that had
  become stale in a window the code leaves open: between a sweep's look at one
  file and its unlink, while a fork copies a log that is being deleted, and
  between `ensure`'s look and its write, and between a hand-over's look for its
  heir's log and its push, when the heir is deleted. The properties except
  exactly these files. The windows are real: without them the properties are
  violated. `cut` collects the turns of captures that died between log and index.
* `op[p].base` is the manifest whose unchanged entries a capture takes over
  without storing or looking at their blobs, and `hollow` collects the manifests
  saved when that one, or its content, was gone (`Bereft`). The bounds of the
  runs are too small for one; the proof of `ContentIsKept` found it (section 3).

### SessionLock, Mutex and the code

* `sentinel` is the file the lock's name leads to and `lockedBy` the kernel's
  table: a lock is on a file, not on a name, which is why the sentinel may
  never be unlinked (the mutant of `Release`).
* `proc[p]` is a process in `acquire`: `Open`/`OpenFault` and
  `Lock`/`Contend`/`LockFault` are the two calls of an attempt, `Sleep` and
  `GiveUp` the end of one. The deadline is counted in naps; an attempt may take
  any of what is left.
* `Disposition` is `classify`, with the code's own tables. `CommonFaults` and
  `LocklessFaults` are what the host may answer: members of each class the
  tables tell apart, and codes that mean different things on the two platforms.
* `host` is fixed: the platform, whether the filesystem has locks, and whether a
  kernel that has them may run out of records for them and answer `ENOLCK`
  (`ScarceFaults`), which `lock.rs:172` takes for "no locks here".

`Mutex` has only who waits and who is in. A process may be let in or refused at
any time, so that refining it shows two things: exclusion, and that every
request is answered.

### TurnScope and the code

* `log` and `declared` are the session's two files. `declared.since` folds the
  entries of `declared.rs` into the latest turn that declared each path.
* `op[p]` is a call: a capture is the sections `note`, `list` (no lock) and
  `checkpoint`; a declaration is one `attach` per path and then `declare`; a
  deletion is `delete`, then `unlink`. `Enter` takes the lock and reads what
  the section will write back; `Busy` is the budget running out, whose effect
  depends on the section: `note_turn` is best effort, an attach skips its path.
* `collector` is `orphan_declared`: it looks for a log, then at the age, then
  removes, without a lock.
* `history` records per path which turns have come up since it was declared:
  those that began and those that were counted.
* An entry of the log lists the declared paths its capture watched; what a scan
  adds to them is left out, since nothing here depends on it.
* `exclusive` is what `SessionLock` calls `host.locking` and not `host.scarce`.
  The run takes it to be true: without locks nothing here is promised.
* A rewind that hands over to this session makes sure of its log without its lock
  (`store.rs:703`); that writer is in `Store`.

### StatCache, Observation and the code

* `clock` is time; a write at time t is stamped anything from t - `Lag` to t,
  which is what a filesystem's coarse clock does. `Window` is `RACY_WINDOW`.
* `Begin` reads the clock, `Reuse` or `Stat` looks at the file's metadata,
  `Read` reads the content, and the file may be written between any two.
* An entry's `mtime` is `Epoch` when it is marked as not to be trusted, and
  archives may unpack a file whose own stamp is the epoch (`Unpack`).

`Observation` has no clock: a capture records *something the file held between
its start and its end*. A tool that sets a file's time back, with content of the
same size, is outside what a stat cache can see and is not a step of the model.

### Scan and the code

* `Start` is the caller: the declared paths and the rules of each root. `See`
  and `Look` are a walk coming to one entry (its type, then its size and time),
  `Rank` applies the budget and goes on to the next root, `Report` is what
  `scan_report` adds.
* `Within` and `Walked` say which paths lie beneath a root, and which of them
  no hidden, skipped or `.git` directory keeps a walk from.
* `Change` and `Stage` (git's staging) come at any moment; `touched` records
  where, and the properties speak of the rest.

### Collection and the code

* `disk` is the set of files there are, with one blob directory for all
  workspaces; `damaged` those that cannot be read just now. `Damage` and `Mend`
  come and go.
* `writer[s]` is a capture: it adopts (`Freshen`) or writes beside (`WriteTmp`)
  and renames (`Rename`) blobs, manifest, log and turn entry in that order. A
  rewind captures and then makes sure of its heir's log (`Ensure`) and writes an
  undo record for it. `Kill` may end it anywhere and leaves its half-written file.
* `gc` is a collection: `CollectPartition` reads a workspace's logs,
  `DropOrphans`, `RetainTurns`, `SweepManifests`, `SweepResidue` and `Mark` go on
  with it; `ListBlobs`, `SweepBlob` and `Finish` come after the last. A damaged log
  keeps a workspace's records, a damaged index entry or undo record its manifests
  (`all_manifest_ids`), a damaged manifest all blobs.
* The check and the unlink of one kind of file are one step here; `Store` has
  them apart.
* Time is as in `Store`: no file settles before the operations that overlap the
  one that touched it have ended (`touched`, `shield`).

## 3. What is checked

| run | checks | instance |
|---|---|---|
| `RewindContended` | `TypeOK`, `RecordsAreTrue`, `RemovesOnlyWhatWasAbsent` | one path, one session, two processes, one edit, one declaration |
| `RewindHandover` | `RescueCovers`, `UndoReturns` | two sessions, one process, one content, directories and every kind of link, one edit |
| `RewindModes` | `RestoreReachesTarget`, `ChangedContentIsReported` | two contents, two modes, directories and every kind of link, two edits |
| `StoreSweep` | `TypeOK`, `TurnsResolve`, `LogsResolve`, `ContentIsKept`, `OnePassReclaims` | two manifests, one with content, two sessions, two processes, three operations |
| `StoreHandover` | `UndoHasLog`, `UndoIsKept`, `HistoryIsKept` | two manifests, two sessions, two processes, stacks of two, two operations after a capture and up to two hand-overs |
| `SessionLock` | `TypeOK`, `Exclusive`, `NeverSilentlyUnlocked`, `ImplementsMutex` | three processes, three inodes, a budget of two naps, both platforms, with locks, with locks that may run out, and without |
| `TurnScope` | `TypeOK`, `DeclarationsAreKept`, `HistoryOnlyGrows`, `WatchedForTheWindow`, `OrphansAreCollected` | two processes, three turns, two paths, a window of one turn, three calls |
| `StatCache` | `TypeOK`, `FingerprintIsProof`, `ImplementsObservation`, `DoubtEnds` | one session, three contents of two sizes, a tick of two, a window of three, writes up to time 7, eleven moments |
| `Scan` | `TypeOK`, `NothingVanishes`, `MissingIsAskedAbout`, `ReportIsComplete`, `IgnoredStaysOut` | four paths, one root in another, two stamps, a budget of one file, one change |
| `Collection` | `TypeOK`, `WhatLogsNameIsThere`, `WhatUndosNeedIsThere`, `WritersKeepTheirFiles`, `RecordsAreReclaimed`, `ResidueIsReclaimed`, `ContentIsReclaimed` | two workspaces, three sessions, three manifests that share a blob, two captures, rewinds or deletes after a first capture, one fault |

What the properties say:

* `RecordsAreTrue`: content in any manifest that is still named was at that
  path at some moment; a tombstone's path was empty at some moment.
* `RemovesOnlyWhatWasAbsent`: a restore removes a file only from a path at
  which there has once been nothing.
* `RescueCovers`: what a restore has changed so far is in its rescue capture
  as it was, unless someone else changed it after the rescue, or no capture can
  record what was there.
* `RestoreReachesTarget`: a restore that is done has every path as the target
  states it, and paths the target does not state, or that are ignored, as they
  were. Files that failed or that others changed are excepted. Of a path that
  the target both lists and denies either outcome is accepted (see below).
* `ChangedContentIsReported`: an undo that is about to replace or remove
  content other than what its rewind left has reported the path, if that rewind
  met neither failure nor interference, unless the path changed after the undo
  looked, or the rewind spared it as ignored (see below). Content is what a
  program that opens the path reads, through links.
* `UndoReturns`: after an undo that met neither failure nor interference,
  each path its rewind had changed is as that rewind found it, if a capture can
  record that, whatever was rewound, captured or forked in between.
* `UndoHasLog`: undo records belong to sessions with a log (collection removes
  the others), whatever dies between the steps of a hand-over, unless it met with
  the deletion of its heir.
* `LogsResolve`, `ContentIsKept`: a log names only manifests that exist, and
  these have all their content, `raced` and `hollow` excepted. As long as nothing
  was raced away there is no exception (`UnracedStoresAreWhole`).
* `TurnsResolve`: every turn a log lists resolves in the index, once its
  capture has ended.
* `OnePassReclaims`: a collection that found everything settled and had the
  store to itself leaves nothing that no log leads to.
* `UndoIsKept`: on the undo stack of a session with a log, every record stays,
  but for the oldest of a full stack and the newest when an undo spends it, until
  the session is deleted. Excepted are a push or pop that writes back a stack that
  has changed since it read it (`decisions.md` D26 names the gap), and a log
  that appeared after a collection had looked for it.
* `HistoryIsKept`: a log is only ever appended to until its session is deleted,
  unless it appears between `ensure`'s look and its write.
* `Exclusive`: where the filesystem has locks and its kernel does not run out of
  records for them, no two processes hold guards of one session; and nowhere do
  two hold enforced ones, through whichever file each of them locked.
* `NeverSilentlyUnlocked`: no answer of a filesystem that has locks leads to a
  guard without a lock, except `ENOLCK` where the kernel may run out of lock
  records.
* `ImplementsMutex`: `SessionLock` implements `Mutex`, fairness included: every
  `acquire` ends within its budget, although errors never stop and the holder
  never lets go.
* `HistoryOnlyGrows`: no entry of a log is lost to another call that rewrites
  the log. This is what `SessionLock` is for.
* `DeclarationsAreKept`: a declaration that landed stays until its session is
  deleted, except for one that lands between the collector's look at an orphaned
  set's age and its removal.
* `WatchedForTheWindow`: a path declared under the latest turn is watched by
  every capture at which no more further turns than the window have come up;
  and no path is watched for longer (where the filesystem has locks).
* `OrphansAreCollected`: a declared set left without a log is collected, or its
  session lives again.
* `FingerprintIsProof`: an entry whose size and stamp match the file has the
  file's content, however often it was written since and in whichever gap.
* `ImplementsObservation`: `StatCache` implements `Observation`: whether it
  reads the file or not, a capture records what the file held while it ran.
* `DoubtEnds`: once writing ends, sessions come to fingerprints that match for
  good. Without it, never trusting a stamp would satisfy the other two.
* `NothingVanishes`: a file that a walk comes to and nobody changes meanwhile is
  looked at, or is named with a reason, or lost its place to a full budget of
  files no less recent and not covered otherwise.
* `MissingIsAskedAbout`: what the index lists is looked at although nothing is
  there; the absence a capture then records is what a restore may remove on.
* `ReportIsComplete`: the report of what is not protected names every link and
  every file over the limit that the walks come to, and of what a capture looks
  at every file it could not read.
* `IgnoredStaysOut`: a path that every root above it excludes is not looked at,
  unless the caller named it.
* `WhatLogsNameIsThere`: whatever cannot be read and whoever dies, a log's
  manifests are there with all their content, which other workspaces may share.
* `WhatUndosNeedIsThere`: so is what every undo record would go back to, also when
  the session whose rewind captured it is deleted.
* `WritersKeepTheirFiles`: no half-written file is swept from under its writer.
* `RecordsAreReclaimed`, `ResidueIsReclaimed`, `ContentIsReclaimed`: what
  nothing leads to goes in the end. Records wait for the logs, the index and the
  undo records of their own workspace to be readable, content for the manifests of all
  workspaces, half-written files for nothing.

**Fairness.** `Rewind`, `Store` and `Scan` assume none and promise nothing that
needs it: a call makes the progress it makes, and a process may always die.

* `SessionLock`: a process in `acquire` keeps running (weak fairness of
  `Attempt`). Nothing is assumed of holders, and faults may go on for ever.
* `TurnScope`: calls under way go on and collections are made (weak fairness).
  Files grow old: `Settle` is strongly fair, for it waits for calls and
  collections that come and go, and those take less than the grace window.
* `StatCache`: the clock ticks and captures are made (weak fairness); each of
  `Reuse`, `Stat` and `Read` is strongly fair, which says that captures do not
  all fail at the same point. Writing ends by the bound `LastWrite`.
* `Collection`: captures under way go on, someone collects again and again, and
  files grow old (weak fairness). Nothing forces damage to be mended: what must
  wait for that is stated on the condition that it ends.

**Deadlock** is checked in `SessionLock`, `TurnScope` and `Collection`, whose
processes can always ask again or collect. The other models stop when their
bounds are used up.

**Bounds.** `MaxLog`, `MaxEdits`, `MaxImages`, `MaxOps` and `MaxFaults` bound
what may happen; `MaxUndo` is the code's `MAX_RESTORE_HISTORY`, set to 1 or 2 so
that the cap is reached. One path is enough for the properties of `Rewind`, which
speak of one path at a time while plan and capture treat each path by itself;
the proofs hold for any number. Two sessions, two processes and three operations
are what the known races of `Store` need: one to publish, one to publish again,
to fork or to hand over, and one to sweep. `StoreHandover` starts where one
capture and up to two hand-overs have ended and settled (`HandedOnce`), the heir's
log there or deleted since, so that the two operations of the run meet over a
stack with records; two manifests tell the records apart. `Collection` starts
after one capture, and its damage is to one file of each kind that matters
(`MCFragile`).
Three processes and three inodes let one hold a file, one have it open and one
create another. Three turns are one to declare in, one inside a window of one
turn and one outside it. In `StatCache` time goes on for four moments after
the last write, more than the window, so that every stamp can settle; two of
three contents share a size, so that only stamps tell them apart. In `Scan` one
root lies in another and the budget is one file, so that each place counts.
Contents, modes, turns, sessions and processes of `Rewind` and `Store` are
interchangeable and are permuted by symmetry sets; where liveness is checked
there are none.
Every property has been seen to fail when one definition is mutated the way a
plausible bug would (the operators marked `Mutant of`).

### What the code does not keep

Each of these runs checks one statement of the repository's constitution and
finds it violated.

| run | statement | what happens |
|---|---|---|
| `ClaimUndoRecord` | III.4: an undo pops the record it reverses | the record is read before the lock and popped by position |
| `ClaimTombstone` | II.4: a read failure is no licence to delete | `declare` records any failure as absence |

Other divergences met while modelling. The properties above are the forms that
hold; these are why they are not stronger.

* A path the rescue could not store is restored over all the same
  (`checkpoint.rs:176-203`, `restore.rs:71-73`; constitution II.2). Excepted in
  `RescueCovers`.
* A declaration can leave a tombstone beside an entry for the same path
  (`store.rs:366-383`), and applying such a target twice does not give the same
  result (III.3). `RestoreReachesTarget` accepts both for such a path.
* Where the rewind removed a file, a link to nothing put there since counts as
  nothing: its undo replaces it and does not report it (`store.rs:475` and 522,
  `Path::exists`). `ChangedContentIsReported` reads through links.
* A push or pop of an undo stack writes back what it read, and a hand-over pushes
  without the owner's lock (`refs.rs:511`, `store.rs:703-710`): of two
  that overlap one record is lost, or a spent one comes back. Excepted in
  `UndoIsKept`. If the heir is deleted between `ensure` and the push, its record
  is filed without a log, and collection takes it for residue; excepted in
  `UndoHasLog`.
* `ensure` may put an empty log over one that has appeared since it looked
  (`refs.rs:177-190`). Excepted in `HistoryIsKept`.
* A mode changed after a rewind to a pre-edit image is reverted by its undo and
  not reported (`store.rs:432`; the comment at 417-421). `ChangedContentIsReported`
  speaks of content.
* An undo compares a path its target speaks of with that target alone
  (`store.rs:453-476`). If the path was ignored at the rewind, and so spared, and
  no longer is at the undo, the comparison is with something the rewind never
  imposed: a change that happens to match the rewind's target is overwritten
  unreported (III.5). This takes four edits, more than the runs afford. The proof
  of `ChangedContentIsReported` stopped there, and TLC refuted the property on an
  instance of that size; `spared` records the exception.
* `delete_sessions` reads a session's records before it locks the session
  (`store.rs:916`): turns captured in between resolve until the next collection
  (VIII.3).
* A manifest adopted or inherited between a sweep's check and its unlink is
  lost to the log that now names it (`sweep.rs:283`; `store.rs:559-561` says that
  collection marks from every log). This is `raced`.
* A capture takes hashes over from the latest manifest of its session and never
  looks whether their blobs are there (`checkpoint.rs:192-202`). So a manifest
  lost in the way above can take others with it that are saved later: a fork
  copies manifest l out of a log that a delete has listed as doomed; the delete
  judges l dead before it sees the copy; a capture on the fork reads l and takes
  its content over; l is unlinked, then its blobs are, by a collection for which
  nothing names them; the capture saves a manifest without content. It takes
  more operations than the runs afford; `ContentIsKept` without `hollow` was
  refuted on a larger instance when its proof failed.
* A declaration that lands under a turn older than others already counted takes
  that turn's old position (`declared.rs:174`), although a path declared again
  moves forward (`declared.rs:167`). `WatchedForTheWindow` promises the full
  window to declarations under the latest turn.
* `ENOLCK` counts as "no locks here" (`lock.rs:172`), and is also what a kernel
  with locks answers when it runs out of lock records: the operation then goes on
  unlocked, "the one outcome this module exists to prevent" (`lock.rs:152`). The
  model has such kernels, and `Exclusive`, `NeverSilentlyUnlocked` and
  `ImplementsMutex` except them. The repository does not say which meaning of
  the code is meant.
* Ignore rules are applied by each root to what lies beneath it and not to
  declared paths: a root inside another does not know the outer one's rules.
  `IgnoredStaysOut` says so. A link that the index lists and no walk comes to is
  missing from the report, since opening it follows the link.

## 4. What is proved

### Rewind

`RewindProofs` proves, for every set of paths, contents, modes, sessions, turns
and processes and every bound:

| theorem | states |
|---|---|
| `TypeInvariant` | `TypeOK`, and that plans stay within what their targets record |
| `RestoresReachTheirTarget` | `RestoreReachesTarget` |
| `RecordsStateOnlyWhatWas` | `RecordsAreTrue`, where everything can be stored |
| `OnlyTheAbsentIsRemoved` | `RemovesOnlyWhatWasAbsent`, where everything can be stored |
| `EveryRestoreIsReversible` | `RescueCovers` |
| `UndoesReturn` | `UndoReturns` |
| `ChangesAreReported` | `ChangedContentIsReported` |

They use the named assumptions of the modules: the markers for missing things
are distinct from real things (`DistinctMarkers`), no session is `NoSession`
(`SessionAssumption`), the bounds are numbers and `MaxUndo` is positive
(`BoundAssumption`). "Where everything can be stored" is `Unstorable = {}`: with
paths no capture can store those two are false, and `ClaimTombstone` shows where
that begins. The others hold whatever stands at a path: files no capture can
store, and links.

The argument. None of the properties is inductive as it stands.

* `PlanFollowsTarget` says that what a restore has yet to write is recorded in
  its target and what it has yet to remove is absent there. With it `TypeOK` is
  inductive: only then is a written entry an entry.
* `RestoreAdvances` generalises `RestoreReachesTarget` to restores under way:
  a path is as the target wants it, or as the rescue found it and still
  planned, or failed, or changed by others. `AdvanceStep` shows that every
  step keeps it, `NothingToWrite` that a path the plan leaves out was already
  right.
* `Truth` is `RecordsAreTrue` carried through everything a manifest can come
  from: logs, index, undo records, restores under way (`LogsKnown`,
  `IndexKnown`, `StacksKnown`, `RestoresKnown`), and images and the disk
  (`FilesSeen`). It is stated of manifests known in `past`, which only grows,
  so that `KnownStays` disposes of all the steps that name nothing new.
* `RescueIsComplete` says of a restore under way that its rescue is the capture
  it took, as far as that could record what it found, and that paths nobody else
  touched still are as the plan has them.
  Its heart is constitution III.2: a plan touches only paths its target
  observes, and the rescue observes all of them.
* `Faithful` says what an undo record is worth: its rescue holds what its rewind
  found, as far as the target speaks of it, and a rewind that met with nothing
  changed only what its target speaks of and left that as the target has it.
  It is true when the record is filed (`FiledFaithful`, from `RestoreAdvances`
  and `RescueIsComplete`), and a record never changes: `RecordsFaithful` says it
  of every stack, `UndosFollow` of the record each undo under way has read. So an
  undo, being a restore to that rescue, ends where the rewind began.
* `CheckHolds` carries what an undo saw when it looked for conflicts through its
  survey and its rescue to its last write: each path it has still to change was
  reported, or nobody changed it since and it looks as target or rescue say
  (`AsLeft`). With `Faithful`, that is what the rewind left.

The lemmas `ApplyingStep`, `RescueEffect`, `FileEffect`, `FileStep`, `LogStep`,
`StackStep` and `NamesStep` state once what any step can do to a restore, a
file, a log, an undo stack or the manifests that are named; the invariance
proofs rest on them rather than on the actions.

### SessionLock

`SessionLockProofs` proves, for every number of processes, inodes and naps:

| theorem | states |
|---|---|
| `LockTypes` | `TypeOK` |
| `Exclusion` | `Exclusive` |
| `NoSilentUnlocking` | `NeverSilentlyUnlocked` |
| `LockIsMutex` | every behaviour of `Safety` is one of `Mutex`'s `Safety` |

They assume `LockMarkers` and `BudgetAssumption` alone, and speak of the answers
the model has (`CommonFaults`, `LocklessFaults`, `ScarceFaults`). `Exclusive` is not
inductive: two processes might hold locks on two files. The invariant `LockInv`
adds that whatever file a process has open is the one the sentinel's name leads
to, so that two enforced guards would be two locks on one file, which the types
rule out; and that a guard without a lock exists only where there are none, or
where a kernel may run out of records for them (`CommonFaultsClassified`: no
other answer of a locking filesystem is in the table of its own platform;
`GuardsAreEnforced`). Each step of `acquire` is then a step of `Mutex` or a stutter.

### StatCache

`StatCacheProofs` proves, for every number of sessions and contents, every size
function and every tick and window with `Lag < Window`:

| theorem | states |
|---|---|
| `CacheTypes` | `TypeOK` |
| `CacheIsSound` | `FingerprintIsProof` |
| `CacheObserves` | every behaviour of `Safety` is one of `Observation` |

They assume `SizeAssumption`, `ClockAssumption` and `NothingAssumption`. The
invariant `CacheInv` says of every stamp that may be trusted that it is a window
old, and that a file which bears it holds what was hashed. A later write's stamp
is at most `Lag` old and so cannot be that one; a file read after a write in the
middle of its capture bears a stamp that the earlier stat did not see. A
re-used entry thus has the content of the file at that moment, which is one of
those the file held during the capture.

### TurnScope

`TurnScopeProofs` proves, for every number of processes, turns, paths and calls
and every window:

| theorem | states |
|---|---|
| `ScopeTypes` | `TypeOK` |
| `NoEntryIsLost` | `HistoryOnlyGrows` |
| `NoDeclarationIsLost` | `DeclarationsAreKept` |
| `WindowIsKept` | `WatchedForTheWindow` |

They rest on what `Mutex` promises and not on how `lock.rs` keeps it, and assume
that the markers for "none" are not real things. `TypeInv` adds that every
declared set, on disk or read into a call, is well formed: its turns distinct,
its positions among them. `SectionInv` (`Standing`) ties calls to the mutex: who is inside holds the lock,
where the filesystem has locks that is at most one, and the log it has read is
the log there is, so that an entry appended to the one is appended to the other.
`KeptInv` (`Owed`) says of a declaration that must not be lost that it is in the
set on disk and in every copy a call inside has read; that the log is not empty,
so that no collector starts on the set; and that the set is young while one is
at work on it.
`WindowInv` relates positions in the declared set to the turns `history` has
seen: every turn counted since a path was declared has a later position than the
path (`Tallied`), so that no path is watched for too long; and for a path declared
under the latest turn every later position is of a turn that has begun since
(`Timely`), so that none is dropped early, on disk and in the copy a call inside
has read. The window then cuts where it says. Counting turns needs them to be
finitely many, and they are: each came with a call (`FewTurns`).

### Collection

`CollectionProofs` proves, for every number of sessions, workspaces, manifests
and blobs, whatever manifests hold, and every bound on captures and faults:

| theorem | states |
|---|---|
| `CollectionTypes` | `TypeOK` |
| `TemporariesAreKept` | `WritersKeepTheirFiles` |
| `CollectionIsSafe` | `WhatLogsNameIsThere` |
| `UndosAreSafe` | `WhatUndosNeedIsThere` |

They assume the shape of the constants (`HomeAssumption`, `HoldsFunction`,
`HeirsAssumption`, `FragileAssumption`) and that markers are not real things
(`NoneAssumption`, `ResidueAssumption`). None of the last three is inductive. The
argument has four layers.

* `YoungInv`: whatever a capture has touched is young while it goes on, and so
  is whatever was touched while a collection was under way. This is the one
  place where the grace window is used (`Settle`).
* `WriterInv`: what a capture has left to do shrinks in the order of `Rank`, and
  the rest is there and young, or a blob that the log accounts for already
  (`Progress`). When the log is renamed into place everything else is
  (`LogComesLast`). A half-written file is touched, so no sweep takes it
  (`TmpStep`), which is `TemporariesAreKept`.
* `Safe` says of a manifest that it is there with its content, that a sweep of the
  manifests of its workspace has it as live or saw it touched (`Live`), and that
  once the workspace is marked the blobs behind it are marked or were touched
  since, or something could not be read (`Marked`), and then no blob is swept.
  With `YoungInv` neither sweep can take it, so it stays safe as long as it is
  live when that sweep begins (`SafeStep`).
* `GcInv` says it of what logs name, which is live as soon as the logs of the
  workspace are read. `UndoInv` says it of what undo records need: their file is
  there, and the sweep begins only after the undo records have been read whole
  (`RetainTurns`). A record is filed when its rescue's log entry has been written
  (`UndoComesLast`), and so is safe from the start although that session, and its
  log, may be deleted at once.

The lemmas `GoneFiles`, `AgedFiles`, `WriterStep`, `LogStep`, `UndoStep` and
`GcStep` say once what any step does to a file, a capture, a log, an undo record
or a collection.

### Scan

`ScanProofs` proves, for every directory, index, list of roots, rules and
budget, and every number of changes during the scan:

| theorem | states |
|---|---|
| `TypeCorrect` | `TypeOK` |
| `NothingGoesMissing` | `NothingVanishes` |
| `MissingAreAskedAbout` | `MissingIsAskedAbout` |
| `ReportsAreComplete` | `ReportIsComplete` |
| `IgnoredStayOut` | `IgnoredStaysOut` |

They assume that there is a root, that what a walk comes to lies beneath its
root (`RootsAssumption`), that paths are finitely many (`PathAssumption`) and
the shape of the directory (`TreesAssumption`). The properties speak of scans
that are done. `ScanInv` says the same of every path the scan is *done with*
(`Met`): that it is among the files, dropped with a reason, a candidate of the
root being walked, or lost to a full budget (`Accounted`). For a budget to have
been full of files no less recent, candidates must be as they were found unless
someone touched them (`CandidatesAreNew`) and no place may be spent on what is
covered otherwise (`PicksAreApart`).

### Store

`StoreProofs`, on the lemmas of `StoreSteps`, proves for every number of
sessions, turns, manifests, blobs and processes, whatever manifests hold, and
every bound on operations, entries and records:

| theorem | states |
|---|---|
| `TypeCorrect` (in `StoreSteps`) | `TypeOK`: no stack outgrows its cap, no two operations hold one session's lock |
| `NamedManifestsStay` | `LogsResolve` |
| `NamedContentStays` | `ContentIsKept` |
| `UnracedStoresAreWhole` | as long as nothing was raced away, what logs name is there with all its content |
| `ListedTurnsStay` | `TurnsResolve` |
| `CollectionConverges` | `OnePassReclaims` |
| `HistoriesGrow` | `HistoryIsKept` |
| `UndoRecordsStay` | `UndoIsKept` |
| `UndoRecordsHaveLogs` | `UndoHasLog` |

They assume the shape of `Holds` (`HoldsAssumption`), that blobs and manifests
are different files (`ObjectAssumption`), that `Nobody` is no session and that
the bounds are numbers. `Typed` ties each stage to the fields in use there
(`Shaped`); the steps are then described by which fields they change (`Goes`,
`Stops`, `Publishes`). None of the properties is inductive. The argument has
these layers.

* `Young`: what an operation has seen touched has not settled, and of two
  operations under way, each has seen what the other has, or met it at its
  start. This is the one place where the grace window is used (`Settle`).
  `Lent`: a sweep has noted all that the forks under way carry.
* `Judged`: if someone has touched an object since a sweep condemned it, the
  sweep's check is stale. With `Young` this gives `OnlySpurnedGo`: an object that
  is unlinked without being `raced` is none that any operation has touched,
  found or carries, nor one the sweep has read of.
* `Writers`: what a capture has put behind it is content of the manifest it took
  over from, or stored and seen. `Whole`: a manifest that was not hollow when it
  was saved has all its content; `Marked`: a collection that has come to the
  blobs knows of all that content. With `CarriedThere` and `SweptLogs`, which
  say the same of the names in logs and of forks that copy them, these keep
  `LogsResolve` and `ContentIsKept`.
* `CarriedTurns`, `SweptTurns`, `JudgedTurns` repeat the argument for the turn
  index, where a delete has no age gate and relies on what it read.
* `Created`, `Orphaned`: whoever looked for a log that has appeared since has
  seen it written. `HistoryIsKept` and `UndoIsKept` follow step by step: a push
  or pop whose stack is not outdated changes one record, as it says (`Forgone`
  names all else that may lose one).
* `Filed`: whoever is about to file an undo record has seen a log there, and a log
  goes only when its session is deleted, which notes the hand-overs it meets
  (`UnlinkedLogs`); an undo holds the lock that such a deletion needs. So records
  are filed under sessions with logs (`UndoHasLog`).
* `Alone`: a collection that has had a settled store to itself has read what is
  there, has pruned what no log leads to, and overlooks no object (`Reclaiming`).
* `Based`: what a capture under way takes over from is in its session's log, so
  that nothing hollow comes about unless something was raced away first.

That `ContentIsKept` had to except more than `raced` was found by its proof: the
capture's step to the manifest could not be closed.

**Only model-checked.** Every invariant and every action property of a passing
run is the statement of a theorem, and so are the safety parts of both
refinements. What is left to TLC is liveness: `OrphansAreCollected`, `DoubtEnds`,
`RecordsAreReclaimed`, `ResidueIsReclaimed`, `ContentIsReclaimed`, and that every
request is answered (`ImplementsMutex`). Liveness and `ENABLED` are outside the
prover's reach, as is induction over data; no module that is proved about uses a
recursive operator.

## 5. What is not modelled

* Identifiers (`id.rs`), the hashing of workspace paths and the refusal of newer
  store versions (`workspace.rs`): pure functions of their arguments.
* `controller.rs`, `maybe_new`: whether a session has a tracker at all. What a
  tracker calls is in `TurnScope`.
* The hash chain and the times in a log, format versions, file naming, events,
  exit codes and the read-only commands: no property here depends on them.
* What the ignore crate and gix do: a set of excluded and of listed paths.
* A declared set that cannot be parsed: it fails the call and changes nothing.
* Temporary files left beside the user's files by a restore that is cut short.

* What a link leads to is none of the modelled paths and does not change; a
  directory on the way to a path is no link.

Links are files of their own kind in `Rewind` and in `Scan`; directories and
unreadable files are `Opaque` in `Rewind`.

## 6. Plan

1. `Manifests`, `Rewind`, their runs and theorems, and `Store` with its runs:
   done.
2. `SessionLock` and `Mutex`, `StatCache` and `Observation`, their refinements
   and theorems; `TurnScope` over `Mutex`; `Scan`; `Collection`: done.
3. Proofs about `TurnScope`, `Collection`, `Scan`, `Store` and the rest of
   `Rewind`: done.
4. An abstract undo stack (a rewind remembers, an undo returns) and `Rewind` as
   its refinement, for runs in which nobody interferes.
5. `Store`'s and `Rewind`'s locked operations over `Mutex`, as in `TurnScope`.
