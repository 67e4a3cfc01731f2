-------------------------------- MODULE Store --------------------------------
(***************************************************************************)
(* The store of one workspace, shared without a common lock by processes   *)
(* that capture, rewind, fork, delete and collect.                         *)
(*                                                                         *)
(* Blobs and manifests are files named by their content, so saving one     *)
(* that exists writes nothing and only renews its modification time.       *)
(* Roots are the session logs, the turn index and the undo records.        *)
(* Sweeps decide from what they read some time ago; what stands between    *)
(* them and a capture under way is that no file younger than GC_GRACE is   *)
(* removed.  Time is kept by which files are younger than that.  GC_GRACE  *)
(* is taken to outlast any two operations that overlap, so a file touched  *)
(* by one does not settle before it, and whatever began during it, ended.  *)
(*                                                                         *)
(* One step is one file read, written, renamed into place or unlinked, and *)
(* a process may die between any two.  Files left behind by a write that   *)
(* was cut short are invisible to every reader and not modelled.           *)
(***************************************************************************)
EXTENDS Naturals, FiniteSets, SequencesExt

CONSTANTS
    Session,
    Turn,
    Manifest,   \* manifest ids
    Blob,       \* content hashes
    Holds,      \* the blobs each manifest's entries name
    Proc,
    Nobody,     \* no session
    MaxUndo,    \* refs.rs, MAX_RESTORE_HISTORY
    MaxLog,     \* bound: entries per session log
    MaxOps      \* bound: operations started

ASSUME HoldsAssumption == Holds \in [Manifest -> SUBSET Blob]
\* Blobs and manifests are kept in directories of their own.
ASSUME ObjectAssumption == Blob \cap Manifest = {}
ASSUME NobodyAssumption == Nobody \notin Session
ASSUME MaxAssumption ==
    MaxUndo \in Nat \ {0} /\ MaxLog \in Nat /\ MaxOps \in Nat

VARIABLES
    objects,   \* stored blobs and manifests
    log,       \* session logs; the domain is the sessions that have one
    turns,     \* the turn index; the domain is the turns with an entry
    undo,      \* undo stacks; the domain is the sessions with a record file
    fresh,     \* files younger than GC_GRACE
    op,        \* what each process is doing
    ops,       \* bound: operations started so far
    raced,     \* history: removed in a window the code leaves open
    cut,       \* history: turns whose capture died before indexing them
    hollow     \* history: manifests saved when what their capture had taken
               \*   content over from was gone

vars == <<objects, log, turns, undo, fresh, op, ops, raced, cut, hollow>>

-----------------------------------------------------------------------------
(* Types. *)

Object == Blob \cup Manifest
SafetyTurn(m) == <<"safety", m>>
TurnKey == Turn \cup ({"safety"} \X Manifest)
Entry == [turn : TurnKey, manifest : Manifest]
Record == [target : Manifest, safety : Manifest]

\* Files, by what they hold.
TurnFile(t) == <<"turn", t>>
UndoFile(s) == <<"undo", s>>
LogFile(s) == <<"log", s>>
File == Object \cup {TurnFile(t) : t \in TurnKey}
               \cup {UndoFile(s) : s \in Session} \cup {LogFile(s) : s \in Session}

Operation ==
    [kind : {"none", "capture", "rewind", "undo", "fork", "delete", "collect"},
     stage : {"idle", "store", "index", "ensure", "create", "push", "record",
              "pop", "spend", "inherit", "lock", "unlink undo", "unlink log",
              "roots", "orphans", "turns", "manifests", "mark", "blobs"},
     session : Session \cup {Nobody},
     locked : BOOLEAN,              \* whether it holds that session's lock
     owner : Session \cup {Nobody}, \* whose stack a rewind pushes to
     stack : Seq(Record),           \* the stack it is to change, as it read it
     turn : TurnKey \cup {Nobody},
     manifest : Manifest \cup {Nobody},
     target : Manifest \cup {Nobody},
     todo : SUBSET Object,          \* still to be stored
     found : SUBSET Object,         \* found to exist, about to be freshened
     entries : Seq(Entry),          \* still to be inherited
     doomedTurns : SUBSET TurnKey,  \* what a delete may remove
     doomed : SUBSET Manifest,
     unread : SUBSET Session,       \* logs listed and not yet read
     liveTurns : SUBSET TurnKey,
     live : SUBSET Object,
     condemned : SUBSET File,       \* judged dead, about to be unlinked
     span : SUBSET File,            \* history: touched since it began, and
     met : SUBSET File,             \*   during what it found under way then
     renewed : SUBSET File,         \* history: touched since its last check
     lent : SUBSET File,            \* history: carried by forks since it began
     base : SUBSET Manifest,        \* history: what it took content over from
     quiet : BOOLEAN]               \* history: a collection that began with all
                                    \*   settled and has had the store to itself

NoOp ==
    [kind |-> "none", stage |-> "idle", session |-> Nobody, locked |-> FALSE,
     owner |-> Nobody, stack |-> <<>>, turn |-> Nobody, manifest |-> Nobody, target |-> Nobody,
     todo |-> {}, found |-> {}, entries |-> <<>>, doomedTurns |-> {},
     doomed |-> {}, unread |-> {}, liveTurns |-> {}, live |-> {},
     condemned |-> {}, span |-> {}, met |-> {}, renewed |-> {},
     lent |-> {}, base |-> {}, quiet |-> FALSE]

TypeOK ==
    /\ objects \subseteq Object
    /\ DOMAIN log \subseteq Session
    /\ \A s \in DOMAIN log : log[s] \in Seq(Entry)
    /\ DOMAIN turns \subseteq TurnKey
    /\ \A t \in DOMAIN turns : turns[t] \in Manifest
    /\ DOMAIN undo \subseteq Session
    /\ \A s \in DOMAIN undo : undo[s] \in Seq(Record) /\ Len(undo[s]) <= MaxUndo
    /\ fresh \subseteq File
    /\ op \in [Proc -> Operation]
    /\ \A p, q \in Proc : op[p].locked /\ op[q].locked /\ p # q
                             => op[p].session # op[q].session
    /\ ops \in 0..MaxOps
    /\ raced \subseteq File
    /\ cut \subseteq TurnKey
    /\ hollow \subseteq Manifest

-----------------------------------------------------------------------------
(* Helpers. *)

With(f, k, v) == [x \in DOMAIN f \cup {k} |-> IF x = k THEN v ELSE f[x]]
Without(f, k) == [x \in DOMAIN f \ {k} |-> f[x]]

\* RefStore::load: a session without a log has an empty one.
LogOf(s) == IF s \in DOMAIN log THEN log[s] ELSE <<>>
StackOf(s) == IF s \in DOMAIN undo THEN undo[s] ELSE <<>>

ManifestsIn(entries) == {e.manifest : e \in ToSet(entries)}
TurnsIn(entries) == {e.turn : e \in ToSet(entries)}
RecordsOf(stack) == UNION {{r.target, r.safety} : r \in ToSet(stack)}

\* latest_manifest, as the set of at most one.
Latest(s) == IF LogOf(s) = <<>> THEN {} ELSE {Last(LogOf(s)).manifest}

\* What a fork takes over from another session's log.
Carried(entries) ==
    ManifestsIn(entries) \cup (UNION {Holds[m] : m \in ManifestsIn(entries)})
        \cup {TurnFile(t) : t \in TurnsIn(entries)}

Held(s) == \E p \in Proc : op[p].locked /\ op[p].session = s

Sweeper(r) == r.kind \in {"delete", "collect"}

\* The state of all processes once p's is r, `file' has been touched (its age
\* starts anew) and `record' rewritten (nobody asks its age).
Stepped(p, r, file, record) ==
    [q \in Proc |->
       LET now == IF q = p THEN r ELSE op[q] IN
       IF now.stage = "idle" THEN NoOp
       ELSE [now EXCEPT !.span = @ \cup file,
                        !.renewed = IF now.condemned = {} /\ now.stage # "create"
                                    THEN {} ELSE @ \cup file \cup record]]

Step(p, r) == op' = Stepped(p, r, {}, {}) /\ UNCHANGED fresh
StepLogging(p, r, s) == op' = Stepped(p, r, {}, {LogFile(s)}) /\ UNCHANGED fresh
StepTouching(p, r, f) == op' = Stepped(p, r, {f}, {}) /\ fresh' = fresh \cup {f}

\* p starts on r, copying `entries'; whoever is under way is no longer alone.
Begin(p, r, entries) ==
    LET others == {op[q] : q \in Proc \ {p}} IN
    /\ op[p].stage = "idle"
    /\ ops < MaxOps
    /\ ops' = ops + 1
    /\ op' = [q \in Proc |->
                IF q = p
                THEN [r EXCEPT
                        !.entries = entries,
                        !.met = UNION {o.span : o \in others},
                        !.lent = IF Sweeper(r)
                                 THEN UNION {Carried(o.entries) : o \in others} ELSE {},
                        !.quiet = /\ r.kind = "collect"
                                  /\ fresh = {}
                                  /\ \A o \in others : o.stage = "idle"]
                ELSE IF op[q].stage = "idle" THEN NoOp
                ELSE [op[q] EXCEPT
                        !.quiet = FALSE,
                        !.lent = IF Sweeper(op[q]) THEN @ \cup Carried(entries) ELSE @]]
    /\ UNCHANGED fresh

Ended == NoOp

-----------------------------------------------------------------------------
(* Capturing: blobs, then the manifest, then the log entry, then the index. *)

\* A capture reads the latest manifest, under the lock, and takes over from
\* it without storing anything the blobs whose files look unchanged.
Capturing(p, s, r) ==
    /\ ~ Held(s)
    /\ Latest(s) \subseteq objects
    /\ Len(LogOf(s)) < MaxLog
    /\ \E m \in Manifest :
       \E reused \in SUBSET (Holds[m] \cap UNION {Holds[l] : l \in Latest(s)}) :
          Begin(p, [r EXCEPT !.stage = "store", !.session = s, !.locked = TRUE,
                             !.manifest = m, !.base = Latest(s),
                             !.todo = (Holds[m] \ reused) \cup {m}],
                <<>>)
    /\ UNCHANGED <<objects, log, turns, undo, raced, cut, hollow>>

Capture(p, s, t) == Capturing(p, s, [NoOp EXCEPT !.kind = "capture", !.turn = t])

\* restore_to as far as the store is concerned: load the target, capture.
Rewind(p, s, t, owner) ==
    /\ t \in DOMAIN turns
    /\ turns[t] \in objects
    /\ Capturing(p, s, [NoOp EXCEPT !.kind = "rewind", !.owner = owner,
                                    !.target = turns[t],
                                    !.turn = SafetyTurn(turns[t])])

Undo(p, s) ==
    /\ StackOf(s) # <<>>
    /\ LET target == Last(StackOf(s)).safety IN
         /\ target \in objects
         /\ Capturing(p, s, [NoOp EXCEPT !.kind = "undo", !.target = target,
                                         !.turn = SafetyTurn(target)])

\* Whether what p took over from can no longer answer for the content.
Bereft(p) == ~ (op[p].base \subseteq objects \ hollow)

\* store_bytes and save: look whether the object exists; write it if not ...
Store(p, o) ==
    /\ op[p].stage = "store"
    /\ op[p].found = {}
    /\ o \in op[p].todo
    /\ o \in Manifest => op[p].todo = {o}
    /\ IF o \in objects
       THEN /\ Step(p, [op[p] EXCEPT !.found = {o}])
            /\ UNCHANGED <<objects, hollow>>
       ELSE /\ objects' = objects \cup {o}
            /\ hollow' = hollow \cup IF o \in Manifest /\ Bereft(p) THEN {o} ELSE {}
            /\ StepTouching(p, [op[p] EXCEPT !.todo = @ \ {o}], o)
    /\ UNCHANGED <<log, turns, undo, ops, raced, cut>>

\* Mutant of Freshen: an adopted object keeps the age it had.
FreshenNothing(p, o) ==
    /\ o \in op[p].found
    /\ Step(p, [op[p] EXCEPT !.todo = @ \ {o}, !.found = {}])
    /\ UNCHANGED <<objects, log, turns, undo, ops, raced, cut, hollow>>

\* ... and renew its time if so, which fails silently if it is gone by now.
Freshen(p, o) ==
    /\ o \in op[p].found
    /\ LET r == [op[p] EXCEPT !.todo = @ \ {o}, !.found = {}] IN
         IF o \in objects THEN StepTouching(p, r, o) ELSE Step(p, r)
    /\ UNCHANGED <<objects, log, turns, undo, ops, raced, cut, hollow>>

\* RefStore::append.
AppendEntry(p) ==
    /\ op[p].stage = "store"
    /\ op[p].todo = {}
    /\ log' = With(log, op[p].session,
                   Append(LogOf(op[p].session),
                          [turn |-> op[p].turn, manifest |-> op[p].manifest]))
    /\ StepLogging(p, [op[p] EXCEPT !.stage = "index"], op[p].session)
    /\ UNCHANGED <<objects, turns, undo, ops, raced, cut, hollow>>

\* Mutant of SetTurn: a hand-over does not make sure of the heir's log.
SetTurnAndPush(p) ==
    /\ op[p].stage = "index"
    /\ turns' = With(turns, op[p].turn, op[p].manifest)
    /\ StepTouching(p, CASE op[p].kind = "undo" -> [op[p] EXCEPT !.stage = "pop"]
                         [] op[p].kind = "rewind" /\ op[p].owner # Nobody
                              -> [op[p] EXCEPT !.stage = "push"]
                         [] OTHER -> Ended,
                    TurnFile(op[p].turn))
    /\ UNCHANGED <<objects, log, undo, ops, raced, cut, hollow>>

\* TurnIndex::set_turn; a plain capture ends here and drops its lock.
SetTurn(p) ==
    /\ op[p].stage = "index"
    /\ turns' = With(turns, op[p].turn, op[p].manifest)
    /\ StepTouching(p, CASE op[p].kind = "undo" -> [op[p] EXCEPT !.stage = "pop"]
                         [] op[p].kind = "rewind" /\ op[p].owner # Nobody
                              -> [op[p] EXCEPT !.stage = "ensure"]
                         [] OTHER -> Ended,
                    TurnFile(op[p].turn))
    /\ UNCHANGED <<objects, log, undo, ops, raced, cut, hollow>>

\* The session whose log a rewind or a fork makes sure of.
Heir(r) == IF r.kind = "fork" THEN r.session ELSE r.owner

\* What follows once it is there.
Ensured(r) ==
    IF r.kind = "rewind" THEN [r EXCEPT !.stage = "push"]
    ELSE IF r.entries = <<>> THEN Ended
    ELSE [r EXCEPT !.stage = "inherit"]

\* Mutant of Ensure: it is not looked.
EnsureUnchecked(p) ==
    /\ op[p].stage = "ensure"
    /\ Step(p, [op[p] EXCEPT !.stage = "create"])
    /\ UNCHANGED <<objects, log, turns, undo, ops, raced, cut, hollow>>

\* RefStore::ensure looks whether the log exists.  A rewind handing over to
\* another session does so without that session's lock.
Ensure(p) ==
    /\ op[p].stage = "ensure"
    /\ Step(p, IF Heir(op[p]) \in DOMAIN log THEN Ensured(op[p])
               ELSE [op[p] EXCEPT !.stage = "create"])
    /\ UNCHANGED <<objects, log, turns, undo, ops, raced, cut, hollow>>

\* ... and if not puts an empty one there, over any that has appeared since.
Create(p) ==
    LET s == Heir(op[p]) IN
    /\ op[p].stage = "create"
    /\ log' = With(log, s, <<>>)
    /\ raced' = raced \cup IF LogFile(s) \in op[p].renewed THEN {LogFile(s)} ELSE {}
    /\ StepLogging(p, Ensured(op[p]), s)
    /\ UNCHANGED <<objects, turns, undo, ops, cut, hollow>>

\* push_restore reads the owner's stack ...
ReadStack(p) ==
    /\ op[p].stage = "push"
    /\ Step(p, [op[p] EXCEPT !.stage = "record", !.stack = StackOf(op[p].owner)])
    /\ UNCHANGED <<objects, log, turns, undo, ops, raced, cut, hollow>>

\* Mutant of Push: the oldest record goes one push too early.
PushCapped(p) ==
    LET s == op[p].owner
        longer == Append(op[p].stack,
                         [target |-> op[p].target, safety |-> op[p].manifest])
    IN  /\ op[p].stage = "record"
        /\ undo' = With(undo, s, IF Len(longer) >= MaxUndo THEN Tail(longer) ELSE longer)
        /\ StepTouching(p, Ended, UndoFile(s))
        /\ UNCHANGED <<objects, log, turns, ops, raced, cut, hollow>>

\* ... and replaces it by a longer one, whatever has become of it meanwhile.
Push(p) ==
    LET s == op[p].owner
        longer == Append(op[p].stack,
                         [target |-> op[p].target, safety |-> op[p].manifest])
    IN  /\ op[p].stage = "record"
        /\ undo' = With(undo, s, IF Len(longer) > MaxUndo THEN Tail(longer) ELSE longer)
        /\ StepTouching(p, Ended, UndoFile(s))
        /\ UNCHANGED <<objects, log, turns, ops, raced, cut, hollow>>

\* pop_restore reads the stack of the session it undoes for, and is through
\* if there is no record on it ...
ReadRecord(p) ==
    LET stack == StackOf(op[p].session) IN
    /\ op[p].stage = "pop"
    /\ Step(p, IF stack = <<>> THEN Ended
               ELSE [op[p] EXCEPT !.stage = "spend", !.stack = stack])
    /\ UNCHANGED <<objects, log, turns, undo, ops, raced, cut, hollow>>

\* ... and replaces it by one without the last, as little aware of what others
\* have pushed there meanwhile.
Pop(p) ==
    LET s == op[p].session IN
    /\ op[p].stage = "spend"
    /\ undo' = With(undo, s, SubSeq(op[p].stack, 1, Len(op[p].stack) - 1))
    /\ StepTouching(p, Ended, UndoFile(s))
    /\ UNCHANGED <<objects, log, turns, ops, raced, cut, hollow>>

-----------------------------------------------------------------------------
(* Forking. *)

\* inherit_log takes the destination's lock and reads the source's log, which
\* nothing locks, up to and including the last entry for t.  Where there is
\* none it only makes sure that the destination has a log.
Fork(p, src, dst, t) ==
    LET entries == LogOf(src) IN
    /\ src # dst
    /\ ~ Held(dst)
    /\ \E n \in 0 .. Len(entries) :
         /\ n # 0 => entries[n].turn = t
         /\ \A i \in n + 1 .. Len(entries) : entries[i].turn # t
         /\ Len(LogOf(dst)) + n <= MaxLog
         /\ Begin(p, [NoOp EXCEPT !.kind = "fork", !.stage = "ensure",
                                  !.session = dst, !.locked = TRUE],
                  SubSeq(entries, 1, n))
    /\ UNCHANGED <<objects, log, turns, undo, raced, cut, hollow>>

\* One inherited entry; the last one ends the call.
Inherit(p) ==
    LET s == op[p].session
        rest == Tail(op[p].entries)
    IN  /\ op[p].stage = "inherit"
        /\ log' = With(log, s, Append(LogOf(s), Head(op[p].entries)))
        /\ StepLogging(p, IF rest = <<>> THEN Ended
                          ELSE [op[p] EXCEPT !.entries = rest], s)
        /\ UNCHANGED <<objects, turns, undo, ops, raced, cut, hollow>>

-----------------------------------------------------------------------------
(* Deleting. *)

\* delete_sessions for one session: what it held is read first (records_of) ...
Delete(p, s) ==
    /\ Begin(p, [NoOp EXCEPT !.kind = "delete", !.stage = "lock", !.session = s,
                             !.doomedTurns = TurnsIn(LogOf(s)),
                             !.doomed = ManifestsIn(LogOf(s)) \cup RecordsOf(StackOf(s))],
             <<>>)
    /\ UNCHANGED <<objects, log, turns, undo, raced, cut, hollow>>

\* Mutant of LockDoomed: the session is deleted under whoever holds it.
LockRegardless(p) ==
    /\ op[p].stage = "lock"
    /\ Step(p, [op[p] EXCEPT !.stage = "unlink undo", !.locked = TRUE])
    /\ UNCHANGED <<objects, log, turns, undo, ops, raced, cut, hollow>>

\* ... then the lock is taken, ...
LockDoomed(p) ==
    /\ op[p].stage = "lock"
    /\ ~ Held(op[p].session)
    /\ Step(p, [op[p] EXCEPT !.stage = "unlink undo", !.locked = TRUE])
    /\ UNCHANGED <<objects, log, turns, undo, ops, raced, cut, hollow>>

\* ... the undo records go, ...
UnlinkUndo(p) ==
    /\ op[p].stage = "unlink undo"
    /\ undo' = Without(undo, op[p].session)
    /\ Step(p, [op[p] EXCEPT !.stage = "unlink log"])
    /\ UNCHANGED <<objects, log, turns, ops, raced, cut, hollow>>

\* A hand-over to s that found its log has pushed to its stack since the records
\* went, or is still to do so.
HandedOver(s) ==
    s \in DOMAIN undo \/ \E q \in Proc : op[q].stage \in {"push", "record"} /\ op[q].owner = s

\* ... then the log; the lock is dropped and the remaining logs are listed.
UnlinkLog(p) ==
    LET s == op[p].session IN
    /\ op[p].stage = "unlink log"
    /\ log' = Without(log, s)
    /\ raced' = raced \cup IF HandedOver(s) THEN {UndoFile(s)} ELSE {}
    /\ Step(p, [op[p] EXCEPT !.stage = "roots", !.locked = FALSE,
                             !.unread = DOMAIN log'])
    /\ UNCHANGED <<objects, turns, undo, ops, cut, hollow>>

-----------------------------------------------------------------------------
(* Sweeping, by a delete (prune_sessions) and by collection. *)

Collect(p) ==
    /\ Begin(p, [NoOp EXCEPT !.kind = "collect", !.stage = "roots",
                             !.unread = DOMAIN log], <<>>)
    /\ UNCHANGED <<objects, log, turns, undo, raced, cut, hollow>>

\* What a sweep does on a partial answer: a delete ends, and collection leaves
\* the records of this workspace alone and goes on to the content.
Unsure(r) ==
    IF r.kind = "delete" THEN Ended
    ELSE [r EXCEPT !.stage = "mark", !.unread = {}, !.live = {}, !.liveTurns = {}]

\* roots_from_logs, one log at a time.  A listed log that is gone by now makes
\* the answer partial.
ReadLog(p, s) ==
    /\ op[p].stage = "roots"
    /\ s \in op[p].unread
    /\ Step(p, IF s \in DOMAIN log
               THEN [op[p] EXCEPT !.unread = @ \ {s},
                                  !.live = @ \cup ManifestsIn(log[s]),
                                  !.liveTurns = @ \cup TurnsIn(log[s])]
               ELSE Unsure(op[p]))
    /\ UNCHANGED <<objects, log, turns, undo, ops, raced, cut, hollow>>

\* orphan_restore_logs lists the settled undo records of sessions with no log.
ListOrphans(p) ==
    /\ op[p].stage = "roots"
    /\ op[p].unread = {}
    /\ Step(p, IF op[p].kind = "delete" THEN [op[p] EXCEPT !.stage = "turns"]
               ELSE [op[p] EXCEPT !.stage = "orphans",
                       !.condemned = {UndoFile(s) : s \in DOMAIN undo \ DOMAIN log}
                                        \ fresh])
    /\ UNCHANGED <<objects, log, turns, undo, ops, raced, cut, hollow>>

RemoveOrphan(p, s) ==
    /\ op[p].stage = "orphans"
    /\ UndoFile(s) \in op[p].condemned
    /\ undo' = Without(undo, s)
    /\ Step(p, [op[p] EXCEPT !.condemned = @ \ {UndoFile(s)}])
    /\ UNCHANGED <<objects, log, turns, ops, raced, cut, hollow>>

OrphansGone(p) ==
    /\ op[p].stage = "orphans"
    /\ op[p].condemned = {}
    /\ Step(p, [op[p] EXCEPT !.stage = "turns"])
    /\ UNCHANGED <<objects, log, turns, undo, ops, raced, cut, hollow>>

\* Mutant of DeadTurn: collection asks no turn its age either.
DeadTurnUngated(p, t) ==
    /\ t \notin op[p].liveTurns
    /\ IF op[p].kind = "delete" THEN t \in op[p].doomedTurns ELSE t \in DOMAIN turns

\* A delete takes its doomed turns whatever their age; retain_turns takes any
\* turn no log named, if it is settled.
DeadTurn(p, t) ==
    /\ t \notin op[p].liveTurns
    /\ IF op[p].kind = "delete" THEN t \in op[p].doomedTurns
       ELSE t \in DOMAIN turns /\ TurnFile(t) \notin fresh

CondemnTurn(p, t) ==
    /\ op[p].stage = "turns"
    /\ op[p].condemned = {}
    /\ DeadTurn(p, t)
    /\ Step(p, [op[p] EXCEPT !.condemned = {TurnFile(t)},
                             !.doomedTurns = @ \ {t}])
    /\ UNCHANGED <<objects, log, turns, undo, ops, raced, cut, hollow>>

\* The check is stale by now: a capture wrote the entry after it, or a fork
\* has copied the turn.  Without an age gate any write since the start counts.
TurnRenewed(p, t) ==
    TurnFile(t) \in op[p].lent
        \cup IF op[p].kind = "delete" THEN op[p].span ELSE op[p].renewed

RemoveTurn(p, t) ==
    /\ op[p].stage = "turns"
    /\ TurnFile(t) \in op[p].condemned
    /\ turns' = Without(turns, t)
    /\ raced' = raced \cup IF TurnRenewed(p, t) THEN {TurnFile(t)} ELSE {}
    /\ Step(p, [op[p] EXCEPT !.condemned = {}])
    /\ UNCHANGED <<objects, log, undo, ops, cut, hollow>>

\* Mutant of HoldRoots: the index is asked before its stale entries are gone.
HoldRootsAtOnce(p) ==
    /\ op[p].stage = "turns"
    /\ op[p].condemned = {}
    /\ Step(p, [op[p] EXCEPT
                  !.stage = "manifests",
                  !.live = @ \cup {turns[t] : t \in DOMAIN turns}
                             \cup UNION {RecordsOf(undo[s]) : s \in DOMAIN undo},
                  !.doomed = IF op[p].kind = "delete" THEN @ ELSE Manifest \cap objects])
    /\ UNCHANGED <<objects, log, turns, undo, ops, raced, cut, hollow>>

\* all_manifest_ids: what the index and the undo records still name.
HoldRoots(p) ==
    /\ op[p].stage = "turns"
    /\ op[p].condemned = {}
    /\ \A t \in TurnKey : ~ DeadTurn(p, t)
    /\ Step(p, [op[p] EXCEPT
                  !.stage = "manifests",
                  !.live = @ \cup {turns[t] : t \in DOMAIN turns}
                             \cup UNION {RecordsOf(undo[s]) : s \in DOMAIN undo},
                  !.doomed = IF op[p].kind = "delete" THEN @ ELSE Manifest \cap objects])
    /\ UNCHANGED <<objects, log, turns, undo, ops, raced, cut, hollow>>

\* One of those files is about to go: listed before that, it cannot be read after.
Departing ==
    \E q \in Proc :
       \/ op[q].stage = "unlink undo" /\ op[q].session \in DOMAIN undo
       \/ op[q].condemned \cap ({TurnFile(t) : t \in DOMAIN turns}
                                  \cup {UndoFile(s) : s \in DOMAIN undo}) # {}

\* ... which makes this answer partial as well.
MissRoots(p) ==
    /\ op[p].stage = "turns"
    /\ op[p].condemned = {}
    /\ \A t \in TurnKey : ~ DeadTurn(p, t)
    /\ Departing
    /\ Step(p, Unsure(op[p]))
    /\ UNCHANGED <<objects, log, turns, undo, ops, raced, cut, hollow>>

\* Mutant of Dead: no grace window.
DeadUngated(p, o) == o \notin op[p].live

\* Dead: named by nothing that was read, and old enough to trust that.
Dead(p, o) == o \notin op[p].live /\ o \notin fresh

\* The next object a sweep looks at, and what it makes of it.
Condemn(p, o) ==
    /\ op[p].stage \in {"manifests", "blobs"}
    /\ op[p].condemned = {}
    /\ o \in IF op[p].stage = "manifests" THEN op[p].doomed ELSE op[p].todo
    /\ Step(p, [op[p] EXCEPT !.condemned = IF Dead(p, o) THEN {o} ELSE {},
                             !.doomed = @ \ {o}, !.todo = @ \ {o}])
    /\ UNCHANGED <<objects, log, turns, undo, ops, raced, cut, hollow>>

\* The check is stale by now if someone renewed the object after it, is about
\* to, or may have copied its name out of a log that is gone.
Adopted(p, o) ==
    \/ o \in op[p].renewed \cup op[p].lent
    \/ \E q \in Proc : o \in op[q].found

Unlink(p, o) ==
    /\ op[p].stage \in {"manifests", "blobs"}
    /\ o \in op[p].condemned
    /\ objects' = objects \ {o}
    /\ raced' = raced \cup IF Adopted(p, o) THEN {o} ELSE {}
    /\ Step(p, [op[p] EXCEPT !.condemned = {}])
    /\ UNCHANGED <<log, turns, undo, ops, cut, hollow>>

\* A delete stops here.  Collection marks what the manifests there name, and
\* lists the blobs.
Mark(p) ==
    /\ \/ op[p].stage = "mark"
       \/ op[p].stage = "manifests" /\ op[p].doomed = {}
    /\ op[p].condemned = {}
    /\ Step(p, IF op[p].kind = "delete" THEN Ended
               ELSE [op[p] EXCEPT
                       !.stage = "blobs",
                       !.live = UNION {Holds[m] : m \in Manifest \cap objects},
                       !.todo = Blob \cap objects])
    /\ UNCHANGED <<objects, log, turns, undo, ops, raced, cut, hollow>>

Swept(p) ==
    /\ op[p].stage = "blobs"
    /\ op[p].condemned = {}
    /\ op[p].todo = {}
    /\ Step(p, Ended)
    /\ UNCHANGED <<objects, log, turns, undo, ops, raced, cut, hollow>>

-----------------------------------------------------------------------------
(* Time and death. *)

\* GC_GRACE outlasts any two operations that overlap.
Settle(f) ==
    /\ f \in fresh
    /\ \A p \in Proc : f \notin op[p].span \cup op[p].met
    /\ fresh' = fresh \ {f}
    /\ UNCHANGED <<objects, log, turns, undo, op, ops, raced, cut, hollow>>

Crash(p) ==
    /\ op[p].stage # "idle"
    /\ cut' = IF op[p].stage = "index" THEN cut \cup {op[p].turn} ELSE cut
    /\ Step(p, Ended)
    /\ UNCHANGED <<objects, log, turns, undo, ops, raced, hollow>>

-----------------------------------------------------------------------------

Init ==
    /\ objects = {}
    /\ log = <<>>
    /\ turns = <<>>
    /\ undo = <<>>
    /\ fresh = {}
    /\ op = [p \in Proc |-> NoOp]
    /\ ops = 0
    /\ raced = {}
    /\ cut = {}
    /\ hollow = {}

Publishing(p) ==
    \/ \E o \in Object : Store(p, o) \/ Freshen(p, o)
    \/ AppendEntry(p) \/ SetTurn(p) \/ Ensure(p) \/ Create(p) \/ ReadStack(p)
    \/ Push(p) \/ ReadRecord(p) \/ Pop(p) \/ Inherit(p)

Sweeping(p) ==
    \/ LockDoomed(p) \/ UnlinkUndo(p) \/ UnlinkLog(p)
    \/ \E s \in Session : ReadLog(p, s) \/ RemoveOrphan(p, s)
    \/ ListOrphans(p) \/ OrphansGone(p) \/ HoldRoots(p) \/ MissRoots(p)
    \/ Mark(p) \/ Swept(p)
    \/ \E t \in TurnKey : CondemnTurn(p, t) \/ RemoveTurn(p, t)
    \/ \E o \in Object : Condemn(p, o) \/ Unlink(p, o)

Next ==
    \/ \E p \in Proc, s \in Session :
          \/ \E t \in Turn :
                \/ Capture(p, s, t)
                \/ \E owner \in Session \cup {Nobody} : Rewind(p, s, t, owner)
                \/ \E src \in Session : Fork(p, src, s, t)
          \/ Undo(p, s)
          \/ Delete(p, s)
    \/ \E p \in Proc : Collect(p) \/ Publishing(p) \/ Sweeping(p) \/ Crash(p)
    \/ \E f \in File : Settle(f)

Spec == Init /\ [][Next]_vars

-----------------------------------------------------------------------------
(* Properties. *)

\* A log never names a manifest that is gone (sweep.rs: a sweep that took one
\* `would delete a snapshot a live session believes it holds'), unless a
\* removal met, between its check and its unlink, with someone adopting it.
LogsResolve ==
    \A s \in DOMAIN log : ManifestsIn(log[s]) \subseteq objects \cup raced

\* A manifest some log names has all its content, unless the one its capture
\* took content over from was gone by the time it was saved.
ContentIsKept ==
    \A s \in DOMAIN log, m \in Manifest :
        m \in ManifestsIn(log[s]) /\ m \notin raced \cup hollow =>
            Holds[m] \subseteq objects \cup raced

\* Every turn a log lists can be rewound to, once its capture has ended.
TurnsResolve ==
    \A s \in DOMAIN log : \A t \in TurnsIn(log[s]) :
        \/ t \in DOMAIN turns
        \/ TurnFile(t) \in raced
        \/ t \in cut
        \/ \E p \in Proc : op[p].stage = "index" /\ op[p].turn = t

\* Collection converges in one pass (sweep.rs reads the index only after the
\* stale entries in it are pruned): one that found everything settled and had
\* the store to itself leaves nothing that no log leads to.
OnePassReclaims ==
    \A p \in Proc :
        /\ op[p].kind = "collect"
        /\ op[p].stage = "blobs"
        /\ op[p].todo \cup op[p].condemned = {}
        /\ op[p].quiet
        => LET named == (UNION {ManifestsIn(log[s]) \cup RecordsOf(StackOf(s)) : s \in DOMAIN log})
                          \cup {turns[t] : t \in DOMAIN turns}
           IN  /\ DOMAIN undo \subseteq DOMAIN log
               /\ DOMAIN turns \subseteq UNION {TurnsIn(log[s]) : s \in DOMAIN log}
               /\ objects \subseteq named \cup (UNION {Holds[m] : m \in named})

\* A session's history is only ever appended to, until the session is deleted,
\* unless a log appears between ensure's check and the empty one it writes.
HistoryIsKept ==
    [][\A s \in DOMAIN log :
          \/ s \in DOMAIN log' /\ IsPrefix(log[s], log'[s])
          \/ LogFile(s) \in raced'
          \/ \E p \in Proc : op[p].stage = "unlink log" /\ op[p].session = s]_vars

\* o is about to replace s's stack by what follows from an older one.
Outdated(o, s) ==
    /\ \/ o.stage = "record" /\ o.owner = s
       \/ o.stage = "spend" /\ o.session = s
    /\ o.stack # StackOf(s)

\* Whether s's stack loses nothing: every record stays, or the oldest makes room
\* on a full stack, or an undo of s spends the newest.
RecordsStay(s) ==
    /\ s \in DOMAIN undo'
    /\ \/ IsPrefix(undo[s], undo'[s])
       \/ Len(undo[s]) = MaxUndo /\ IsPrefix(Tail(undo[s]), undo'[s])
       \/ /\ undo'[s] = SubSeq(undo[s], 1, Len(undo[s]) - 1)
          /\ \E p \in Proc : op[p].stage = "spend" /\ op[p].session = s

\* No record of a session with a log is lost but by spending it, by the limit and
\* by deletion, unless the stack was changed between a push's or a pop's read
\* and its write, or the log appeared after collection had looked for it.
UndoIsKept ==
    [][\A s \in DOMAIN undo \cap DOMAIN log :
          \/ RecordsStay(s)
          \/ \E p \in Proc :
               \/ Outdated(op[p], s) /\ op'[p].stage = "idle"
               \/ op[p].stage = "unlink undo" /\ op[p].session = s
               \/ /\ op[p].stage = "orphans" /\ UndoFile(s) \in op[p].condemned
                  /\ LogFile(s) \in op[p].renewed]_vars

\* Undo records are filed under sessions with a log, so that collection can take
\* one without for residue (store.rs: otherwise `"no log" and "orphaned undo
\* record" are the same state on disk'), whatever dies where, unless a
\* hand-over met with the deletion of its heir.
UndoHasLog == \A s \in DOMAIN undo : s \in DOMAIN log \/ UndoFile(s) \in raced

=============================================================================
