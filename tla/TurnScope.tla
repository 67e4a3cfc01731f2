------------------------------ MODULE TurnScope ------------------------------
(***************************************************************************)
(* One session's turns: what captures and declarations do, section by       *)
(* section, to the log of the session and to its declared set (turn.rs,     *)
(* declared.rs, controller.rs, and the locked operations of store.rs).      *)
(* Each section that writes runs under the lock of the session, of which    *)
(* this module knows what Mutex promises and SessionLock provides.  Between *)
(* the sections of one call nothing is held: other calls, a deletion and    *)
(* the collection of orphaned declared sets, which takes no lock at all,    *)
(* come in between, and any process may die.                                *)
(*                                                                          *)
(* Rewinds are not here: a rewind that hands its workspace to this session  *)
(* writes it an empty log without its lock (store.rs, RefStore::ensure),    *)
(* and what that may cost is in Store.                                      *)
(***************************************************************************)
EXTENDS Integers, Sequences, FiniteSets, SequencesExt

CONSTANTS
    Proc,       \* processes
    Turn,       \* turns of the host's conversation
    Path,       \* files that edits declare
    Window,     \* windows a capture may be asked for; Unlimited is one
    Unlimited,
    NoTurn,
    Locking,    \* may the filesystem have locks, or have none?
    MaxOps      \* bound: calls made

ASSUME WindowAssumption == Window \subseteq (Nat \ {0}) \cup {Unlimited}
ASSUME ScopeMarkers == NoTurn \notin Turn /\ Unlimited \notin Nat /\ MaxOps \in Nat
ASSUME LockingAssumption == Locking \subseteq BOOLEAN

VARIABLES
    exclusive, waiting, holders,    \* the lock of the session, see Mutex
    log,                \* refs/: entries in order; empty when there is no file
    declared,           \* declared/: turns first seen, and who declared what
    young,              \* is the declared file younger than GC_GRACE?
    op,                 \* the call each process is in
    collector,          \* what a collection has seen of the declared set
    ops,                \* calls made so far
    history             \* what happened to each path since it was declared

vars == <<exclusive, waiting, holders, log, declared, young, op, collector, ops, history>>
lockVars == <<exclusive, waiting, holders>>

Lock == INSTANCE Mutex

Entry == [turn : Turn, paths : SUBSET Path]

\* The latest turn to declare a path, as a position in turns; 0 for a path
\* that is not declared.
DeclaredFile == [turns : Seq(Turn), since : [Path -> Nat]]

NoDeclared == [turns |-> <<>>, since |-> [f \in Path |-> 0]]

Entries(file) == {f \in Path : file.since[f] > 0}

------------------------------------------------------------------------------
(* declared.rs *)

Position(file, t) == CHOOSE i \in DOMAIN file.turns : file.turns[i] = t

\* Mutant of WithTurn: a turn that is known already is added again.
WithTurnAgain(file, t) == [file EXCEPT !.turns = Append(@, t)]

WithTurn(file, t) ==
    IF t \in ToSet(file.turns) THEN file
    ELSE [file EXCEPT !.turns = Append(@, t)]

\* declare: the turn gets a position if it has none, and the paths move to it.
Declare(file, t, paths) ==
    IF paths = {} THEN file
    ELSE LET with == WithTurn(file, t) IN
         [with EXCEPT !.since = [f \in Path |->
             IF f \in paths THEN Position(with, t) ELSE @[f]]]

\* note_turn: a turn counts even if it declares nothing, once there is
\* something whose window it advances.
NoteTurn(file, t) == IF Entries(file) = {} THEN file ELSE WithTurn(file, t)

\* Mutant of Cutoff: the turn being captured is not allowed for.
CutoffShort(file, window) ==
    IF window = Unlimited THEN 0
    ELSE LET n == Len(file.turns) - window IN IF n < 0 THEN 0 ELSE n

Cutoff(file, window) ==
    IF window = Unlimited THEN 0
    ELSE LET n == Len(file.turns) - (window + 1) IN IF n < 0 THEN 0 ELSE n

\* active: the paths still inside the window.
Active(file, window) == {f \in Entries(file) : file.since[f] > Cutoff(file, window)}

------------------------------------------------------------------------------
(* Calls.  A section is a stretch of a call; the locked ones are read and     *)
(* write, with the read kept in the call.                                     *)

LockedSections == {"note", "checkpoint", "attach", "declare", "delete"}

Call == [section : {"idle", "list", "unlink"} \cup LockedSections,
         turn : Turn \cup {NoTurn},
         todo : SUBSET Path,        \* paths a declaration has yet to attach
         paths : SUBSET Path,       \* recorded by a declaration, or watched
         inside : BOOLEAN,          \* past the lock of the section
         log : Seq(Entry),          \* the log, as read inside
         file : DeclaredFile]       \* the declared set, as read inside

NoCall == [section |-> "idle", turn |-> NoTurn, todo |-> {}, paths |-> {},
           inside |-> FALSE, log |-> <<>>, file |-> NoDeclared]

\* History of a path: is it declared for a session that has a log; the turn
\* that last declared it, if no later one was known; the other turns that may
\* have come up since; those that were counted since.
Unwatched == [owed |-> FALSE, turn |-> NoTurn, begun |-> {}, counted |-> {}]

Init ==
    /\ Lock!Init /\ exclusive \in Locking
    /\ log = <<>>
    /\ declared = NoDeclared
    /\ young = FALSE
    /\ op = [p \in Proc |-> NoCall]
    /\ collector = "idle"
    /\ ops = 0
    /\ history = [f \in Path |-> Unwatched]

------------------------------------------------------------------------------
Begin(p, call) ==
    /\ op[p] = NoCall
    /\ ops < MaxOps
    /\ ops' = ops + 1
    /\ op' = [op EXCEPT ![p] = call]
    /\ Lock!Request(p)
    /\ history' = [f \in Path |->
         IF call.turn \in {NoTurn, history[f].turn} THEN history[f]
         ELSE [history[f] EXCEPT !.begun = @ \cup {call.turn}]]
    /\ UNCHANGED <<log, declared, young, collector>>

\* capture_turn starts with note_turn.
BeginCapture(p, t) == Begin(p, [NoCall EXCEPT !.section = "note", !.turn = t])

\* declare_edits, of the paths the ignore rules leave.
BeginDeclare(p, t, paths) ==
    /\ paths # {}
    /\ Begin(p, [NoCall EXCEPT !.section = "attach", !.turn = t, !.todo = paths])

\* delete_sessions, of this session.
BeginDelete(p) == Begin(p, [NoCall EXCEPT !.section = "delete"])

\* Mutant of Enter: note_turn takes no lock.
EnterNoteUnlocked(p) ==
    /\ op[p].section \in LockedSections
    /\ p \in waiting
    /\ op[p].section = "note" \/ holders = {}
    /\ waiting' = waiting \ {p}
    /\ holders' = holders \cup {p}
    /\ UNCHANGED exclusive
    /\ op' = [op EXCEPT ![p].inside = TRUE, ![p].log = log, ![p].file = declared]
    /\ UNCHANGED <<log, declared, young, collector, ops, history>>

\* Mutant of Enter: attach_pre_edit takes no lock.
EnterAttachUnlocked(p) ==
    /\ op[p].section \in LockedSections
    /\ p \in waiting
    /\ op[p].section = "attach" \/ holders = {}
    /\ waiting' = waiting \ {p}
    /\ holders' = holders \cup {p}
    /\ UNCHANGED exclusive
    /\ op' = [op EXCEPT ![p].inside = TRUE, ![p].log = log, ![p].file = declared]
    /\ UNCHANGED <<log, declared, young, collector, ops, history>>

\* The lock of a section is had, and the section reads what it will rewrite.
Enter(p) ==
    /\ op[p].section \in LockedSections
    /\ Lock!Grant(p)
    /\ op' = [op EXCEPT ![p].inside = TRUE, ![p].log = log, ![p].file = declared]
    /\ UNCHANGED <<log, declared, young, collector, ops, history>>

\* The call goes on with another section, if it has one, without the lock.
Outside(call) == [call EXCEPT !.inside = FALSE, !.log = <<>>, !.file = NoDeclared]

\* note_turn; a file that stays as it is is not written.
Note(p) ==
    /\ op[p].section = "note" /\ op[p].inside
    /\ IF NoteTurn(op[p].file, op[p].turn) = op[p].file
       THEN UNCHANGED <<declared, young, history>>
       ELSE /\ declared' = NoteTurn(op[p].file, op[p].turn)
            /\ young' = TRUE
            /\ history' = [f \in Path |->
                 [history[f] EXCEPT !.counted = @ \cup {op[p].turn}]]
    /\ op' = [op EXCEPT ![p] = [Outside(op[p]) EXCEPT !.section = "list"]]
    /\ Lock!Release(p)
    /\ UNCHANGED <<log, collector, ops>>

\* declared_paths, without the lock; then on to checkpoint.
List(p, window) ==
    /\ op[p].section = "list"
    /\ op' = [op EXCEPT ![p].section = "checkpoint",
                        ![p].paths = Active(declared, window)]
    /\ Lock!Request(p)
    /\ UNCHANGED <<log, declared, young, collector, ops, history>>

\* checkpoint: the capture of what was listed is appended to the log.
Checkpoint(p) ==
    /\ op[p].section = "checkpoint" /\ op[p].inside
    /\ log' = Append(op[p].log, [turn |-> op[p].turn, paths |-> op[p].paths])
    /\ op' = [op EXCEPT ![p] = NoCall]
    /\ Lock!Release(p)
    /\ UNCHANGED <<declared, young, collector, ops, history>>

LatestPaths(entries) == IF entries = <<>> THEN {} ELSE Last(entries).paths

\* A declaration that has done with path f; declared paths come last.
AfterAttach(call, f, recorded) ==
    LET rest == call.todo \ {f} IN
    [Outside(call) EXCEPT !.todo = rest, !.paths = @ \cup recorded,
                          !.section = IF rest = {} THEN "declare" ELSE "attach"]

\* attach_pre_edit of one path: nothing is appended if the latest manifest
\* covers it.
Attach(p, f) ==
    /\ op[p].section = "attach" /\ op[p].inside
    /\ f \in op[p].todo
    /\ log' = IF f \in LatestPaths(op[p].log) THEN log
              ELSE Append(op[p].log,
                     [turn |-> op[p].turn, paths |-> LatestPaths(op[p].log) \cup {f}])
    /\ op' = [op EXCEPT ![p] = AfterAttach(op[p], f, {f})]
    /\ holders' = holders \ {p}
    /\ waiting' = waiting \cup {p}      \* the next section's request
    /\ UNCHANGED <<exclusive, declared, young, collector, ops, history>>

\* declare_paths.
DeclarePaths(p) ==
    /\ op[p].section = "declare" /\ op[p].inside
    /\ LET file == Declare(op[p].file, op[p].turn, op[p].paths) IN
       /\ IF op[p].paths = {} THEN UNCHANGED <<declared, young>>
          ELSE declared' = file /\ young' = TRUE
       /\ history' = [f \in Path |->
            IF f \in op[p].paths
            THEN [owed |-> log # <<>>,
                  turn |-> IF op[p].turn = Last(file.turns) THEN op[p].turn ELSE NoTurn,
                  begun |-> {op[q].turn : q \in Proc} \ {op[p].turn, NoTurn},
                  counted |-> {}]
            ELSE IF op[p].turn \in ToSet(op[p].file.turns) \/ op[p].paths = {}
            THEN history[f]
            ELSE [history[f] EXCEPT !.counted = @ \cup {op[p].turn}]]
    /\ op' = [op EXCEPT ![p] = NoCall]
    /\ Lock!Release(p)
    /\ UNCHANGED <<log, collector, ops>>

\* delete_sessions removes the declared set first ...
RemoveDeclared(p) ==
    /\ op[p].section = "delete" /\ op[p].inside
    /\ declared' = NoDeclared
    /\ young' = FALSE
    /\ op' = [op EXCEPT ![p].section = "unlink"]
    /\ history' = [f \in Path |-> Unwatched]
    /\ UNCHANGED <<lockVars, log, collector, ops>>

\* ... and the log last.
RemoveLog(p) ==
    /\ op[p].section = "unlink"
    /\ log' = <<>>
    /\ op' = [op EXCEPT ![p] = NoCall]
    /\ Lock!Release(p)
    /\ UNCHANGED <<declared, young, collector, ops, history>>

\* The session is busy, or the lock failed: a capture goes on without having
\* noted its turn and ends without a snapshot; a declaration skips the path,
\* and ends without having declared what it attached; a delete is refused.
Busy(p) ==
    /\ p \in waiting
    /\ CASE op[p].section = "note" ->
              /\ op' = [op EXCEPT ![p].section = "list"]
              /\ Lock!Refuse(p)
         [] op[p].section = "attach" ->
              /\ \E f \in op[p].todo : op' = [op EXCEPT ![p] = AfterAttach(op[p], f, {})]
              /\ UNCHANGED lockVars     \* refused, and asks again
         [] OTHER ->
              /\ op' = [op EXCEPT ![p] = NoCall]
              /\ Lock!Refuse(p)
    /\ UNCHANGED <<log, declared, young, collector, ops, history>>

Crash(p) ==
    /\ op[p] # NoCall
    /\ op' = [op EXCEPT ![p] = NoCall]
    /\ waiting' = waiting \ {p}
    /\ holders' = holders \ {p}
    /\ UNCHANGED <<exclusive, log, declared, young, collector, ops, history>>

\* GC_GRACE has passed since the file was written; whatever was running then
\* has ended.
Settle ==
    /\ young
    /\ \A p \in Proc : op[p] = NoCall
    /\ collector = "idle"
    /\ young' = FALSE
    /\ UNCHANGED <<lockVars, log, declared, op, collector, ops, history>>

\* Mutant of Look: the sessions to look at are enumerated by their logs.
LookByLog ==
    /\ collector = "idle"
    /\ declared # NoDeclared
    /\ log # <<>>
    /\ collector' = "looked"
    /\ UNCHANGED <<lockVars, log, declared, young, op, ops, history>>

(* orphan_declared: enumerate the declared sets, look for a log, look at the  *)
(* age, remove.                                                               *)
Look ==
    /\ collector = "idle"
    /\ declared # NoDeclared
    /\ log = <<>>
    /\ collector' = "looked"
    /\ UNCHANGED <<lockVars, log, declared, young, op, ops, history>>

Judge ==
    /\ collector = "looked"
    /\ collector' = IF young \/ declared = NoDeclared THEN "idle" ELSE "judged"
    /\ UNCHANGED <<lockVars, log, declared, young, op, ops, history>>

\* What was declared after the age was looked at goes with the rest.
Collect ==
    /\ collector = "judged"
    /\ collector' = "idle"
    /\ declared' = NoDeclared
    /\ young' = FALSE
    /\ history' = IF young THEN [f \in Path |-> Unwatched] ELSE history
    /\ UNCHANGED <<lockVars, log, op, ops>>

------------------------------------------------------------------------------
Section(p) ==
    \/ Enter(p) \/ Busy(p)
    \/ Note(p)
    \/ \E window \in Window : List(p, window)
    \/ Checkpoint(p)
    \/ \E f \in Path : Attach(p, f)
    \/ DeclarePaths(p)
    \/ RemoveDeclared(p) \/ RemoveLog(p)

Collection == Look \/ Judge \/ Collect

Next ==
    \/ \E p \in Proc :
         \/ \E t \in Turn : BeginCapture(p, t)
         \/ \E t \in Turn, paths \in SUBSET Path : BeginDeclare(p, t, paths)
         \/ BeginDelete(p)
         \/ Section(p)
         \/ Crash(p)
    \/ Settle
    \/ Collection

Safety == Init /\ [][Next]_vars

\* Calls that have begun go on, collections are made, and files grow old
\* between them: a collection takes less time than the grace window, so it
\* cannot keep a file from settling (SF, for Settle waits while one runs).
Spec ==
    /\ Safety
    /\ \A p \in Proc : WF_vars(Section(p))
    /\ SF_vars(Settle)
    /\ WF_vars(Collection)

------------------------------------------------------------------------------
(* Properties *)

\* The shape of the state; the turns of a declared set are distinct and every
\* declared path points at one of them.
TypeOK ==
    /\ exclusive \in BOOLEAN /\ waiting \subseteq Proc /\ holders \subseteq Proc
    /\ log \in Seq(Entry)
    /\ declared \in DeclaredFile
    /\ young \in BOOLEAN
    /\ op \in [Proc -> Call]
    /\ collector \in {"idle", "looked", "judged"}
    /\ ops \in 0 .. MaxOps
    /\ history \in [Path -> [owed : BOOLEAN, turn : Turn \cup {NoTurn},
                             begun : SUBSET Turn, counted : SUBSET Turn]]
    /\ IsInjective(declared.turns)
    /\ \A f \in Path : declared.since[f] <= Len(declared.turns)

\* No entry of the log is ever lost to another call that rewrites the log:
\* whatever captures and declarations run, and however they die, the log only
\* grows at its end, until a deletion removes it (store.rs, locked; lock.rs:
\* proceeding without the lock is what loses a log entry).
HistoryOnlyGrows ==
    [][exclusive => \/ IsPrefix(log, log')
                    \/ \E p \in Proc : RemoveLog(p)]_vars

\* A declaration that landed stays, until the session is deleted: neither
\* another call that rewrites the set nor a collection takes it away.  One
\* window is open and excepted: between the collector's look at the age of an
\* orphaned set and its removal (sweep.rs, orphan_declared, takes no lock).
DeclarationsAreKept ==
    \A f \in Path : exclusive /\ history[f].owed => f \in Entries(declared)

\* The window means what it says.  A path declared under the latest turn is
\* watched by every capture at which no more further turns than the window
\* have come up since, its own included; and a path watched has had no more
\* further turns counted since than the window, whichever turn declared it
\* (declared.rs, DeclaredWindow::Turns and active), where the filesystem has
\* locks.
WatchedForTheWindow ==
    [][\A p \in Proc, w \in Window :
         exclusive /\ List(p, w) => \A f \in Path :
           /\ /\ history[f].owed /\ history[f].turn # NoTurn
              /\ w = Unlimited \/ Cardinality(history[f].begun) <= w
              => f \in op'[p].paths
           /\ /\ f \in op'[p].paths
              => w = Unlimited \/ Cardinality(history[f].counted) <= w]_vars

\* A declared set that is left without a log, by a declaration that landed
\* after its session was deleted or by a delete that died, is collected in the
\* end, or its session lives again (sweep.rs, orphan_declared).
OrphansAreCollected ==
    (declared # NoDeclared /\ log = <<>>) ~> (declared = NoDeclared \/ log # <<>>)
==============================================================================
