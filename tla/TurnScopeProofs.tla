---------------------------- MODULE TurnScopeProofs ----------------------------
(***************************************************************************)
(* Proofs about TurnScope, for every number of processes, turns, paths and   *)
(* calls: given a lock that keeps what Mutex promises, no entry of the log    *)
(* and no declaration is lost, and the window means what it says.            *)
(***************************************************************************)
EXTENDS TurnScope, SequenceTheorems, FiniteSetTheorems, TLAPS

-----------------------------------------------------------------------------
(* Declared sets. *)

\* A declared set as it may be on disk: its turns are distinct, and every
\* declared path points at one of them.
WellFormed(file) ==
    /\ file \in DeclaredFile
    /\ IsInjective(file.turns)
    /\ \A f \in Path : file.since[f] <= Len(file.turns)

\* The set of a session that has declared nothing.
LEMMA NoDeclaredFormed == WellFormed(NoDeclared) /\ Entries(NoDeclared) = {}
<1>1. <<>> \in Seq(Turn) /\ Len(<<>>) = 0 /\ DOMAIN <<>> = {}
  BY EmptySeq
<1>2. NoDeclared \in DeclaredFile
  BY <1>1 DEF NoDeclared, DeclaredFile
<1> QED
  BY <1>1, <1>2 DEF NoDeclared, WellFormed, IsInjective, Entries

\* A turn that is added comes last, once, and leaves the positions as they are.
LEMMA WithTurnFormed ==
    ASSUME NEW file, WellFormed(file), NEW t \in Turn
    PROVE  /\ WellFormed(WithTurn(file, t))
           /\ WithTurn(file, t).since = file.since
           /\ t \in ToSet(WithTurn(file, t).turns)
<1> DEFINE turns == file.turns
<1>1. /\ turns \in Seq(Turn)
      /\ file.since \in [Path -> Nat]
      /\ file = [turns |-> turns, since |-> file.since]
  BY DEF WellFormed, DeclaredFile
<1>2. CASE t \in ToSet(turns)
  BY <1>1, <1>2 DEF WithTurn, WellFormed
<1>3. CASE t \notin ToSet(turns)
  <2> DEFINE more == Append(turns, t)
  <2>1. WithTurn(file, t) = [turns |-> more, since |-> file.since]
    BY <1>1, <1>3 DEF WithTurn
  <2>2. /\ more \in Seq(Turn)
        /\ Len(more) = Len(turns) + 1
        /\ \A i \in 1 .. Len(turns) : more[i] = turns[i]
        /\ more[Len(turns) + 1] = t
    BY <1>1, AppendProperties
  <2>3. DOMAIN turns = 1 .. Len(turns) /\ DOMAIN more = 1 .. Len(turns) + 1 /\ Len(turns) \in Nat
    BY <1>1, <2>2, LenProperties
  <2>4. IsInjective(more)
    <3>1. \A i \in 1 .. Len(turns) : turns[i] # t
      BY <1>3, <2>3 DEF ToSet
    <3>2. \A i, j \in 1 .. Len(turns) : turns[i] = turns[j] => i = j
      BY <2>3 DEF WellFormed, IsInjective
    <3> HIDE DEF turns, more
    <3> QED
      BY <2>2, <2>3, <3>1, <3>2 DEF IsInjective
  <2>5. t \in ToSet(more)
    BY <2>2, <2>3 DEF ToSet
  <2>6. \A f \in Path : file.since[f] <= Len(more)
    BY <1>1, <2>2, <2>3 DEF WellFormed
  <2> HIDE DEF more
  <2> QED
    BY <1>1, <2>1, <2>2, <2>4, <2>5, <2>6 DEF WellFormed, DeclaredFile
<1> QED
  BY <1>2, <1>3

\* Noting a turn keeps every declaration.
LEMMA NoteTurnFormed ==
    ASSUME NEW file, WellFormed(file), NEW t \in Turn
    PROVE  WellFormed(NoteTurn(file, t)) /\ Entries(NoteTurn(file, t)) = Entries(file)
BY WithTurnFormed DEF NoteTurn, Entries

\* Declaring paths declares them and keeps every other declaration.
LEMMA DeclareFormed ==
    ASSUME NEW file, WellFormed(file), NEW t \in Turn, NEW paths \in SUBSET Path
    PROVE  /\ WellFormed(Declare(file, t, paths))
           /\ Entries(Declare(file, t, paths)) = Entries(file) \cup paths
           /\ paths # {} => Len(Declare(file, t, paths).turns) > 0
<1>1. CASE paths = {}
  BY <1>1 DEF Declare
<1>2. CASE paths # {}
  <2> DEFINE with == WithTurn(file, t)
             at == Position(with, t)
             new == [f \in Path |-> IF f \in paths THEN at ELSE with.since[f]]
  <2>1. WellFormed(with) /\ with.since = file.since /\ t \in ToSet(with.turns)
    BY WithTurnFormed
  <2> HIDE DEF with
  <2>2. with.turns \in Seq(Turn) /\ with = [turns |-> with.turns, since |-> with.since]
    BY <2>1 DEF WellFormed, DeclaredFile
  <2>3. DOMAIN with.turns = 1 .. Len(with.turns) /\ Len(with.turns) \in Nat
    BY <2>2, LenProperties
  <2>4. at \in 1 .. Len(with.turns)
    BY <2>1, <2>3 DEF ToSet, Position
  <2>5. Declare(file, t, paths) = [turns |-> with.turns, since |-> new]
    BY <1>2, <2>2 DEF Declare, with
  <2> HIDE DEF at
  <2>6. /\ new \in [Path -> Nat]
        /\ \A f \in Path : new[f] <= Len(with.turns)
    BY <2>1, <2>3, <2>4 DEF WellFormed, DeclaredFile
  <2>7. {f \in Path : new[f] > 0} = {f \in Path : file.since[f] > 0} \cup paths
    BY <2>1, <2>3, <2>4
  <2> HIDE DEF new
  <2>8. Len(with.turns) > 0
    BY <2>3, <2>4
  <2> QED
    BY <2>1, <2>2, <2>5, <2>6, <2>7, <2>8 DEF WellFormed, DeclaredFile, Entries
<1> QED
  BY <1>1, <1>2

-----------------------------------------------------------------------------
(* Types. *)

\* A call as it may be: the declared set it has read is one like any other, and
\* captures and declarations have a turn.
Formed(call) ==
    /\ call \in Call
    /\ WellFormed(call.file)
    /\ call.section \in {"note", "list", "checkpoint", "attach", "declare"} => call.turn \in Turn

TypeInv ==
    /\ TypeOK
    /\ \A p \in Proc : Formed(op[p])

\* A call that has not begun, and one that goes on outside its sections.
LEMMA CallsFormed ==
    /\ Formed(NoCall)
    /\ \A call \in Call :
         /\ Outside(call) \in Call
         /\ WellFormed(Outside(call).file)
         /\ Outside(call).turn = call.turn
         /\ ~ Outside(call).inside
<1>1. <<>> \in Seq(Entry) /\ NoDeclared \in DeclaredFile
  BY EmptySeq, NoDeclaredFormed DEF WellFormed
<1>2. NoCall \in Call /\ NoCall.section = "idle" /\ NoCall.file = NoDeclared
  BY <1>1 DEF NoCall, Call
<1>3. Formed(NoCall)
  BY <1>2, NoDeclaredFormed DEF Formed
<1>4. ASSUME NEW call \in Call
      PROVE  /\ Outside(call) \in Call
             /\ Outside(call).file = NoDeclared
             /\ Outside(call).turn = call.turn
             /\ ~ Outside(call).inside
  BY <1>1 DEF Call, Outside
<1> QED
  BY <1>3, <1>4, NoDeclaredFormed

\* A history, as TypeOK has it.
HistoryType == [Path -> [owed : BOOLEAN, turn : Turn \cup {NoTurn},
                         begun : SUBSET Turn, counted : SUBSET Turn]]

\* The shape holds at first.
LEMMA TypeInit == Init => TypeInv
<1> SUFFICES ASSUME Init PROVE TypeInv
  OBVIOUS
<1> USE DEF Init
<1>1. <<>> \in Seq(Entry)
  BY EmptySeq
<1>2. WellFormed(declared)
  BY NoDeclaredFormed
<1>3. op \in [Proc -> Call] /\ \A p \in Proc : Formed(op[p])
  BY CallsFormed DEF Formed
<1>4. ops \in 0 .. MaxOps
  BY ScopeMarkers
<1>5. history \in HistoryType
  BY DEF Unwatched, HistoryType
<1>6. exclusive \in BOOLEAN /\ waiting \subseteq Proc /\ holders \subseteq Proc
  BY DEF Lock!Init
<1> QED
  BY <1>1, <1>2, <1>3, <1>4, <1>5, <1>6 DEF TypeInv, TypeOK, WellFormed, HistoryType

\* A process whose call becomes another one, as it may be, leaves them all so.
LEMMA CallStep ==
    ASSUME TypeInv, NEW p \in Proc, NEW call, Formed(call),
           op' = [op EXCEPT ![p] = call]
    PROVE  op' \in [Proc -> Call] /\ \A q \in Proc : Formed(op'[q])
<1>1. op \in [Proc -> Call] /\ \A q \in Proc : Formed(op[q])
  BY DEF TypeInv, TypeOK
<1>2. call \in Call
  BY DEF Formed
<1>3. op' \in [Proc -> Call]
  BY <1>1, <1>2
<1>4. ASSUME NEW q \in Proc PROVE op'[q] \in {op[q], call}
  BY <1>1
<1> QED
  BY <1>1, <1>3, <1>4

\* The lock's variables stay sets of processes.
LEMMA LockShape ==
    ASSUME TypeOK,
           \/ \E p \in Proc : \/ Lock!Request(p) \/ Lock!Grant(p)
                              \/ Lock!Refuse(p) \/ Lock!Release(p)
           \/ UNCHANGED lockVars
    PROVE  exclusive' \in BOOLEAN /\ waiting' \subseteq Proc /\ holders' \subseteq Proc
BY DEF TypeOK, lockVars, Lock!Request, Lock!Grant, Lock!Refuse, Lock!Release

\* Starting a call keeps the shape.
LEMMA BeginTypes ==
    ASSUME TypeInv, NEW p \in Proc, NEW call, Formed(call), Begin(p, call)
    PROVE  TypeInv'
<1>1. op' \in [Proc -> Call] /\ \A q \in Proc : Formed(op'[q])
  BY CallStep DEF Begin
<1>2. exclusive' \in BOOLEAN /\ waiting' \subseteq Proc /\ holders' \subseteq Proc
  BY LockShape DEF Begin, TypeInv
<1>3. history' \in HistoryType
  <2>1. call.turn \in Turn \cup {NoTurn} /\ history \in HistoryType
    BY DEF Formed, Call, TypeInv, TypeOK, HistoryType
  <2>2. history' = [f \in Path |->
           IF call.turn \in {NoTurn, history[f].turn} THEN history[f]
           ELSE [history[f] EXCEPT !.begun = @ \cup {call.turn}]]
    BY DEF Begin
  <2> QED
    BY <2>1, <2>2 DEF HistoryType
<1>4. ops' \in 0 .. MaxOps
  BY ScopeMarkers DEF Begin, TypeInv, TypeOK
<1>5. UNCHANGED <<log, declared, young, collector>>
  BY DEF Begin
<1> QED
  BY <1>1, <1>2, <1>3, <1>4, <1>5 DEF TypeInv, TypeOK, HistoryType

\* Appending an entry to a log gives a log.
LEMMA AppendTypes ==
    ASSUME NEW entries \in Seq(Entry), NEW t \in Turn, NEW paths \in SUBSET Path
    PROVE  Append(entries, [turn |-> t, paths |-> paths]) \in Seq(Entry)
BY AppendProperties DEF Entry

\* What the latest entry of a log records are paths.
LEMMA LatestTypes ==
    ASSUME NEW entries \in Seq(Entry)
    PROVE  LatestPaths(entries) \in SUBSET Path
<1>1. CASE entries = <<>>
  BY <1>1 DEF LatestPaths
<1>2. CASE entries # <<>>
  <2>1. Len(entries) \in Nat \ {0}
    BY <1>2, EmptySeq
  <2>2. entries[Len(entries)] \in Entry
    BY <2>1, ElementOfSeq
  <2> QED
    BY <1>2, <2>2 DEF LatestPaths, Last, Entry
<1> QED
  BY <1>1, <1>2

\* A declaration goes on as it may.
LEMMA AttachTypes ==
    ASSUME NEW call, Formed(call), call.section = "attach", NEW f \in Path,
           NEW recorded \in SUBSET Path
    PROVE  Formed(AfterAttach(call, f, recorded))
<1>1. Outside(call) = [call EXCEPT !.inside = FALSE, !.log = <<>>, !.file = NoDeclared]
  BY DEF Outside
<1>2. <<>> \in Seq(Entry) /\ WellFormed(NoDeclared)
  BY EmptySeq, NoDeclaredFormed
<1>3. call \in Call /\ call.turn \in Turn
  BY DEF Formed
<1> QED
  BY <1>1, <1>2, <1>3 DEF AfterAttach, Formed, Call, LockedSections, WellFormed

\* A declaration that has done with a path goes on with a locked section.
LEMMA AttachSection ==
    ASSUME NEW call \in Call, NEW f, NEW recorded
    PROVE  /\ AfterAttach(call, f, recorded).section \in LockedSections
           /\ ~ AfterAttach(call, f, recorded).inside
<1> DEFINE c == Outside(call)
<1>1. c \in Call /\ ~ c.inside
  BY CallsFormed
<1> HIDE DEF c
<1>2. AfterAttach(call, f, recorded) =
        [c EXCEPT !.todo = call.todo \ {f}, !.paths = @ \cup recorded,
                  !.section = IF call.todo \ {f} = {} THEN "declare" ELSE "attach"]
  BY DEF AfterAttach, c
<1> QED
  BY <1>1, <1>2 DEF Call, LockedSections

\* Every step keeps the shape.
LEMMA TypeStep == TypeInv /\ [Next]_vars => TypeInv'
<1> SUFFICES ASSUME TypeInv, [Next]_vars PROVE TypeInv'
  OBVIOUS
<1> DEFINE LockPart == exclusive' \in BOOLEAN /\ waiting' \subseteq Proc /\ holders' \subseteq Proc
           CallPart == op' \in [Proc -> Call] /\ \A q \in Proc : Formed(op'[q])
           FilePart == log' \in Seq(Entry) /\ WellFormed(declared') /\ young' \in BOOLEAN
           RestPart == /\ collector' \in {"idle", "looked", "judged"}
                       /\ ops' \in 0 .. MaxOps
                       /\ history' \in HistoryType
<1>0. LockPart /\ CallPart /\ FilePart /\ RestPart => TypeInv'
  BY DEF TypeInv, TypeOK, WellFormed, HistoryType
<1>t. /\ TypeOK
      /\ op \in [Proc -> Call] /\ \A q \in Proc : Formed(op[q])
      /\ log \in Seq(Entry) /\ WellFormed(declared) /\ young \in BOOLEAN
      /\ collector \in {"idle", "looked", "judged"} /\ ops \in 0 .. MaxOps
      /\ history \in HistoryType
  BY DEF TypeInv, TypeOK, WellFormed, HistoryType
<1>l. ASSUME \/ \E p \in Proc : \/ Lock!Request(p) \/ Lock!Grant(p)
                                \/ Lock!Refuse(p) \/ Lock!Release(p)
             \/ UNCHANGED lockVars
      PROVE  LockPart
  BY <1>l, <1>t, LockShape
<1>n. Formed(NoCall) /\ WellFormed(NoDeclared)
  BY CallsFormed, NoDeclaredFormed
<1>u. [f \in Path |-> Unwatched] \in HistoryType
  BY DEF Unwatched, HistoryType
<1>e. ASSUME NEW p \in Proc, op' = [op EXCEPT ![p] = NoCall] PROVE CallPart
  BY <1>e, <1>n, CallStep
<1>1. CASE UNCHANGED vars
  BY <1>1, <1>t DEF vars, TypeInv, TypeOK
<1>2. ASSUME NEW p \in Proc, NEW t \in Turn, BeginCapture(p, t) PROVE TypeInv'
  <2>1. Formed([NoCall EXCEPT !.section = "note", !.turn = t])
    BY <1>n DEF NoCall, Call, LockedSections, Formed
  <2> QED
    BY <1>2, <2>1, BeginTypes DEF BeginCapture
<1>3. ASSUME NEW p \in Proc, NEW t \in Turn, NEW paths \in SUBSET Path, BeginDeclare(p, t, paths)
      PROVE TypeInv'
  <2>1. Formed([NoCall EXCEPT !.section = "attach", !.turn = t, !.todo = paths])
    BY <1>n DEF NoCall, Call, LockedSections, Formed
  <2> QED
    BY <1>3, <2>1, BeginTypes DEF BeginDeclare
<1>4. ASSUME NEW p \in Proc, BeginDelete(p) PROVE TypeInv'
  <2>1. Formed([NoCall EXCEPT !.section = "delete"])
    BY <1>n DEF NoCall, Call, LockedSections, Formed
  <2> QED
    BY <1>4, <2>1, BeginTypes DEF BeginDelete
<1>5. ASSUME NEW p \in Proc, Enter(p) PROVE TypeInv'
  <2> DEFINE call == [op[p] EXCEPT !.inside = TRUE, !.log = log, !.file = declared]
  <2>1. op' = [op EXCEPT ![p] = call]
    BY <1>5, <1>t DEF Enter
  <2>2. Formed(call)
    BY <1>t DEF Call, WellFormed, Formed
  <2>3. CallPart
    BY <2>1, <2>2, CallStep
  <2> QED
    BY <1>0, <1>5, <1>t, <1>l, <2>3 DEF Enter
<1>6. ASSUME NEW p \in Proc, Note(p) PROVE TypeInv'
  <2> DEFINE call == [Outside(op[p]) EXCEPT !.section = "list"]
  <2>1. /\ op[p].turn \in Turn /\ WellFormed(op[p].file) /\ op[p] \in Call
    BY <1>6, <1>t DEF Note, Formed
  <2>2. Formed(call)
    <3> DEFINE c == Outside(op[p])
    <3>1. c \in Call /\ WellFormed(c.file) /\ c.turn \in Turn
      BY <2>1, CallsFormed
    <3> HIDE DEF c
    <3>2. call = [c EXCEPT !.section = "list"]
      BY DEF c
    <3> HIDE DEF call
    <3>3. call \in Call /\ call.file = c.file /\ call.turn = c.turn
      BY <3>1, <3>2 DEF Call
    <3> QED
      BY <3>1, <3>3 DEF Formed
  <2>3. CallPart
    BY <1>6, <2>2, CallStep DEF Note
  <2>4. WellFormed(declared') /\ young' \in BOOLEAN
    <3>1. WellFormed(NoteTurn(op[p].file, op[p].turn))
      BY <2>1, NoteTurnFormed
    <3> QED
      BY <1>6, <1>t, <3>1 DEF Note
  <2>5. history' \in HistoryType
    <3>1. \/ history' = history
          \/ history' = [f \in Path |->
               [history[f] EXCEPT !.counted = @ \cup {op[p].turn}]]
      BY <1>6 DEF Note
    <3>2. \A f \in Path :
            [history[f] EXCEPT !.counted = @ \cup {op[p].turn}]
              \in [owed : BOOLEAN, turn : Turn \cup {NoTurn},
                   begun : SUBSET Turn, counted : SUBSET Turn]
      BY <1>t, <2>1 DEF HistoryType
    <3> QED
      BY <1>t, <3>1, <3>2 DEF HistoryType
  <2> QED
    BY <1>0, <1>6, <1>t, <1>l, <2>3, <2>4, <2>5 DEF Note
<1>7. ASSUME NEW p \in Proc, NEW window \in Window, List(p, window) PROVE TypeInv'
  <2> DEFINE call == [op[p] EXCEPT !.section = "checkpoint", !.paths = Active(declared, window)]
  <2>1. Active(declared, window) \in SUBSET Path
    BY DEF Active, Entries
  <2>2. Formed(call)
    BY <1>7, <1>t, <2>1 DEF Call, Formed, LockedSections, List
  <2>3. op' = [op EXCEPT ![p] = call]
    BY <1>7, <1>t DEF List
  <2>4. CallPart
    BY <2>2, <2>3, CallStep
  <2> QED
    BY <1>0, <1>7, <1>t, <1>l, <2>4 DEF List
<1>8. ASSUME NEW p \in Proc, Checkpoint(p) PROVE TypeInv'
  <2>1. op[p].turn \in Turn /\ op[p].log \in Seq(Entry) /\ op[p].paths \in SUBSET Path
    BY <1>8, <1>t DEF Checkpoint, Formed, Call
  <2>2. log' \in Seq(Entry)
    BY <1>8, <2>1, AppendTypes DEF Checkpoint
  <2> QED
    BY <1>0, <1>8, <1>t, <1>l, <1>e, <2>2 DEF Checkpoint
<1>9. ASSUME NEW p \in Proc, NEW f \in Path, Attach(p, f) PROVE TypeInv'
  <2>1. op[p].turn \in Turn /\ op[p].log \in Seq(Entry)
    BY <1>9, <1>t DEF Attach, Formed, Call
  <2>2. log' \in Seq(Entry)
    BY <1>9, <1>t, <2>1, AppendTypes, LatestTypes DEF Attach
  <2>3. CallPart
    BY <1>9, <1>t, AttachTypes, CallStep DEF Attach
  <2>4. LockPart
    BY <1>9, <1>t DEF Attach, TypeOK
  <2> QED
    BY <1>0, <1>9, <1>t, <2>2, <2>3, <2>4 DEF Attach
<1>10. ASSUME NEW p \in Proc, DeclarePaths(p) PROVE TypeInv'
  <2> DEFINE file == Declare(op[p].file, op[p].turn, op[p].paths)
  <2>1. op[p].turn \in Turn /\ op[p].paths \in SUBSET Path /\ WellFormed(op[p].file)
    BY <1>10, <1>t DEF DeclarePaths, Formed, Call
  <2>2. WellFormed(declared') /\ young' \in BOOLEAN
    <3>1. WellFormed(file)
      BY <2>1, DeclareFormed
    <3> QED
      BY <1>10, <1>t, <3>1 DEF DeclarePaths
  <2>3. history' \in HistoryType
    <3>1. {op[q].turn : q \in Proc} \ {op[p].turn, NoTurn} \in SUBSET Turn
      BY <1>t DEF Call
    <3>2. \A f \in Path :
            /\ [owed |-> log # <<>>,
                turn |-> IF op[p].turn = Last(file.turns) THEN op[p].turn ELSE NoTurn,
                begun |-> {op[q].turn : q \in Proc} \ {op[p].turn, NoTurn},
                counted |-> {}]
                 \in [owed : BOOLEAN, turn : Turn \cup {NoTurn},
                      begun : SUBSET Turn, counted : SUBSET Turn]
            /\ [history[f] EXCEPT !.counted = @ \cup {op[p].turn}]
                 \in [owed : BOOLEAN, turn : Turn \cup {NoTurn},
                      begun : SUBSET Turn, counted : SUBSET Turn]
      BY <1>t, <2>1, <3>1 DEF HistoryType
    <3> QED
      BY <1>10, <1>t, <3>2 DEF DeclarePaths, HistoryType
  <2> QED
    BY <1>0, <1>10, <1>t, <1>l, <1>e, <2>2, <2>3 DEF DeclarePaths
<1>11. ASSUME NEW p \in Proc, RemoveDeclared(p) PROVE TypeInv'
  <2>1. Formed([op[p] EXCEPT !.section = "unlink"])
    BY <1>t DEF Formed, Call
  <2>2. CallPart
    BY <1>11, <1>t, <2>1, CallStep DEF RemoveDeclared
  <2> QED
    BY <1>0, <1>11, <1>t, <1>l, <1>n, <1>u, <2>2 DEF RemoveDeclared
<1>12. ASSUME NEW p \in Proc, RemoveLog(p) PROVE TypeInv'
  BY <1>0, <1>12, <1>t, <1>l, <1>e, EmptySeq DEF RemoveLog
<1>13. ASSUME NEW p \in Proc, Busy(p) PROVE TypeInv'
  <2>1. CASE op[p].section = "note"
    <3>1. Formed([op[p] EXCEPT !.section = "list"])
      BY <1>t, <2>1 DEF Formed, Call
    <3>2. CallPart
      BY <1>13, <1>t, <2>1, <3>1, CallStep DEF Busy
    <3> QED
      BY <1>0, <1>13, <1>t, <1>l, <2>1, <3>2 DEF Busy
  <2>2. CASE op[p].section = "attach"
    <3>1. PICK f \in op[p].todo : op' = [op EXCEPT ![p] = AfterAttach(op[p], f, {})]
      BY <1>13, <2>2 DEF Busy
    <3>2. f \in Path
      BY <1>t DEF Call
    <3>3. CallPart
      BY <1>t, <2>2, <3>1, <3>2, AttachTypes, CallStep
    <3> QED
      BY <1>0, <1>13, <1>t, <1>l, <2>2, <3>3 DEF Busy
  <2>3. CASE op[p].section \notin {"note", "attach"}
    BY <1>0, <1>13, <1>t, <1>l, <1>e, <2>3 DEF Busy
  <2> QED
    BY <2>1, <2>2, <2>3
<1>14. ASSUME NEW p \in Proc, Crash(p) PROVE TypeInv'
  <2>1. LockPart
    BY <1>14, <1>t DEF Crash, TypeOK
  <2> QED
    BY <1>0, <1>14, <1>t, <1>e, <2>1 DEF Crash
<1>15. CASE Settle
  BY <1>0, <1>15, <1>t, <1>l DEF Settle
<1>16. CASE Collection
  BY <1>0, <1>16, <1>t, <1>l, <1>n, <1>u DEF Collection, Look, Judge, Collect
<1> QED
  BY <1>1, <1>2, <1>3, <1>4, <1>5, <1>6, <1>7, <1>8, <1>9, <1>10, <1>11, <1>12, <1>13, <1>14,
     <1>15, <1>16 DEF Next, Section

\* The state is always well shaped: declared sets keep their turns distinct and
\* every path pointing at one of them, whatever calls and deletions interleave
\* (declared.rs).
THEOREM ScopeTypes == Safety => []TypeOK
<1>1. TypeInv => TypeOK
  BY DEF TypeInv
<1> QED
  BY TypeInit, TypeStep, <1>1, PTL DEF Safety

-----------------------------------------------------------------------------
(* The lock. *)

\* What holds of the call a process is in.
Standing(p) ==
    /\ p \in waiting => p \notin holders /\ op[p].section \in LockedSections
    /\ p \in holders <=> op[p].inside
    /\ op[p].inside => op[p].section \in LockedSections \cup {"unlink"}
    /\ op[p].section = "unlink" => op[p].inside
    /\ exclusive /\ op[p].inside => op[p].log = log

\* Every process has its standing, and no two are inside where that can be had.
SectionInv ==
    /\ \A p \in Proc : Standing(p)
    /\ exclusive => \A p, q \in holders : p = q

\* It holds at first.
LEMMA SectionInit == Init => SectionInv
BY DEF Init, Lock!Init, SectionInv, Standing, NoCall

\* A process that keeps its own standing keeps everyone's: it changes no other
\* call, goes in only where nobody is, and writes the log only from inside.
LEMMA SectionFrame ==
    ASSUME TypeInv, SectionInv, NEW p \in Proc, Standing(p)',
           exclusive' = exclusive,
           \A q \in Proc \ {p} : op'[q] = op[q],
           waiting' \subseteq waiting \cup {p}, holders' \ {p} = holders \ {p},
           holders' \subseteq Proc,
           p \in holders' /\ p \notin holders => (exclusive => holders = {}),
           log' # log => p \in holders
    PROVE  SectionInv'
<1>1. exclusive' => \A x, y \in holders' : x = y
  BY DEF SectionInv
<1>2. ASSUME NEW q \in Proc PROVE Standing(q)'
  <2>1. CASE q = p
    BY <2>1
  <2>2. CASE q # p
    <3>1. Standing(q) /\ op'[q] = op[q] /\ (q \in holders' <=> q \in holders)
          /\ (q \in waiting' => q \in waiting)
      BY <2>2 DEF SectionInv
    <3>2. exclusive /\ op[q].inside => log' = log
      BY <2>2, <3>1 DEF SectionInv, Standing
    <3> QED
      BY <3>1, <3>2 DEF Standing
  <2> QED
    BY <2>1, <2>2
<1> QED
  BY <1>1, <1>2 DEF SectionInv

\* Every step keeps it.
LEMMA SectionStep == TypeInv /\ SectionInv /\ [Next]_vars => SectionInv'
<1> SUFFICES ASSUME TypeInv, SectionInv, [Next]_vars PROVE SectionInv'
  OBVIOUS
<1>t. /\ op \in [Proc -> Call] /\ holders \subseteq Proc /\ waiting \subseteq Proc
      /\ \A q \in Proc : Standing(q) /\ Formed(op[q])
  BY DEF TypeInv, TypeOK, SectionInv
<1> USE DEF Lock!Request, Lock!Grant, Lock!Refuse, Lock!Release
<1>1. CASE UNCHANGED vars
  BY <1>1 DEF vars, SectionInv, Standing
<1>2. ASSUME NEW p \in Proc, NEW call, Begin(p, call),
             call.section \in LockedSections, ~ call.inside
      PROVE  SectionInv'
  <2>1. Standing(p)'
    BY <1>2, <1>t DEF Begin, Standing, LockedSections
  <2> QED
    BY <1>2, <1>t, <2>1, SectionFrame DEF Begin
<1>3. ASSUME NEW p \in Proc, NEW t \in Turn, BeginCapture(p, t) PROVE SectionInv'
  <2> DEFINE call == [NoCall EXCEPT !.section = "note", !.turn = t]
  <2>1. call.section \in LockedSections /\ ~ call.inside
    BY DEF NoCall, LockedSections
  <2>2. Begin(p, call)
    BY <1>3 DEF BeginCapture
  <2> HIDE DEF call
  <2> QED
    BY <1>2, <2>1, <2>2
<1>4. ASSUME NEW p \in Proc, NEW t \in Turn, NEW paths \in SUBSET Path, BeginDeclare(p, t, paths)
      PROVE SectionInv'
  <2> DEFINE call == [NoCall EXCEPT !.section = "attach", !.turn = t, !.todo = paths]
  <2>1. call.section \in LockedSections /\ ~ call.inside
    BY DEF NoCall, LockedSections
  <2>2. Begin(p, call)
    BY <1>4 DEF BeginDeclare
  <2> HIDE DEF call
  <2> QED
    BY <1>2, <2>1, <2>2
<1>5. ASSUME NEW p \in Proc, BeginDelete(p) PROVE SectionInv'
  BY <1>2, <1>5 DEF BeginDelete, NoCall, LockedSections
<1>6. ASSUME NEW p \in Proc, Enter(p) PROVE SectionInv'
  <2>1. Standing(p)'
    BY <1>6, <1>t DEF Enter, Standing, LockedSections, Call
  <2> QED
    BY <1>6, <1>t, <2>1, SectionFrame DEF Enter
<1>7. ASSUME NEW p \in Proc, Note(p) PROVE SectionInv'
  <2> DEFINE c == Outside(op[p])
  <2>1. c \in Call /\ ~ c.inside
    BY <1>t, CallsFormed
  <2>2. op'[p] = [c EXCEPT !.section = "list"]
    BY <1>7, <1>t DEF Note
  <2> HIDE DEF c
  <2>3. op'[p].section = "list" /\ ~ op'[p].inside
    BY <2>1, <2>2 DEF Call
  <2>4. Standing(p)'
    BY <1>7, <1>t, <2>3 DEF Note, Standing
  <2> QED
    BY <1>7, <1>t, <2>4, SectionFrame DEF Note
<1>8. ASSUME NEW p \in Proc, NEW window \in Window, List(p, window) PROVE SectionInv'
  <2>1. op'[p].section = "checkpoint" /\ op'[p].inside = op[p].inside
    BY <1>8, <1>t DEF List, Call
  <2>2. ~ op[p].inside
    BY <1>8, <1>t DEF List, Standing, LockedSections
  <2>3. Standing(p)'
    BY <1>8, <1>t, <2>1, <2>2 DEF List, Standing, LockedSections
  <2> QED
    BY <1>8, <1>t, <2>3, SectionFrame DEF List
<1>9. ASSUME NEW p \in Proc, op'[p] = NoCall, p \notin holders', p \notin waiting'
      PROVE  Standing(p)'
  BY <1>9 DEF NoCall, Standing
<1>10. ASSUME NEW p \in Proc, Checkpoint(p) PROVE SectionInv'
  <2>1. Standing(p)'
    BY <1>10, <1>t, <1>9 DEF Checkpoint, Standing
  <2> QED
    BY <1>10, <1>t, <2>1, SectionFrame DEF Checkpoint
<1>11. ASSUME NEW p \in Proc, NEW f \in Path, Attach(p, f) PROVE SectionInv'
  <2>1. op'[p].section \in LockedSections /\ ~ op'[p].inside
    BY <1>11, <1>t, CallsFormed, AttachSection DEF Attach
  <2>2. Standing(p)'
    BY <1>11, <1>t, <2>1 DEF Attach, Standing, LockedSections
  <2>3. p \in holders
    BY <1>11, <1>t DEF Attach, Standing
  <2> QED
    BY <1>11, <1>t, <2>2, <2>3, SectionFrame DEF Attach
<1>12. ASSUME NEW p \in Proc, DeclarePaths(p) PROVE SectionInv'
  <2>1. Standing(p)'
    BY <1>12, <1>t, <1>9 DEF DeclarePaths, Standing
  <2> QED
    BY <1>12, <1>t, <2>1, SectionFrame DEF DeclarePaths
<1>13. ASSUME NEW p \in Proc, RemoveDeclared(p) PROVE SectionInv'
  <2>1. Standing(p)'
    BY <1>13, <1>t DEF RemoveDeclared, Standing, lockVars, LockedSections, Call
  <2> QED
    BY <1>13, <1>t, <2>1, SectionFrame DEF RemoveDeclared, lockVars
<1>14. ASSUME NEW p \in Proc, RemoveLog(p) PROVE SectionInv'
  <2>1. Standing(p)'
    BY <1>14, <1>t, <1>9 DEF RemoveLog, Standing
  <2> QED
    BY <1>14, <1>t, <2>1, SectionFrame DEF RemoveLog
<1>15. ASSUME NEW p \in Proc, Busy(p) PROVE SectionInv'
  <2>0. p \in waiting /\ p \notin holders /\ ~ op[p].inside /\ log' = log
    BY <1>15, <1>t DEF Busy, Standing
  <2>1. CASE op[p].section = "note"
    <3>1. Standing(p)'
      BY <1>15, <1>t, <2>0, <2>1 DEF Busy, Standing, LockedSections, Call
    <3> QED
      BY <1>15, <1>t, <2>0, <2>1, <3>1, SectionFrame DEF Busy
  <2>2. CASE op[p].section = "attach"
    <3>1. PICK f \in op[p].todo : op' = [op EXCEPT ![p] = AfterAttach(op[p], f, {})]
      BY <1>15, <2>2 DEF Busy
    <3>2. op'[p].section \in LockedSections /\ ~ op'[p].inside
      BY <1>t, <3>1, AttachSection DEF Call
    <3>3. Standing(p)'
      BY <1>15, <1>t, <2>0, <2>2, <3>2 DEF Busy, Standing, LockedSections, lockVars
    <3> QED
      BY <1>15, <1>t, <2>0, <2>2, <3>1, <3>3, SectionFrame DEF Busy, lockVars
  <2>3. CASE op[p].section \notin {"note", "attach"}
    <3>1. Standing(p)'
      BY <1>15, <1>t, <1>9, <2>0, <2>3 DEF Busy
    <3> QED
      BY <1>15, <1>t, <2>0, <2>3, <3>1, SectionFrame DEF Busy
  <2> QED
    BY <2>1, <2>2, <2>3
<1>16. ASSUME NEW p \in Proc, Crash(p) PROVE SectionInv'
  <2>1. Standing(p)'
    BY <1>16, <1>t, <1>9 DEF Crash
  <2> QED
    BY <1>16, <1>t, <2>1, SectionFrame DEF Crash
<1>17. CASE Settle
  BY <1>17 DEF Settle, SectionInv, Standing, lockVars
<1>18. CASE Collection
  BY <1>18 DEF Collection, Look, Judge, Collect, SectionInv, Standing, lockVars
<1> QED
  BY <1>1, <1>3, <1>4, <1>5, <1>6, <1>7, <1>8, <1>10, <1>11, <1>12, <1>13, <1>14, <1>15, <1>16,
     <1>17, <1>18 DEF Next, Section

-----------------------------------------------------------------------------
(* The log. *)

\* A log is a prefix of itself and of what it becomes by an append.
LEMMA PrefixAppend ==
    ASSUME NEW S, NEW s \in Seq(S), NEW e \in S
    PROVE  IsPrefix(s, s) /\ IsPrefix(s, Append(s, e))
<1> DEFINE t == Append(s, e)
<1>1. t \in Seq(S) /\ Len(t) = Len(s) + 1 /\ \A i \in 1 .. Len(s) : t[i] = s[i]
  BY AppendProperties
<1>2. Len(s) \in Nat
  BY LenProperties
<1>3. \A i \in 1 .. Len(s) : s[i] \in S
  BY ElementOfSeq
<1> HIDE DEF t
<1>4. SubSeq(s, 1, Len(s)) = SubSeq(t, 1, Len(s))
  <2> DEFINE x == SubSeq(s, 1, Len(s))
             y == SubSeq(t, 1, Len(s))
  <2>1. /\ x \in Seq(S)
        /\ Len(x) = IF 1 <= Len(s) THEN Len(s) - 1 + 1 ELSE 0
        /\ \A i \in 1 .. Len(s) - 1 + 1 : x[i] = s[1 + i - 1]
    BY <1>2, <1>3, SubSeqProperties
  <2>2. \A i \in 1 .. Len(s) : t[i] \in S
    BY <1>1, <1>3
  <2>3. /\ y \in Seq(S)
        /\ Len(y) = IF 1 <= Len(s) THEN Len(s) - 1 + 1 ELSE 0
        /\ \A i \in 1 .. Len(s) - 1 + 1 : y[i] = t[1 + i - 1]
    BY <1>2, <2>2, SubSeqProperties
  <2> HIDE DEF x, y
  <2>4. Len(x) = Len(s) /\ Len(y) = Len(s)
    BY <1>2, <2>1, <2>3
  <2>5. \A i \in 1 .. Len(x) : x[i] = y[i]
    BY <1>1, <1>2, <2>1, <2>3, <2>4
  <2>6. x = y
    BY <2>1, <2>3, <2>4, <2>5, SeqEqual
  <2> QED
    BY <2>6 DEF x, y
<1> QED
  BY <1>1, <1>2, <1>4 DEF IsPrefix, t

\* A step that changes the log appends to it or removes it.
LEMMA LogStep ==
    ASSUME TypeInv, SectionInv, [Next]_vars, exclusive
    PROVE  IsPrefix(log, log') \/ \E p \in Proc : RemoveLog(p)
<1>t. log \in Seq(Entry) /\ \A q \in Proc : Standing(q) /\ Formed(op[q])
  BY DEF TypeInv, TypeOK, SectionInv
<1>1. ASSUME log' = log PROVE IsPrefix(log, log')
  BY <1>1, <1>t DEF IsPrefix
<1>2. ASSUME NEW p \in Proc, Checkpoint(p) PROVE IsPrefix(log, log')
  <2>1. op[p].log = log
    BY <1>2, <1>t DEF Checkpoint, Standing
  <2>2. [turn |-> op[p].turn, paths |-> op[p].paths] \in Entry
    BY <1>2, <1>t DEF Checkpoint, Formed, Call, Entry
  <2> QED
    BY <1>2, <1>t, <2>1, <2>2, PrefixAppend DEF Checkpoint
<1>3. ASSUME NEW p \in Proc, NEW f \in Path, Attach(p, f) PROVE IsPrefix(log, log')
  <2>1. op[p].log = log
    BY <1>3, <1>t DEF Attach, Standing
  <2>2. [turn |-> op[p].turn, paths |-> LatestPaths(op[p].log) \cup {f}] \in Entry
    BY <1>3, <1>t, <2>1, LatestTypes DEF Attach, Formed, Entry
  <2> QED
    BY <1>1, <1>3, <1>t, <2>1, <2>2, PrefixAppend DEF Attach
<1>4. CASE UNCHANGED vars
  BY <1>1, <1>4 DEF vars
<1>5. ASSUME NEW p \in Proc, NEW call, Begin(p, call) PROVE log' = log
  BY <1>5 DEF Begin
<1>6. ASSUME NEW p \in Proc,
             \/ \E t \in Turn : BeginCapture(p, t)
             \/ \E t \in Turn, paths \in SUBSET Path : BeginDeclare(p, t, paths)
             \/ BeginDelete(p)
      PROVE  log' = log
  BY <1>5, <1>6 DEF BeginCapture, BeginDeclare, BeginDelete
<1>7. ASSUME NEW p \in Proc,
             \/ Enter(p) \/ Busy(p) \/ Note(p)
             \/ \E window \in Window : List(p, window)
             \/ DeclarePaths(p) \/ RemoveDeclared(p) \/ Crash(p)
      PROVE  log' = log
  BY <1>7 DEF Enter, Busy, Note, List, DeclarePaths, RemoveDeclared, Crash
<1>8. ASSUME Settle \/ Collection PROVE log' = log
  BY <1>8 DEF Settle, Collection, Look, Judge, Collect
<1> QED
  BY <1>1, <1>2, <1>3, <1>4, <1>6, <1>7, <1>8 DEF Next, Section

\* No entry of a log is lost to another call: a log only grows at its end until
\* it is deleted, whatever calls interleave, time out or die in between (lock.rs,
\* store.rs, locked).
THEOREM NoEntryIsLost == Safety => HistoryOnlyGrows
<1>1. TypeInv /\ SectionInv /\ [Next]_vars =>
        [exclusive => \/ IsPrefix(log, log')
                      \/ \E p \in Proc : RemoveLog(p)]_vars
  BY LogStep
<1> QED
  BY TypeInit, TypeStep, SectionInit, SectionStep, <1>1, PTL DEF Safety, HistoryOnlyGrows

-----------------------------------------------------------------------------
(* Declarations. *)

\* What is owed a path: it is declared, and in every declared set a section has
\* read and may write back; its session has a log and is not being deleted; and
\* a collector that found no log came before the declaration, which made the
\* file young.
Owed(f) ==
    /\ f \in Entries(declared)
    /\ \A p \in Proc : op[p].inside => /\ f \in Entries(op[p].file)
                                       /\ op[p].section # "unlink"
    /\ log # <<>>
    /\ collector # "idle" => young

KeptInv == exclusive => \A f \in Path : history[f].owed => Owed(f)

\* It holds at first: nothing is owed.
LEMMA KeptInit == Init => KeptInv
BY DEF Init, KeptInv, Unwatched

\* A step that leaves files, collector and what is owed alone keeps it, if the
\* call it is a step of does.
LEMMA KeptFrame ==
    ASSUME KeptInv, NEW p \in Proc, exclusive' = exclusive,
           \A q \in Proc \ {p} : op'[q] = op[q],
           op'[p].inside => /\ op'[p].section # "unlink"
                            /\ \/ op[p].inside /\ op'[p].file = op[p].file
                               \/ op'[p].file = declared,
           declared' = declared, young' = young, collector' = collector,
           log # <<>> => log' # <<>>,
           \A f \in Path : history'[f].owed = history[f].owed
    PROVE  KeptInv'
<1> SUFFICES ASSUME exclusive', NEW f \in Path, history'[f].owed PROVE Owed(f)'
  BY DEF KeptInv
<1>1. Owed(f)
  BY DEF KeptInv
<1>2. ASSUME NEW q \in Proc, op'[q].inside
      PROVE  f \in Entries(op'[q].file) /\ op'[q].section # "unlink"
  BY <1>1, <1>2 DEF Owed
<1> QED
  BY <1>1, <1>2 DEF Owed

\* Every step keeps it.
LEMMA KeptStep == TypeInv /\ SectionInv /\ KeptInv /\ [Next]_vars => KeptInv'
<1> SUFFICES ASSUME TypeInv, SectionInv, KeptInv, [Next]_vars PROVE KeptInv'
  OBVIOUS
<1>t. /\ op \in [Proc -> Call] /\ log \in Seq(Entry) /\ history \in HistoryType
      /\ collector \in {"idle", "looked", "judged"} /\ young \in BOOLEAN
      /\ \A q \in Proc : Standing(q) /\ Formed(op[q]) /\ op[q] \in Call
  BY DEF TypeInv, TypeOK, SectionInv, HistoryType
<1>k. exclusive => \A f \in Path : history[f].owed => Owed(f)
  BY DEF KeptInv
<1>x. ASSUME exclusive, NEW p \in Proc, NEW q \in Proc, op[p].inside, op[q].inside PROVE p = q
  BY <1>x DEF SectionInv, Standing
<1> USE DEF Lock!Request, Lock!Grant, Lock!Refuse, Lock!Release
<1>1. CASE UNCHANGED vars
  BY <1>1 DEF vars, KeptInv, Owed
<1>2. ASSUME NEW p \in Proc, NEW call, Begin(p, call), ~ call.inside PROVE KeptInv'
  <2>1. ASSUME NEW f \in Path PROVE history'[f].owed = history[f].owed
    <3>1. \/ history'[f] = history[f]
          \/ history'[f] = [history[f] EXCEPT !.begun = @ \cup {call.turn}]
      BY <1>2 DEF Begin
    <3> QED
      BY <1>t, <3>1 DEF HistoryType
  <2> QED
    BY <1>2, <1>t, <2>1, KeptFrame DEF Begin
<1>3. ASSUME NEW p \in Proc,
             \/ \E t \in Turn : BeginCapture(p, t)
             \/ \E t \in Turn, paths \in SUBSET Path : BeginDeclare(p, t, paths)
             \/ BeginDelete(p)
      PROVE  KeptInv'
  <2>1. ASSUME NEW t \in Turn, BeginCapture(p, t) PROVE KeptInv'
    <3> DEFINE call == [NoCall EXCEPT !.section = "note", !.turn = t]
    <3>1. ~ call.inside /\ Begin(p, call)
      BY <2>1 DEF NoCall, BeginCapture
    <3> HIDE DEF call
    <3> QED
      BY <1>2, <3>1
  <2>2. ASSUME NEW t \in Turn, NEW paths \in SUBSET Path, BeginDeclare(p, t, paths) PROVE KeptInv'
    <3> DEFINE call == [NoCall EXCEPT !.section = "attach", !.turn = t, !.todo = paths]
    <3>1. ~ call.inside /\ Begin(p, call)
      BY <2>2 DEF NoCall, BeginDeclare
    <3> HIDE DEF call
    <3> QED
      BY <1>2, <3>1
  <2>3. ASSUME BeginDelete(p) PROVE KeptInv'
    <3> DEFINE call == [NoCall EXCEPT !.section = "delete"]
    <3>1. ~ call.inside /\ Begin(p, call)
      BY <2>3 DEF NoCall, BeginDelete
    <3> HIDE DEF call
    <3> QED
      BY <1>2, <3>1
  <2> QED
    BY <1>3, <2>1, <2>2, <2>3
<1>4. ASSUME NEW p \in Proc, Enter(p) PROVE KeptInv'
  <2>1. /\ op'[p].file = declared /\ op'[p].section # "unlink"
        /\ \A q \in Proc \ {p} : op'[q] = op[q]
    BY <1>4, <1>t DEF Enter, LockedSections, Call
  <2> QED
    BY <1>4, <2>1, KeptFrame DEF Enter
<1>5. ASSUME NEW p \in Proc, Note(p) PROVE KeptInv'
  <2> SUFFICES ASSUME exclusive', NEW f \in Path, history'[f].owed PROVE Owed(f)'
    BY DEF KeptInv
  <2>1. exclusive /\ op[p].inside /\ op[p].turn \in Turn /\ WellFormed(op[p].file)
    BY <1>5, <1>t DEF Note, Formed
  <2>2. history[f].owed
    <3>1. \/ history' = history
          \/ history' = [g \in Path |->
               [history[g] EXCEPT !.counted = @ \cup {op[p].turn}]]
      BY <1>5 DEF Note
    <3> QED
      BY <1>t, <3>1 DEF HistoryType
  <2>3. Owed(f)
    BY <1>k, <2>1, <2>2
  <2>4. f \in Entries(declared') /\ (young => young')
    <3>1. Entries(NoteTurn(op[p].file, op[p].turn)) = Entries(op[p].file)
      BY <2>1, NoteTurnFormed
    <3>2. f \in Entries(op[p].file)
      BY <2>1, <2>3 DEF Owed
    <3> QED
      BY <1>5, <2>3, <3>1, <3>2 DEF Note, Owed
  <2>5. ~ op'[p].inside /\ \A q \in Proc \ {p} : op'[q] = op[q]
    <3> DEFINE c == Outside(op[p])
    <3>1. c \in Call /\ ~ c.inside
      BY <1>t, CallsFormed
    <3>2. op' = [op EXCEPT ![p] = [c EXCEPT !.section = "list"]]
      BY <1>5 DEF Note
    <3> HIDE DEF c
    <3> QED
      BY <1>t, <3>1, <3>2 DEF Call
  <2> QED
    BY <1>5, <2>3, <2>4, <2>5 DEF Note, Owed
<1>6. ASSUME NEW p \in Proc, NEW window \in Window, List(p, window) PROVE KeptInv'
  <2>1. ~ op'[p].inside /\ \A q \in Proc \ {p} : op'[q] = op[q]
    BY <1>6, <1>t DEF List, Standing, LockedSections, Call
  <2> QED
    BY <1>6, <2>1, KeptFrame DEF List
<1>7. ASSUME NEW p \in Proc, Checkpoint(p) PROVE KeptInv'
  <2>1. ~ op'[p].inside /\ \A q \in Proc \ {p} : op'[q] = op[q]
    BY <1>7, <1>t DEF Checkpoint, NoCall
  <2>2. log' # <<>>
    <3>1. op[p].log \in Seq(Entry) /\ [turn |-> op[p].turn, paths |-> op[p].paths] \in Entry
      BY <1>7, <1>t DEF Checkpoint, Formed, Call, Entry
    <3> QED
      BY <1>7, <3>1, AppendProperties, EmptySeq DEF Checkpoint
  <2> QED
    BY <1>7, <2>1, <2>2, KeptFrame DEF Checkpoint
<1>8. ASSUME NEW p \in Proc, NEW f \in Path, Attach(p, f) PROVE KeptInv'
  <2>1. ~ op'[p].inside /\ \A q \in Proc \ {p} : op'[q] = op[q]
    BY <1>8, <1>t, AttachSection DEF Attach
  <2>2. log # <<>> => log' # <<>>
    <3>1. op[p].log \in Seq(Entry)
          /\ [turn |-> op[p].turn, paths |-> LatestPaths(op[p].log) \cup {f}] \in Entry
      BY <1>8, <1>t, LatestTypes DEF Attach, Formed, Call, Entry
    <3> QED
      BY <1>8, <3>1, AppendProperties, EmptySeq DEF Attach
  <2> QED
    BY <1>8, <2>1, <2>2, KeptFrame DEF Attach
<1>9. ASSUME NEW p \in Proc, DeclarePaths(p) PROVE KeptInv'
  <2> SUFFICES ASSUME exclusive', NEW f \in Path, history'[f].owed PROVE Owed(f)'
    BY DEF KeptInv
  <2> DEFINE file == Declare(op[p].file, op[p].turn, op[p].paths)
  <2>1. /\ exclusive /\ op[p].inside /\ op[p].turn \in Turn
        /\ WellFormed(op[p].file) /\ op[p].paths \in SUBSET Path
    BY <1>9, <1>t DEF DeclarePaths, Formed, Call
  <2>2. Entries(file) = Entries(op[p].file) \cup op[p].paths
    BY <2>1, DeclareFormed
  <2>3. \A q \in Proc : ~ op'[q].inside
    <3>1. op' = [op EXCEPT ![p] = NoCall] /\ ~ NoCall.inside
      BY <1>9 DEF DeclarePaths, NoCall
    <3>2. \A q \in Proc \ {p} : ~ op[q].inside
      BY <1>x, <2>1
    <3> QED
      BY <1>t, <3>1, <3>2
  <2>4. CASE f \in op[p].paths
    <3>1. history'[f].owed = (log # <<>>)
      BY <1>9, <2>4 DEF DeclarePaths
    <3>2. f \in Entries(declared') /\ young' /\ log' = log
      BY <1>9, <2>2, <2>4 DEF DeclarePaths
    <3> QED
      BY <2>3, <3>1, <3>2 DEF Owed
  <2>5. CASE f \notin op[p].paths
    <3>1. history[f].owed
      <4>1. \/ history'[f] = history[f]
            \/ history'[f] = [history[f] EXCEPT !.counted = @ \cup {op[p].turn}]
        BY <1>9, <2>5 DEF DeclarePaths
      <4> QED
        BY <1>t, <4>1 DEF HistoryType
    <3>2. Owed(f)
      BY <1>k, <2>1, <3>1
    <3>3. f \in Entries(op[p].file)
      BY <2>1, <3>2 DEF Owed
    <3>4. f \in Entries(declared') /\ (young => young') /\ log' = log /\ collector' = collector
      BY <1>9, <2>2, <3>2, <3>3 DEF DeclarePaths, Owed
    <3> QED
      BY <2>3, <3>2, <3>4 DEF Owed
  <2> QED
    BY <2>4, <2>5
<1>10. ASSUME history' = [f \in Path |-> Unwatched] PROVE KeptInv'
  BY <1>10 DEF KeptInv, Unwatched
<1>11. ASSUME NEW p \in Proc, RemoveDeclared(p) PROVE KeptInv'
  BY <1>10, <1>11 DEF RemoveDeclared
<1>12. ASSUME NEW p \in Proc, RemoveLog(p) PROVE KeptInv'
  <2>1. exclusive => \A f \in Path : ~ history[f].owed
    BY <1>12, <1>k, <1>t DEF RemoveLog, Owed, Standing
  <2> QED
    BY <1>12, <2>1 DEF RemoveLog, KeptInv
<1>13. ASSUME NEW p \in Proc, Busy(p) PROVE KeptInv'
  <2>1. p \in waiting /\ ~ op[p].inside
    BY <1>13, <1>t DEF Busy, Standing
  <2>2. CASE op[p].section = "note"
    <3>1. ~ op'[p].inside /\ \A q \in Proc \ {p} : op'[q] = op[q]
      BY <1>13, <1>t, <2>1, <2>2 DEF Busy, Call
    <3> QED
      BY <1>13, <2>2, <3>1, KeptFrame DEF Busy
  <2>3. CASE op[p].section = "attach"
    <3>1. PICK f \in op[p].todo : op' = [op EXCEPT ![p] = AfterAttach(op[p], f, {})]
      BY <1>13, <2>3 DEF Busy
    <3>2. ~ op'[p].inside /\ \A q \in Proc \ {p} : op'[q] = op[q]
      BY <1>t, <3>1, AttachSection
    <3> QED
      BY <1>13, <2>3, <3>2, KeptFrame DEF Busy, lockVars
  <2>4. CASE op[p].section \notin {"note", "attach"}
    <3>1. ~ op'[p].inside /\ \A q \in Proc \ {p} : op'[q] = op[q]
      BY <1>13, <1>t, <2>4 DEF Busy, NoCall
    <3> QED
      BY <1>13, <2>4, <3>1, KeptFrame DEF Busy
  <2> QED
    BY <2>2, <2>3, <2>4
<1>14. ASSUME NEW p \in Proc, Crash(p) PROVE KeptInv'
  <2>1. ~ op'[p].inside /\ \A q \in Proc \ {p} : op'[q] = op[q]
    BY <1>14, <1>t DEF Crash, NoCall
  <2> QED
    BY <1>14, <2>1, KeptFrame DEF Crash
<1>15. CASE Settle
  BY <1>15 DEF Settle, KeptInv, Owed, lockVars
<1>16. CASE Look
  BY <1>16 DEF Look, KeptInv, Owed, lockVars
<1>17. CASE Judge
  BY <1>17, <1>t DEF Judge, KeptInv, Owed, lockVars
<1>18. CASE Collect
  <2>1. CASE young
    BY <1>10, <1>18, <2>1 DEF Collect
  <2>2. CASE ~ young
    <3>1. exclusive => \A f \in Path : ~ history[f].owed
      BY <1>18, <1>k, <2>2 DEF Collect, Owed
    <3> QED
      BY <1>18, <2>2, <3>1 DEF Collect, KeptInv, lockVars
  <2> QED
    BY <2>1, <2>2
<1> QED
  BY <1>1, <1>3, <1>4, <1>5, <1>6, <1>7, <1>8, <1>9, <1>11, <1>12, <1>13, <1>14, <1>15, <1>16,
     <1>17, <1>18 DEF Next, Section, Collection

\* No declaration is lost to another call or to the collection of orphaned
\* sets, but for one that lands between the collector's look at the age of the
\* set and its removal (declared.rs; sweep.rs, orphan_declared).
THEOREM NoDeclarationIsLost == Safety => []DeclarationsAreKept
<1>1. KeptInv => DeclarationsAreKept
  BY DEF KeptInv, Owed, DeclarationsAreKept
<1> QED
  BY TypeInit, TypeStep, SectionInit, SectionStep, KeptInit, KeptStep, <1>1, PTL DEF Safety

-----------------------------------------------------------------------------
(* The window. *)

\* The turns a declared set has counted since it last saw f declared.
After(file, f) == {file.turns[i] : i \in file.since[f] + 1 .. Len(file.turns)}

\* They are as many as there are positions after that of f.
LEMMA AfterSize ==
    ASSUME NEW file, WellFormed(file), NEW f \in Path
    PROVE  /\ IsFiniteSet(After(file, f))
           /\ Cardinality(After(file, f)) = Len(file.turns) - file.since[f]
<1> DEFINE from == file.since[f] + 1
           to == Len(file.turns)
           later == [i \in from .. to |-> file.turns[i]]
<1>1. /\ file.turns \in Seq(Turn) /\ file.since[f] \in Nat /\ to \in Nat
      /\ DOMAIN file.turns = 1 .. to /\ file.since[f] <= to
  BY LenProperties DEF WellFormed, DeclaredFile
<1>2. from \in Int /\ to \in Int /\ from .. to \subseteq 1 .. to
  BY <1>1
<1>3. IsFiniteSet(from .. to) /\ Cardinality(from .. to) = to - file.since[f]
  <2> HIDE DEF to
  <2>1. /\ IsFiniteSet(from .. to)
        /\ Cardinality(from .. to) = IF from > to THEN 0 ELSE to - from + 1
    BY <1>2, FS_Interval
  <2> QED
    BY <1>1, <2>1
<1> HIDE DEF from, to
<1>4. later \in Bijection(from .. to, After(file, f))
  <2>1. \A i, j \in from .. to : file.turns[i] = file.turns[j] => i = j
    BY <1>1, <1>2 DEF WellFormed, IsInjective
  <2>2. later \in [from .. to -> After(file, f)]
    BY DEF After, from, to
  <2>3. \A i, j \in from .. to : later[i] = later[j] => i = j
    BY <2>1
  <2>4. \A t \in After(file, f) : \E i \in from .. to : later[i] = t
    BY DEF After, from, to
  <2> HIDE DEF later
  <2> QED
    BY <2>2, <2>3, <2>4 DEF Bijection, Injection, Surjection, IsInjective
<1> QED
  BY <1>3, <1>4, FS_Bijection DEF to, ExistsBijection

\* A turn that is added comes after every declaration.
LEMMA WithTurnAfter ==
    ASSUME NEW file, WellFormed(file), NEW t \in Turn, NEW f \in Path
    PROVE  /\ t \in ToSet(file.turns) => WithTurn(file, t) = file
           /\ t \notin ToSet(file.turns)
                => After(WithTurn(file, t), f) = After(file, f) \cup {t}
           /\ (file.since[f] \in 1 .. Len(file.turns)) =>
                /\ file.turns[file.since[f]] \in ToSet(file.turns)
                /\ file.since[f] \in 1 .. Len(WithTurn(file, t).turns)
                /\ WithTurn(file, t).turns[file.since[f]] = file.turns[file.since[f]]
<1> DEFINE turns == file.turns
           n == Len(turns)
           more == Append(turns, t)
<1>1. /\ turns \in Seq(Turn) /\ file = [turns |-> turns, since |-> file.since]
      /\ n \in Nat /\ DOMAIN turns = 1 .. n
      /\ file.since[f] \in Nat /\ file.since[f] <= n
  BY LenProperties DEF WellFormed, DeclaredFile
<1>2. t \in ToSet(turns) => WithTurn(file, t) = file
  BY DEF WithTurn
<1>3. (file.since[f] \in 1 .. n) => turns[file.since[f]] \in ToSet(turns)
  BY <1>1 DEF ToSet
<1>4. ASSUME t \notin ToSet(turns)
      PROVE  /\ WithTurn(file, t).turns = more /\ WithTurn(file, t).since = file.since
             /\ Len(more) = n + 1 /\ more[n + 1] = t
             /\ \A i \in 1 .. n : more[i] = turns[i]
  BY <1>1, <1>4, AppendProperties DEF WithTurn
<1>5. ASSUME t \notin ToSet(turns) PROVE After(WithTurn(file, t), f) = After(file, f) \cup {t}
  <2>1. After(WithTurn(file, t), f) = {more[i] : i \in file.since[f] + 1 .. n + 1}
    BY <1>4, <1>5 DEF After
  <2>2. After(file, f) = {turns[i] : i \in file.since[f] + 1 .. n}
    BY DEF After
  <2>3. /\ more[n + 1] = t /\ \A i \in 1 .. n : more[i] = turns[i]
    BY <1>4, <1>5
  <2>4. (file.since[f] + 1) .. (n + 1) = ((file.since[f] + 1) .. n) \cup {n + 1}
    BY <1>1
  <2>5. \A i \in file.since[f] + 1 .. n : i \in 1 .. n
    BY <1>1
  <2> HIDE DEF more, n, turns
  <2> QED
    BY <2>1, <2>2, <2>3, <2>4, <2>5
<1>6. ASSUME file.since[f] \in 1 .. n
      PROVE  /\ turns[file.since[f]] \in ToSet(turns)
             /\ file.since[f] \in 1 .. Len(WithTurn(file, t).turns)
             /\ WithTurn(file, t).turns[file.since[f]] = turns[file.since[f]]
  BY <1>1, <1>2, <1>3, <1>4, <1>6
<1> QED
  BY <1>2, <1>5, <1>6

\* Declared paths move to the declaring turn, the others stay where they are.
LEMMA DeclareAfter ==
    ASSUME NEW file, WellFormed(file), NEW t \in Turn, NEW paths \in SUBSET Path,
           paths # {}, NEW f \in Path
    PROVE  LET new == Declare(file, t, paths) IN
           /\ new.turns = WithTurn(file, t).turns
           /\ f \notin paths =>
                /\ new.since[f] = file.since[f]
                /\ After(new, f) = After(WithTurn(file, t), f)
           /\ f \in paths =>
                /\ new.since[f] \in 1 .. Len(new.turns)
                /\ new.turns[new.since[f]] = t
                /\ t = Last(new.turns) => After(new, f) = {}
<1> DEFINE with == WithTurn(file, t)
           at == Position(with, t)
           new == Declare(file, t, paths)
<1>1. WellFormed(with) /\ with.since = file.since /\ t \in ToSet(with.turns)
  BY WithTurnFormed
<1> HIDE DEF with
<1>2. /\ with.turns \in Seq(Turn) /\ with.since \in [Path -> Nat]
      /\ with = [turns |-> with.turns, since |-> with.since]
      /\ DOMAIN with.turns = 1 .. Len(with.turns) /\ Len(with.turns) \in Nat
      /\ IsInjective(with.turns)
  BY <1>1, LenProperties DEF WellFormed, DeclaredFile
<1>3. at \in 1 .. Len(with.turns) /\ with.turns[at] = t
  BY <1>1, <1>2 DEF ToSet, Position
<1>4. new = [turns |-> with.turns,
             since |-> [g \in Path |-> IF g \in paths THEN at ELSE with.since[g]]]
  BY <1>2 DEF Declare, with
<1>5. new.turns = with.turns /\ new.since[f] = IF f \in paths THEN at ELSE file.since[f]
  BY <1>1, <1>4
<1> HIDE DEF new, at
<1>6. ASSUME f \notin paths PROVE After(new, f) = After(with, f)
  BY <1>1, <1>5, <1>6 DEF After
<1>7. ASSUME f \in paths, t = Last(new.turns) PROVE After(new, f) = {}
  <2>1. at = Len(with.turns)
    BY <1>2, <1>3, <1>5, <1>7 DEF Last, IsInjective
  <2>2. new.since[f] + 1 .. Len(new.turns) = {}
    BY <1>2, <1>5, <1>7, <2>1
  <2> QED
    BY <2>2 DEF After
<1> QED
  BY <1>3, <1>5, <1>6, <1>7 DEF new, with

\* Everything counted since f was declared has a later position than f.
Tallied(f, file) == f \in Entries(file) => history[f].counted \subseteq After(file, f)

\* f is declared under a turn that was the latest then.
Current(f) == history[f].owed /\ history[f].turn # NoTurn

\* What holds of such a path: a section writes back what is there, the path is
\* at its turn's position, and every turn that is counted after that, or is
\* about to be, has begun since.
Timely(f) ==
    /\ \A p \in Proc : op[p].inside => op[p].file = declared
    /\ declared.since[f] \in 1 .. Len(declared.turns)
    /\ declared.turns[declared.since[f]] = history[f].turn
    /\ After(declared, f) \subseteq history[f].begun
    /\ \A p \in Proc : op[p].turn \in history[f].begun \cup {history[f].turn, NoTurn}

WindowInv ==
    exclusive => \A f \in Path :
        /\ Tallied(f, declared)
        /\ \A p \in Proc : op[p].inside => Tallied(f, op[p].file)
        /\ Current(f) => Timely(f)

\* It holds at first: nothing is declared.
LEMMA WindowInit == Init => WindowInv
BY NoDeclaredFormed DEF Init, WindowInv, Tallied, Current, Unwatched, NoCall

\* A step that leaves the declared set and the history alone keeps it, if the
\* call it is a step of does.
LEMMA WindowFrame ==
    ASSUME WindowInv, NEW p \in Proc, exclusive' = exclusive,
           \A q \in Proc \ {p} : op'[q] = op[q],
           op'[p].inside => \/ op[p].inside /\ op'[p].file = op[p].file
                            \/ op'[p].file = declared,
           op'[p].turn \in {op[p].turn, NoTurn},
           declared' = declared, history' = history
    PROVE  WindowInv'
<1> SUFFICES ASSUME exclusive, NEW f \in Path
             PROVE  /\ Tallied(f, declared)'
                    /\ \A q \in Proc : op'[q].inside => Tallied(f, op[q].file)'
                    /\ Current(f)' => Timely(f)'
  BY DEF WindowInv
<1>1. /\ Tallied(f, declared)
      /\ \A q \in Proc : op[q].inside => Tallied(f, op[q].file)
      /\ Current(f) => Timely(f)
  BY DEF WindowInv
<1>2. Tallied(f, declared)'
  BY <1>1 DEF Tallied
<1>3. ASSUME NEW q \in Proc, op'[q].inside PROVE Tallied(f, op[q].file)'
  <2>1. op'[q].file = declared \/ (op[q].inside /\ op'[q].file = op[q].file)
    BY <1>3
  <2> QED
    BY <1>1, <2>1 DEF Tallied
<1>4. ASSUME Current(f)' PROVE Timely(f)'
  <2>1. Timely(f)
    BY <1>1, <1>4 DEF Current
  <2>2. \A q \in Proc : op'[q].inside => op'[q].file = declared
    BY <2>1 DEF Timely
  <2>3. \A q \in Proc : op'[q].turn \in history[f].begun \cup {history[f].turn, NoTurn}
    BY <2>1 DEF Timely
  <2> QED
    BY <2>1, <2>2, <2>3 DEF Timely, After
<1> QED
  BY <1>2, <1>3, <1>4

\* Every step keeps it.
LEMMA WindowStep ==
    TypeInv /\ SectionInv /\ KeptInv /\ WindowInv /\ [Next]_vars => WindowInv'
<1> SUFFICES ASSUME TypeInv, SectionInv, KeptInv, WindowInv, [Next]_vars PROVE WindowInv'
  OBVIOUS
<1>t. /\ op \in [Proc -> Call] /\ history \in HistoryType /\ WellFormed(declared)
      /\ young \in BOOLEAN
      /\ \A q \in Proc : Standing(q) /\ Formed(op[q]) /\ op[q] \in Call
  BY DEF TypeInv, TypeOK, SectionInv, HistoryType, WellFormed, Formed
<1>w. exclusive => \A f \in Path :
        /\ Tallied(f, declared)
        /\ \A p \in Proc : op[p].inside => Tallied(f, op[p].file)
        /\ Current(f) => Timely(f)
  BY DEF WindowInv
<1>x. ASSUME exclusive, NEW p \in Proc, NEW q \in Proc, op[p].inside, op[q].inside PROVE p = q
  BY <1>x DEF SectionInv, Standing
<1>n. NoCall.turn = NoTurn /\ ~ NoCall.inside
  BY DEF NoCall
<1> USE DEF Lock!Request, Lock!Grant, Lock!Refuse, Lock!Release
<1>1. ASSUME exclusive' = exclusive, op' = op, declared' = declared, history' = history
      PROVE  WindowInv'
  BY <1>1 DEF WindowInv, Tallied, After, Current, Timely
<1>2. ASSUME NEW p \in Proc, NEW call, Begin(p, call), ~ call.inside PROVE WindowInv'
  <2> SUFFICES ASSUME exclusive, NEW f \in Path
               PROVE  /\ Tallied(f, declared)'
                      /\ \A q \in Proc : op'[q].inside => Tallied(f, op[q].file)'
                      /\ Current(f)' => Timely(f)'
    BY <1>2 DEF Begin, WindowInv
  <2>1. /\ op'[p] = call /\ \A q \in Proc \ {p} : op'[q] = op[q]
        /\ declared' = declared /\ exclusive' = exclusive
    BY <1>2, <1>t DEF Begin
  <2>2. /\ history'[f].counted = history[f].counted /\ history'[f].owed = history[f].owed
        /\ history'[f].turn = history[f].turn
        /\ history[f].begun \subseteq history'[f].begun
        /\ call.turn \in history'[f].begun \cup {history[f].turn, NoTurn}
    <3>1. history'[f] = IF call.turn \in {NoTurn, history[f].turn} THEN history[f]
                        ELSE [history[f] EXCEPT !.begun = @ \cup {call.turn}]
      BY <1>2 DEF Begin
    <3> QED
      BY <1>t, <3>1 DEF HistoryType
  <2>3. \A q \in Proc : op'[q].inside => op[q].inside /\ op'[q].file = op[q].file
    BY <1>2, <2>1
  <2>4. Tallied(f, declared)' /\ \A q \in Proc : op'[q].inside => Tallied(f, op[q].file)'
    BY <1>w, <2>1, <2>2, <2>3 DEF Tallied
  <2>5. ASSUME Current(f)' PROVE Timely(f)'
    <3>1. Timely(f)
      BY <1>w, <2>2, <2>5 DEF Current
    <3>2. \A q \in Proc : op'[q].turn \in history'[f].begun \cup {history'[f].turn, NoTurn}
      BY <2>1, <2>2, <3>1 DEF Timely
    <3> QED
      BY <2>1, <2>2, <2>3, <3>1, <3>2 DEF Timely, After
  <2> QED
    BY <2>4, <2>5
<1>3. ASSUME NEW p \in Proc,
             \/ \E t \in Turn : BeginCapture(p, t)
             \/ \E t \in Turn, paths \in SUBSET Path : BeginDeclare(p, t, paths)
             \/ BeginDelete(p)
      PROVE  WindowInv'
  <2>1. ASSUME NEW t \in Turn, BeginCapture(p, t) PROVE WindowInv'
    <3> DEFINE call == [NoCall EXCEPT !.section = "note", !.turn = t]
    <3>1. ~ call.inside /\ Begin(p, call)
      BY <2>1 DEF NoCall, BeginCapture
    <3> HIDE DEF call
    <3> QED
      BY <1>2, <3>1
  <2>2. ASSUME NEW t \in Turn, NEW paths \in SUBSET Path, BeginDeclare(p, t, paths)
        PROVE  WindowInv'
    <3> DEFINE call == [NoCall EXCEPT !.section = "attach", !.turn = t, !.todo = paths]
    <3>1. ~ call.inside /\ Begin(p, call)
      BY <2>2 DEF NoCall, BeginDeclare
    <3> HIDE DEF call
    <3> QED
      BY <1>2, <3>1
  <2>3. ASSUME BeginDelete(p) PROVE WindowInv'
    <3> DEFINE call == [NoCall EXCEPT !.section = "delete"]
    <3>1. ~ call.inside /\ Begin(p, call)
      BY <2>3 DEF NoCall, BeginDelete
    <3> HIDE DEF call
    <3> QED
      BY <1>2, <3>1
  <2> QED
    BY <1>3, <2>1, <2>2, <2>3
<1>4. ASSUME NEW p \in Proc, Enter(p) PROVE WindowInv'
  <2>1. /\ op'[p].file = declared /\ op'[p].turn = op[p].turn
        /\ \A q \in Proc \ {p} : op'[q] = op[q]
    BY <1>4, <1>t DEF Enter, Call
  <2> QED
    BY <1>4, <2>1, WindowFrame DEF Enter
<1>5. ASSUME NEW p \in Proc, Note(p) PROVE WindowInv'
  <2> DEFINE t == op[p].turn
             file == op[p].file
  <2>1. op[p].inside /\ t \in Turn /\ WellFormed(file)
    BY <1>5, <1>t DEF Note, Formed
  <2>2. /\ ~ op'[p].inside /\ op'[p].turn = t /\ \A q \in Proc \ {p} : op'[q] = op[q]
        /\ exclusive' = exclusive
    <3> DEFINE c == Outside(op[p])
    <3>1. c \in Call /\ ~ c.inside /\ c.turn = t
      BY <1>t, CallsFormed
    <3>2. op' = [op EXCEPT ![p] = [c EXCEPT !.section = "list"]]
      BY <1>5 DEF Note
    <3> HIDE DEF c
    <3> QED
      BY <1>5, <1>t, <3>1, <3>2 DEF Call, Note
  <2>3. CASE NoteTurn(file, t) = file
    BY <1>5, <2>2, <2>3, WindowFrame DEF Note
  <2>4. CASE NoteTurn(file, t) # file
    <3>1. /\ declared' = WithTurn(file, t) /\ WithTurn(file, t) # file
          /\ history' = [f \in Path |-> [history[f] EXCEPT !.counted = @ \cup {t}]]
      BY <1>5, <2>4 DEF Note, NoteTurn
    <3> SUFFICES ASSUME exclusive, NEW f \in Path
                 PROVE  Tallied(f, declared)' /\ (Current(f)' => Timely(f)')
                        /\ \A q \in Proc : ~ op'[q].inside
      BY <2>2 DEF WindowInv
    <3>2. \A q \in Proc : ~ op'[q].inside
      BY <1>x, <2>1, <2>2
    <3>3. /\ history'[f].counted = history[f].counted \cup {t}
          /\ history'[f].owed = history[f].owed /\ history'[f].turn = history[f].turn
          /\ history'[f].begun = history[f].begun
      BY <1>t, <3>1 DEF HistoryType
    <3>4. /\ t \notin ToSet(file.turns)
          /\ After(declared', f) = After(file, f) \cup {t}
          /\ declared'.since = file.since
      BY <2>1, <3>1, WithTurnAfter, WithTurnFormed
    <3>5. Tallied(f, declared)'
      <4>1. Tallied(f, file)
        BY <1>w, <2>1
      <4> QED
        BY <3>3, <3>4, <4>1 DEF Tallied, Entries, After
    <3>6. ASSUME Current(f)' PROVE Timely(f)'
      <4>1. Timely(f) /\ file = declared
        BY <1>w, <2>1, <3>3, <3>6 DEF Current, Timely
      <4>2. /\ declared'.since[f] \in 1 .. Len(declared'.turns)
            /\ declared'.turns[declared'.since[f]] = history[f].turn
            /\ history[f].turn \in ToSet(file.turns)
        BY <2>1, <3>1, <3>4, <4>1, WithTurnAfter DEF Timely
      <4>3. t \in history[f].begun
        BY <2>1, <3>4, <4>1, <4>2, ScopeMarkers DEF Timely
      <4>4. After(declared', f) \subseteq history[f].begun
        BY <3>4, <4>1, <4>3 DEF Timely
      <4>5. \A q \in Proc : op'[q].turn = op[q].turn
        BY <2>2
      <4> QED
        BY <3>2, <3>3, <4>1, <4>2, <4>4, <4>5 DEF Timely, After
    <3> QED
      BY <3>2, <3>5, <3>6
  <2> QED
    BY <2>3, <2>4
<1>6. ASSUME NEW p \in Proc, NEW window \in Window, List(p, window) PROVE WindowInv'
  <2>1. /\ ~ op'[p].inside /\ op'[p].turn = op[p].turn
        /\ \A q \in Proc \ {p} : op'[q] = op[q]
    BY <1>6, <1>t DEF List, Standing, LockedSections, Call
  <2> QED
    BY <1>6, <2>1, WindowFrame DEF List
<1>7. ASSUME NEW p \in Proc, Checkpoint(p) \/ RemoveLog(p) \/ Crash(p) PROVE WindowInv'
  <2>1. /\ op'[p] = NoCall /\ \A q \in Proc \ {p} : op'[q] = op[q]
        /\ declared' = declared /\ history' = history /\ exclusive' = exclusive
    BY <1>7, <1>t DEF Checkpoint, RemoveLog, Crash
  <2> QED
    BY <1>n, <2>1, WindowFrame
<1>8. ASSUME NEW p \in Proc, NEW f \in Path, NEW recorded,
             op' = [op EXCEPT ![p] = AfterAttach(op[p], f, recorded)],
             exclusive' = exclusive, declared' = declared, history' = history
      PROVE  WindowInv'
  <2>1. ~ op'[p].inside /\ \A q \in Proc \ {p} : op'[q] = op[q]
    BY <1>8, <1>t, AttachSection
  <2>2. op'[p].turn = op[p].turn
    <3> DEFINE c == Outside(op[p])
    <3>1. c \in Call /\ c.turn = op[p].turn
      BY <1>t, CallsFormed
    <3> HIDE DEF c
    <3>2. op'[p] = [c EXCEPT !.todo = op[p].todo \ {f}, !.paths = @ \cup recorded,
                             !.section = IF op[p].todo \ {f} = {} THEN "declare" ELSE "attach"]
      BY <1>8, <1>t DEF AfterAttach, c
    <3> QED
      BY <3>1, <3>2 DEF Call
  <2> QED
    BY <1>8, <2>1, <2>2, WindowFrame
<1>9. ASSUME NEW p \in Proc, NEW f \in Path, Attach(p, f) PROVE WindowInv'
  BY <1>8, <1>9 DEF Attach
<1>10. ASSUME NEW p \in Proc, DeclarePaths(p) PROVE WindowInv'
  <2> DEFINE t == op[p].turn
             file == op[p].file
             paths == op[p].paths
             new == Declare(file, t, paths)
  <2>1. op[p].inside /\ t \in Turn /\ WellFormed(file) /\ paths \in SUBSET Path
    BY <1>10, <1>t DEF DeclarePaths, Formed, Call
  <2>2. op'[p] = NoCall /\ (\A q \in Proc \ {p} : op'[q] = op[q]) /\ exclusive' = exclusive
    BY <1>10, <1>t DEF DeclarePaths
  <2>3. CASE paths = {}
    <3>1. history' = history /\ declared' = declared
      BY <1>10, <1>t, <2>3 DEF DeclarePaths, HistoryType
    <3> QED
      BY <1>n, <2>2, <3>1, WindowFrame
  <2>4. CASE paths # {}
    <3>1. declared' = new
      BY <1>10, <2>4 DEF DeclarePaths
    <3> SUFFICES ASSUME exclusive, NEW f \in Path
                 PROVE  Tallied(f, declared)' /\ (Current(f)' => Timely(f)')
                        /\ \A q \in Proc : ~ op'[q].inside
      BY <2>2 DEF WindowInv
    <3>2. \A q \in Proc : ~ op'[q].inside
      BY <1>n, <1>x, <2>1, <2>2
    <3>3. /\ new.turns = WithTurn(file, t).turns
          /\ f \notin paths =>
               /\ new.since[f] = file.since[f]
               /\ After(new, f) = After(WithTurn(file, t), f)
          /\ f \in paths =>
               /\ new.since[f] \in 1 .. Len(new.turns)
               /\ new.turns[new.since[f]] = t
               /\ t = Last(new.turns) => After(new, f) = {}
      BY <2>1, <2>4, DeclareAfter
    <3>4. CASE f \in paths
      <4>1. history'[f] = [owed |-> log # <<>>,
                           turn |-> IF t = Last(new.turns) THEN t ELSE NoTurn,
                           begun |-> {op[q].turn : q \in Proc} \ {t, NoTurn},
                           counted |-> {}]
        BY <1>10, <3>4 DEF DeclarePaths
      <4> HIDE DEF new
      <4>2. Tallied(f, declared)'
        BY <4>1 DEF Tallied
      <4>3. ASSUME Current(f)' PROVE Timely(f)'
        <5>1. t = Last(new.turns) /\ history'[f].turn = t
          BY <4>1, <4>3 DEF Current
        <5>2. \A q \in Proc : op'[q].turn \in history'[f].begun \cup {t, NoTurn}
          BY <1>n, <2>2, <4>1
        <5>3. After(declared', f) = {}
          BY <3>1, <3>3, <3>4, <5>1
        <5> QED
          BY <3>1, <3>2, <3>3, <3>4, <5>1, <5>2, <5>3 DEF Timely, After
      <4> QED
        BY <3>2, <4>2, <4>3
    <3>5. CASE f \notin paths
      <4>1. history'[f] = IF t \in ToSet(file.turns) THEN history[f]
                          ELSE [history[f] EXCEPT !.counted = @ \cup {t}]
        BY <1>10, <2>4, <3>5 DEF DeclarePaths
      <4> HIDE DEF new
      <4>2. /\ history'[f].owed = history[f].owed /\ history'[f].turn = history[f].turn
            /\ history'[f].begun = history[f].begun
            /\ history'[f].counted = history[f].counted
                                       \cup (IF t \in ToSet(file.turns) THEN {} ELSE {t})
        BY <1>t, <4>1 DEF HistoryType
      <4>3. /\ declared'.since[f] = file.since[f]
            /\ After(declared', f) = After(file, f)
                                       \cup (IF t \in ToSet(file.turns) THEN {} ELSE {t})
        BY <2>1, <3>1, <3>3, <3>5, WithTurnAfter
      <4>4. Tallied(f, declared)'
        <5>1. Tallied(f, file)
          BY <1>w, <2>1
        <5> QED
          BY <4>2, <4>3, <5>1 DEF Tallied, Entries, After
      <4>5. ASSUME Current(f)' PROVE Timely(f)'
        <5>1. Timely(f) /\ file = declared
          BY <1>w, <2>1, <4>2, <4>5 DEF Current, Timely
        <5>2. /\ declared'.since[f] \in 1 .. Len(declared'.turns)
              /\ declared'.turns[declared'.since[f]] = history[f].turn
              /\ history[f].turn \in ToSet(file.turns)
          BY <2>1, <3>1, <3>3, <4>3, <5>1, WithTurnAfter DEF Timely
        <5>3. t \notin ToSet(file.turns) => t \in history[f].begun
          BY <2>1, <5>1, <5>2, ScopeMarkers DEF Timely
        <5>4. After(declared', f) \subseteq history[f].begun
          BY <4>3, <5>1, <5>3 DEF Timely
        <5>5. \A q \in Proc : op'[q].turn \in {op[q].turn, NoTurn}
          BY <1>n, <2>2
        <5>6. \A q \in Proc : op'[q].turn \in history'[f].begun \cup {history'[f].turn, NoTurn}
          BY <4>2, <5>1, <5>5 DEF Timely
        <5> QED
          BY <3>2, <4>2, <5>2, <5>4, <5>6 DEF Timely, After
      <4> QED
        BY <3>2, <4>4, <4>5
    <3> QED
      BY <3>4, <3>5
  <2> QED
    BY <2>3, <2>4
<1>11. ASSUME history' = [f \in Path |-> Unwatched] PROVE WindowInv'
  BY <1>11 DEF WindowInv, Tallied, Current, Unwatched
<1>12. ASSUME NEW p \in Proc, RemoveDeclared(p) PROVE WindowInv'
  BY <1>11, <1>12 DEF RemoveDeclared
<1>13. ASSUME NEW p \in Proc, Busy(p) PROVE WindowInv'
  <2>1. /\ p \in waiting /\ ~ op[p].inside
        /\ declared' = declared /\ history' = history
    BY <1>13, <1>t DEF Busy, Standing
  <2>2. CASE op[p].section = "note"
    <3>1. /\ ~ op'[p].inside /\ op'[p].turn = op[p].turn
          /\ \A q \in Proc \ {p} : op'[q] = op[q]
      BY <1>13, <1>t, <2>1, <2>2 DEF Busy, Call
    <3> QED
      BY <1>13, <2>1, <2>2, <3>1, WindowFrame DEF Busy
  <2>3. CASE op[p].section = "attach"
    <3>1. PICK f \in op[p].todo : op' = [op EXCEPT ![p] = AfterAttach(op[p], f, {})]
      BY <1>13, <2>3 DEF Busy
    <3>2. f \in Path
      BY <1>t, <3>1 DEF Call
    <3> QED
      BY <1>8, <1>13, <2>1, <2>3, <3>1, <3>2 DEF Busy, lockVars
  <2>4. CASE op[p].section \notin {"note", "attach"}
    <3>1. op'[p] = NoCall /\ \A q \in Proc \ {p} : op'[q] = op[q]
      BY <1>13, <1>t, <2>4 DEF Busy
    <3> QED
      BY <1>n, <1>13, <2>1, <2>4, <3>1, WindowFrame DEF Busy
  <2> QED
    BY <2>2, <2>3, <2>4
<1>14. ASSUME \/ UNCHANGED vars \/ Settle \/ Look \/ Judge PROVE WindowInv'
  BY <1>1, <1>14 DEF vars, lockVars, Settle, Look, Judge
<1>15. CASE Collect
  <2>1. CASE young
    BY <1>11, <1>15, <2>1 DEF Collect
  <2>2. CASE ~ young
    <3>1. exclusive => \A f \in Path : ~ history[f].owed
      BY <1>15, <2>2 DEF Collect, KeptInv, Owed
    <3>2. declared' = NoDeclared /\ history' = history /\ op' = op /\ exclusive' = exclusive
      BY <1>15, <2>2 DEF Collect, lockVars
    <3> QED
      BY <1>w, <3>1, <3>2, NoDeclaredFormed DEF WindowInv, Tallied, Current
  <2> QED
    BY <2>1, <2>2
<1> QED
  BY <1>3, <1>4, <1>5, <1>6, <1>7, <1>9, <1>10, <1>12, <1>13, <1>14, <1>15
     DEF Next, Section, Collection

\* The turns of the calls under way.
UnderWay == {op[p].turn : p \in Proc}

\* However many processes there are, finitely many calls have been made.
FewTurns == IsFiniteSet(UnderWay) /\ \A f \in Path : IsFiniteSet(history[f].begun)

\* It holds at first.
LEMMA FewInit == Init => FewTurns
<1> SUFFICES ASSUME Init PROVE FewTurns
  OBVIOUS
<1>1. UnderWay \subseteq {NoTurn}
  BY DEF Init, UnderWay, NoCall
<1>2. IsFiniteSet({NoTurn}) /\ IsFiniteSet({})
  BY FS_Singleton, FS_EmptySet
<1> QED
  BY <1>1, <1>2, FS_Subset DEF Init, FewTurns, Unwatched

\* Every step keeps it.
LEMMA FewStep == TypeInv /\ FewTurns /\ [Next]_vars => FewTurns'
<1> SUFFICES ASSUME TypeInv, FewTurns, [Next]_vars PROVE FewTurns'
  OBVIOUS
<1>t. op \in [Proc -> Call] /\ history \in HistoryType
  BY DEF TypeInv, TypeOK, HistoryType
<1>1. ASSUME \/ op' = op
             \/ \E p \in Proc : \A q \in Proc \ {p} : op'[q] = op[q]
      PROVE  IsFiniteSet(UnderWay')
  <2>1. CASE op' = op
    BY <2>1 DEF FewTurns, UnderWay
  <2>2. ASSUME NEW p \in Proc, \A q \in Proc \ {p} : op'[q] = op[q]
        PROVE  IsFiniteSet(UnderWay')
    <3>1. UnderWay' \subseteq UnderWay \cup {op'[p].turn}
      BY <2>2 DEF UnderWay
    <3>2. IsFiniteSet(UnderWay \cup {op'[p].turn})
      BY FS_AddElement DEF FewTurns
    <3> QED
      BY <3>1, <3>2, FS_Subset
  <2> QED
    BY <1>1, <2>1, <2>2
<1>2. ASSUME NEW f \in Path,
             \/ history'[f].begun = history[f].begun
             \/ \E t : history'[f].begun = history[f].begun \cup {t}
             \/ history'[f].begun \subseteq UnderWay
      PROVE  IsFiniteSet(history'[f].begun)
  BY <1>2, FS_AddElement, FS_Subset DEF FewTurns
<1>3. ASSUME history' = history \/ history' = [f \in Path |-> Unwatched],
             NEW f \in Path
      PROVE  IsFiniteSet(history'[f].begun)
  BY <1>3, <1>2 DEF Unwatched
<1>4. ASSUME NEW p \in Proc, NEW call, Begin(p, call) PROVE FewTurns'
  <2>1. \A q \in Proc \ {p} : op'[q] = op[q]
    BY <1>4, <1>t DEF Begin
  <2>2. ASSUME NEW f \in Path PROVE IsFiniteSet(history'[f].begun)
    <3>1. history'[f] = IF call.turn \in {NoTurn, history[f].turn} THEN history[f]
                        ELSE [history[f] EXCEPT !.begun = @ \cup {call.turn}]
      BY <1>4 DEF Begin
    <3>2. \/ history'[f].begun = history[f].begun
          \/ history'[f].begun = history[f].begun \cup {call.turn}
      BY <1>t, <3>1 DEF HistoryType
    <3> QED
      BY <1>2, <3>2
  <2> QED
    BY <1>1, <2>1, <2>2 DEF FewTurns
<1>5. ASSUME NEW p \in Proc,
             \/ \E t \in Turn : BeginCapture(p, t)
             \/ \E t \in Turn, paths \in SUBSET Path : BeginDeclare(p, t, paths)
             \/ BeginDelete(p)
      PROVE  FewTurns'
  BY <1>4, <1>5 DEF BeginCapture, BeginDeclare, BeginDelete
<1>6. ASSUME NEW p \in Proc, Note(p) PROVE FewTurns'
  <2>1. \A q \in Proc \ {p} : op'[q] = op[q]
    BY <1>6, <1>t DEF Note
  <2>2. ASSUME NEW f \in Path PROVE history'[f].begun = history[f].begun
    <3>1. \/ history' = history
          \/ history' = [g \in Path |-> [history[g] EXCEPT !.counted = @ \cup {op[p].turn}]]
      BY <1>6 DEF Note
    <3> QED
      BY <1>t, <3>1 DEF HistoryType
  <2> QED
    BY <1>1, <1>2, <2>1, <2>2 DEF FewTurns
<1>7. ASSUME NEW p \in Proc, DeclarePaths(p) PROVE FewTurns'
  <2>1. \A q \in Proc \ {p} : op'[q] = op[q]
    BY <1>7, <1>t DEF DeclarePaths
  <2>2. ASSUME NEW f \in Path
        PROVE  \/ history'[f].begun = history[f].begun
               \/ history'[f].begun \subseteq UnderWay
    <3>1. CASE f \in op[p].paths
      <4>1. history'[f].begun = {op[q].turn : q \in Proc} \ {op[p].turn, NoTurn}
        BY <1>7, <3>1 DEF DeclarePaths
      <4> QED
        BY <4>1 DEF UnderWay
    <3>2. CASE f \notin op[p].paths
      <4>1. \/ history'[f] = history[f]
            \/ history'[f] = [history[f] EXCEPT !.counted = @ \cup {op[p].turn}]
        BY <1>7, <3>2 DEF DeclarePaths
      <4> QED
        BY <1>t, <4>1 DEF HistoryType
    <3> QED
      BY <3>1, <3>2
  <2> QED
    BY <1>1, <1>2, <2>1, <2>2 DEF FewTurns
<1>8. ASSUME NEW p \in Proc,
             \/ Enter(p) \/ \E window \in Window : List(p, window)
             \/ Checkpoint(p) \/ \E f \in Path : Attach(p, f)
             \/ RemoveLog(p) \/ RemoveDeclared(p) \/ Crash(p)
      PROVE  FewTurns'
  <2>1. \A q \in Proc \ {p} : op'[q] = op[q]
    BY <1>8, <1>t DEF Enter, List, Checkpoint, Attach, RemoveLog, RemoveDeclared, Crash
  <2>2. history' = history \/ history' = [f \in Path |-> Unwatched]
    BY <1>8 DEF Enter, List, Checkpoint, Attach, RemoveLog, RemoveDeclared, Crash
  <2> QED
    BY <1>1, <1>3, <2>1, <2>2 DEF FewTurns
<1>9. ASSUME NEW p \in Proc, Busy(p) PROVE FewTurns'
  <2>1. \A q \in Proc \ {p} : op'[q] = op[q]
    <3>1. CASE op[p].section = "note"
      BY <1>9, <1>t, <3>1 DEF Busy
    <3>2. CASE op[p].section = "attach"
      BY <1>9, <1>t, <3>2 DEF Busy
    <3>3. CASE op[p].section \notin {"note", "attach"}
      BY <1>9, <1>t, <3>3 DEF Busy
    <3> QED
      BY <3>1, <3>2, <3>3
  <2>2. history' = history
    BY <1>9 DEF Busy
  <2> QED
    BY <1>1, <1>3, <2>1, <2>2 DEF FewTurns
<1>10. ASSUME UNCHANGED vars \/ Settle \/ Collection PROVE FewTurns'
  <2>1. op' = op /\ (history' = history \/ history' = [f \in Path |-> Unwatched])
    BY <1>10 DEF vars, Settle, Collection, Look, Judge, Collect
  <2> QED
    BY <1>1, <1>3, <2>1 DEF FewTurns
<1> QED
  BY <1>5, <1>6, <1>7, <1>8, <1>9, <1>10 DEF Next, Section

\* The window means what it says, for every window, however captures and
\* declarations of any turns interleave, fail to note their turn or die: a path
\* declared under the latest turn is watched through as many further turns, and
\* none is watched through more (declared.rs, DeclaredWindow::Turns, active).
THEOREM WindowIsKept == Safety => WatchedForTheWindow
<1>1. ASSUME TypeInv, KeptInv, WindowInv, FewTurns,
             NEW p \in Proc, NEW w \in Window, exclusive, List(p, w), NEW f \in Path
      PROVE  /\ /\ history[f].owed /\ history[f].turn # NoTurn
                /\ w = Unlimited \/ Cardinality(history[f].begun) <= w
                => f \in op'[p].paths
             /\ /\ f \in op'[p].paths
                => w = Unlimited \/ Cardinality(history[f].counted) <= w
  <2> DEFINE n == Len(declared.turns)
             at == declared.since[f]
             later == Cardinality(After(declared, f))
  <2>1. op'[p].paths = Active(declared, w)
    BY <1>1 DEF List, TypeInv, TypeOK, Call
  <2>2. /\ WellFormed(declared) /\ n \in Nat /\ at \in Nat
        /\ IsFiniteSet(After(declared, f)) /\ later = n - at
    BY <1>1, AfterSize, LenProperties DEF TypeInv, TypeOK, WellFormed, DeclaredFile
  <2>3. f \in Active(declared, w) <=> at > 0 /\ at > Cutoff(declared, w)
    BY DEF Active, Entries
  <2>4. w = Unlimited \/ w \in Nat \ {0}
    BY WindowAssumption
  <2>5. /\ w = Unlimited => Cutoff(declared, w) = 0
        /\ w # Unlimited /\ n - (w + 1) < 0 => Cutoff(declared, w) = 0
        /\ w # Unlimited /\ ~ (n - (w + 1) < 0) => Cutoff(declared, w) = n - (w + 1)
    BY DEF Cutoff
  <2> HIDE DEF n, at, later
  <2>6. ASSUME history[f].owed, history[f].turn # NoTurn,
               w = Unlimited \/ Cardinality(history[f].begun) <= w
        PROVE  f \in Active(declared, w)
    <3>1. at > 0
      BY <1>1, <2>6 DEF KeptInv, Owed, Entries, at
    <3>2. CASE w = Unlimited
      BY <2>3, <2>5, <3>1, <3>2
    <3>3. CASE w # Unlimited
      <4>1. After(declared, f) \subseteq history[f].begun
        BY <1>1, <2>6 DEF WindowInv, Current, Timely
      <4>2. later <= Cardinality(history[f].begun)
        BY <1>1, <4>1, FS_Subset DEF FewTurns, later
      <4>3. Cardinality(history[f].begun) \in Nat
        BY <1>1, FS_CardinalityType DEF FewTurns
      <4> QED
        BY <2>2, <2>3, <2>4, <2>5, <2>6, <3>1, <3>3, <4>2, <4>3
    <3> QED
      BY <3>2, <3>3
  <2>7. ASSUME f \in Active(declared, w), w # Unlimited
        PROVE  Cardinality(history[f].counted) <= w
    <3>1. history[f].counted \subseteq After(declared, f)
      BY <1>1, <2>7 DEF WindowInv, Tallied, Active
    <3>2. Cardinality(history[f].counted) <= later
      BY <2>2, <3>1, FS_Subset DEF later
    <3>3. Cardinality(history[f].counted) \in Nat
      BY <2>2, <3>1, FS_Subset, FS_CardinalityType
    <3> QED
      BY <2>2, <2>3, <2>4, <2>5, <2>7, <3>2, <3>3
  <2> QED
    BY <2>1, <2>6, <2>7
<1>2. TypeInv /\ KeptInv /\ WindowInv /\ FewTurns /\ [Next]_vars =>
        [\A p \in Proc, w \in Window :
           exclusive /\ List(p, w) => \A f \in Path :
             /\ /\ history[f].owed /\ history[f].turn # NoTurn
                /\ w = Unlimited \/ Cardinality(history[f].begun) <= w
                => f \in op'[p].paths
             /\ /\ f \in op'[p].paths
                => w = Unlimited \/ Cardinality(history[f].counted) <= w]_vars
  BY <1>1
<1> QED
  BY TypeInit, TypeStep, SectionInit, SectionStep, KeptInit, KeptStep, WindowInit, WindowStep,
     FewInit, FewStep, <1>2, PTL DEF Safety, WatchedForTheWindow
==============================================================================
