------------------------------ MODULE StoreProofs ------------------------------
(***************************************************************************)
(* What the shared store of one workspace keeps, for any number of         *)
(* processes, sessions, turns, manifests and blobs.                        *)
(***************************************************************************)
EXTENDS StoreSteps

-----------------------------------------------------------------------------
(* What an operation under way has seen. *)

\* Nothing an operation has seen touched is settled yet; and of two under way,
\* each has seen what the other has, or met it in what it found under way.
Young ==
    /\ \A q \in Proc : op[q].span \cup op[q].met \subseteq fresh
    /\ \A q, r \in Proc : op[q].stage # "idle" /\ op[r].stage # "idle" =>
         op[q].span \subseteq op[r].span \cup op[r].met

\* A sweep has noted all that the forks under way carry.
Lent == \A q, r \in Proc : Sweeper(op[r]) => Carried(op[q].entries) \subseteq op[r].lent

\* The fields that an operation under way may change.
Moving ==
    {"stage", "locked", "stack", "todo", "found", "entries", "doomedTurns", "doomed",
     "unread", "liveTurns", "live", "condemned"}

\* No operation begins: those under way are those that were.
Flows(file, record) ==
    /\ fresh' = fresh \cup file
    /\ \A q \in Proc : op'[q].stage # "idle" =>
         /\ op[q].stage # "idle"
         /\ Keeps(op'[q], op[q], Moving \cup {"span", "renewed"})
         /\ Ages(op'[q], op[q], file, record)
         /\ ToSet(op'[q].entries) \subseteq ToSet(op[q].entries)

\* The fields an operation is begun with.
Starting == SavingFields \cup {"unread", "doomedTurns", "doomed"}

\* Every beginning starts with no more than those.
LEMMA BeginningStarts ==
    ASSUME Typed, NEW p \in Proc, Beginning(p)
    PROVE  Starts(p, Starting, op'[p].entries)
<1>1. ASSUME NEW F, NEW entries, Starts(p, F, entries), F \subseteq Starting
      PROVE  Starts(p, Starting, op'[p].entries)
  BY <1>1 DEF Starts, Keeps
<1>2. ASSUME NEW s \in Session, StartsSaving(p, s)
      PROVE  Starts(p, Starting, op'[p].entries)
  <2>1. Starts(p, SavingFields, <<>>) /\ SavingFields \subseteq Starting
    BY <1>2 DEF StartsSaving, Starting
  <2> QED
    BY <1>1, <2>1
<1>3. ASSUME NEW src \in Session, NEW dst \in Session, NEW t \in Turn, Fork(p, src, dst, t)
      PROVE  Starts(p, Starting, op'[p].entries)
  <2>1. /\ Starts(p, {"kind", "stage", "session", "locked"}, op'[p].entries)
        /\ {"kind", "stage", "session", "locked"} \subseteq Starting
    BY <1>3, ForkStarts DEF Starting, SavingFields
  <2> QED
    BY <1>1, <2>1
<1>4. ASSUME NEW s \in Session, Delete(p, s)
      PROVE  Starts(p, Starting, op'[p].entries)
  <2>1. /\ Starts(p, {"kind", "stage", "session", "doomedTurns", "doomed"}, <<>>)
        /\ {"kind", "stage", "session", "doomedTurns", "doomed"} \subseteq Starting
    BY <1>4, DeleteStarts DEF Starting, SavingFields
  <2> QED
    BY <1>1, <2>1
<1>5. ASSUME Collect(p)
      PROVE  Starts(p, Starting, op'[p].entries)
  <2>1. /\ Starts(p, {"kind", "stage", "unread"}, <<>>)
        /\ {"kind", "stage", "unread"} \subseteq Starting
    BY <1>5, CollectStarts DEF Starting, SavingFields
  <2> QED
    BY <1>1, <2>1
<1> QED
  BY <1>2, <1>3, <1>4, <1>5 DEF Beginning

\* A publishing operation never takes on more entries.
LEMMA EntriesShrink ==
    ASSUME Typed, NEW p \in Proc, Publishing(p), op'[p].stage # "idle"
    PROVE  ToSet(op'[p].entries) \subseteq ToSet(op[p].entries)
<1>0. \A file, record : ~ Stops(p, file, record)
  BY StoppedIsIdle
<1>1. CASE Inherit(p)
  <2>1. /\ op[p].entries \in Seq(Entry) /\ op[p].entries # <<>>
        /\ op'[p].entries = Tail(op[p].entries)
    BY <1>0, <1>1, InheritSteps
  <2>2. /\ Len(Tail(op[p].entries)) = Len(op[p].entries) - 1 /\ Len(op[p].entries) \in Nat
        /\ \A i \in 1 .. Len(Tail(op[p].entries)) : Tail(op[p].entries)[i] = op[p].entries[i + 1]
        /\ Tail(op[p].entries) \in Seq(Entry)
    BY <2>1, HeadTailProperties
  <2>3. DOMAIN op[p].entries = 1 .. Len(op[p].entries)
        /\ DOMAIN Tail(op[p].entries) = 1 .. Len(Tail(op[p].entries))
    BY <2>1, <2>2
  <2> QED
    BY <2>1, <2>2, <2>3 DEF ToSet
<1>2. CASE ~ Inherit(p)
  <2>1. ASSUME NEW F, NEW file, NEW record, Goes(p, F, file, record), "entries" \notin F
        PROVE  op'[p].entries = op[p].entries
    BY <2>1 DEF Goes, Keeps, Fields
  <2>2. ASSUME NEW o \in Object, Store(p, o) \/ Freshen(p, o)
        PROVE  op'[p].entries = op[p].entries
    <3>1. \/ Goes(p, {"found"}, {}, {}) \/ Goes(p, {"todo"}, {o}, {})
          \/ Goes(p, {"todo", "found"}, {o}, {}) \/ Goes(p, {"todo", "found"}, {}, {})
      BY <2>2, StoreSteps, FreshenSteps
    <3> QED
      BY <2>1, <3>1
  <2>3. ASSUME \/ AppendEntry(p) \/ SetTurn(p) \/ Ensure(p) \/ Create(p)
        PROVE  op'[p].entries = op[p].entries
    <3>1. \E file, record : Goes(p, {"stage"}, file, record)
      BY <1>0, <2>3, AppendSteps, SetTurnSteps, EnsureSteps, CreateSteps
    <3> QED
      BY <2>1, <3>1
  <2>4. ASSUME \/ ReadStack(p) \/ Push(p) \/ ReadRecord(p) \/ Pop(p)
        PROVE  op'[p].entries = op[p].entries
    <3>1. Goes(p, {"stage", "stack"}, {}, {})
      BY <1>0, <2>4, ReadStackSteps, PushSteps, ReadRecordSteps, PopSteps
    <3> QED
      BY <2>1, <3>1
  <2>5. op'[p].entries = op[p].entries
    BY <1>2, <2>2, <2>3, <2>4 DEF Publishing
  <2> QED
    BY <2>5
<1> QED
  BY <1>1, <1>2

\* Every other step of an operation is one of the flow.
LEMMA StepsFlow ==
    ASSUME Typed, NEW p \in Proc, Publishing(p) \/ Sweeping(p) \/ Crash(p)
    PROVE  \E file, record \in SUBSET File : Flows(file, record)
<1>0. \A q \in Proc : op'[q].entries = op[q].entries =>
        ToSet(op'[q].entries) \subseteq ToSet(op[q].entries)
  OBVIOUS
<1>1. ASSUME NEW file \in SUBSET File, NEW record \in SUBSET File,
             \/ Stops(p, file, record)
             \/ /\ Goes(p, Moving, file, record)
                /\ ToSet(op'[p].entries) \subseteq ToSet(op[p].entries)
      PROVE  Flows(file, record)
  <2>1. Others(p, file, record)
    BY <1>1 DEF Stops, Goes
  <2>2. ASSUME NEW q \in Proc \ {p}, op'[q].stage # "idle"
        PROVE  /\ op[q].stage # "idle" /\ Keeps(op'[q], op[q], Moving \cup {"span", "renewed"})
               /\ Ages(op'[q], op[q], file, record)
               /\ ToSet(op'[q].entries) \subseteq ToSet(op[q].entries)
    <3>1. Keeps(op'[q], op[q], {"span", "renewed"})
      BY <2>1 DEF Others
    <3>2. op'[q].stage = op[q].stage /\ op'[q].entries = op[q].entries
      BY <3>1 DEF Keeps, Fields
    <3>3. Ages(op'[q], op[q], file, record)
      BY <2>1, <2>2, <3>2 DEF Others
    <3> QED
      BY <1>0, <2>2, <3>1, <3>2, <3>3 DEF Keeps
  <2>3. ASSUME op'[p].stage # "idle"
        PROVE  /\ op[p].stage # "idle" /\ Keeps(op'[p], op[p], Moving \cup {"span", "renewed"})
               /\ Ages(op'[p], op[p], file, record)
               /\ ToSet(op'[p].entries) \subseteq ToSet(op[p].entries)
    BY <1>1, <2>3, StoppedIsIdle DEF Goes
  <2> QED
    BY <2>1, <2>2, <2>3 DEF Flows, Others
<1>2. CASE Publishing(p)
  <2>1. PICK file \in SUBSET File, record \in SUBSET File : Publishes(p, file, record)
    BY <1>2, PublishingSteps
  <2>2. CASE Stops(p, file, record)
    BY <1>1, <2>2
  <2>3. CASE Goes(p, {"stage", "stack", "todo", "found", "entries"}, file, record)
    <3>1. Goes(p, Moving, file, record)
      BY <2>3, Wider DEF Moving
    <3>2. op'[p].stage # "idle"
      BY <2>3 DEF Goes
    <3> QED
      BY <1>1, <1>2, <3>1, <3>2, EntriesShrink
  <2> QED
    BY <2>1, <2>2, <2>3 DEF Publishes
<1>3. CASE Sweeping(p)
  <2> DEFINE G == {"stage", "locked", "todo", "doomedTurns", "doomed", "unread", "liveTurns",
                   "live", "condemned"}
  <2>1. Goes(p, G, {}, {}) \/ Stops(p, {}, {})
    BY <1>3, SweepingSteps DEF Sweeps
  <2>2. CASE Stops(p, {}, {})
    BY <1>1, <2>2
  <2>3. CASE Goes(p, G, {}, {})
    <3>1. Goes(p, Moving, {}, {})
      BY <2>3, Wider DEF Moving
    <3>2. op'[p].entries = op[p].entries
      BY <2>3 DEF Goes, Keeps, Fields
    <3> QED
      BY <1>0, <1>1, <3>1, <3>2
  <2> QED
    BY <2>1, <2>2, <2>3
<1>4. CASE Crash(p)
  BY <1>1, <1>4, EndSteps
<1> QED
  BY <1>2, <1>3, <1>4

\* Fewer entries carry less.
LEMMA FewerCarryLess ==
    ASSUME NEW a, NEW b, ToSet(a) \subseteq ToSet(b)
    PROVE  /\ Carried(a) \subseteq Carried(b) /\ TurnsIn(a) \subseteq TurnsIn(b)
           /\ ManifestsIn(a) \subseteq ManifestsIn(b)
<1>1. TurnsIn(a) \subseteq TurnsIn(b) /\ ManifestsIn(a) \subseteq ManifestsIn(b)
  BY DEF TurnsIn, ManifestsIn
<1> QED
  BY <1>1 DEF Carried

\* An idle operation has seen and carries nothing.
LEMMA IdleIsEmpty ==
    ASSUME NEW o, Shaped(o), o.stage = "idle"
    PROVE  /\ o = NoOp /\ o.span = {} /\ o.met = {} /\ o.found = {} /\ o.condemned = {}
           /\ ~ Sweeper(o) /\ o.entries = <<>> /\ Carried(o.entries) = {}
           /\ TurnsIn(o.entries) = {} /\ ManifestsIn(o.entries) = {} /\ ~ o.quiet
<1>1. o = NoOp
  BY DEF Shaped, KindAndStage
<1>2. ToSet(<<>>) = {}
  BY DEF ToSet
<1>3. TurnsIn(<<>>) = {} /\ ManifestsIn(<<>>) = {}
  BY <1>2 DEF TurnsIn, ManifestsIn
<1>4. Carried(<<>>) = {}
  BY <1>3 DEF Carried
<1> QED
  BY <1>1, <1>3, <1>4 DEF NoOp, Sweeper

\* Only forks carry anything.
LEMMA OnlyForksCarry ==
    ASSUME NEW o, Shaped(o), o.kind # "fork"
    PROVE  /\ o.entries = <<>> /\ Carried(o.entries) = {}
           /\ TurnsIn(o.entries) = {} /\ ManifestsIn(o.entries) = {}
<1>1. o.entries = <<>>
  BY DEF Shaped, Equipped
<1>2. ToSet(<<>>) = {}
  BY DEF ToSet
<1>3. TurnsIn(<<>>) = {} /\ ManifestsIn(<<>>) = {}
  BY <1>2 DEF TurnsIn, ManifestsIn
<1> QED
  BY <1>1, <1>3 DEF Carried

\* What an operation has seen touched stays young while it is under way.
LEMMA YoungNext ==
    ASSUME Typed, Typed', Young, [Next]_vars
    PROVE  Young'
<1>0. \A q \in Proc : Shaped(op'[q])
  BY DEF Typed
<1>1. ASSUME NEW p \in Proc, Beginning(p)
      PROVE  Young'
  <2>1. Starts(p, Starting, op'[p].entries)
    BY <1>1, BeginningStarts
  <2>2. /\ op'[p].span = {} /\ op'[p].met = UNION {op[q].span : q \in Proc \ {p}}
        /\ fresh' = fresh
    BY <2>1 DEF Starts, Starting, SavingFields, Keeps, Fields, NoOp
  <2>3. \A q \in Proc \ {p} : /\ op'[q].span = op[q].span /\ op'[q].met = op[q].met
                              /\ op'[q].stage = op[q].stage
    BY <2>1 DEF Starts, Keeps, Fields
  <2> QED
    BY <2>2, <2>3 DEF Young
<1>2. ASSUME NEW file \in SUBSET File, NEW record \in SUBSET File, Flows(file, record)
      PROVE  Young'
  <2>1. fresh' = fresh \cup file
    BY <1>2 DEF Flows
  <2>2. \A q \in Proc : op'[q].stage # "idle" =>
          /\ op[q].stage # "idle" /\ op'[q].span = op[q].span \cup file
          /\ op'[q].met = op[q].met
    BY <1>2 DEF Flows, Ages, Keeps, Fields, Moving
  <2>3. \A q \in Proc : op'[q].stage = "idle" => op'[q].span = {} /\ op'[q].met = {}
    BY <1>0, IdleIsEmpty
  <2> QED
    BY <2>1, <2>2, <2>3 DEF Young
<1>3. ASSUME NEW f \in File, Settle(f)
      PROVE  Young'
  BY <1>3 DEF Settle, Young
<1>4. ASSUME UNCHANGED vars
      PROVE  Young'
  BY <1>4 DEF vars, Young
<1> QED
  BY <1>1, <1>2, <1>3, <1>4, NextSteps, StepsFlow

\* A sweep goes on noting what forks carry.
LEMMA LentNext ==
    ASSUME Typed, Typed', Lent, [Next]_vars
    PROVE  Lent'
<1>0. \A q \in Proc : Shaped(op'[q]) /\ Shaped(op[q])
  BY DEF Typed
<1>1. ASSUME NEW p \in Proc, Beginning(p)
      PROVE  Lent'
  <2> SUFFICES ASSUME NEW q \in Proc, NEW r \in Proc, Sweeper(op'[r])
               PROVE  Carried(op'[q].entries) \subseteq op'[r].lent
    BY DEF Lent, Sweeper
  <2>1. Starts(p, Starting, op'[p].entries)
    BY <1>1, BeginningStarts
  <2>2. \A x \in Proc \ {p} : /\ op'[x].entries = op[x].entries /\ op'[x].kind = op[x].kind
                              /\ Sweeper(op[x]) => op'[x].lent
                                                     = op[x].lent \cup Carried(op'[p].entries)
    BY <2>1 DEF Starts, Keeps, Fields
  <2>3. CASE r = p /\ q # p
    BY <2>1, <2>2, <2>3 DEF Starts
  <2>4. CASE q = r
    BY <1>0, <2>4, OnlyForksCarry DEF Sweeper
  <2>5. CASE r # p
    <3>1. Sweeper(op[r])
      BY <2>2, <2>5 DEF Sweeper
    <3> QED
      BY <2>2, <2>5, <3>1 DEF Lent
  <2> QED
    BY <2>3, <2>4, <2>5
<1>2. ASSUME NEW file \in SUBSET File, NEW record \in SUBSET File, Flows(file, record)
      PROVE  Lent'
  <2> SUFFICES ASSUME NEW q \in Proc, NEW r \in Proc, Sweeper(op'[r])
               PROVE  Carried(op'[q].entries) \subseteq op'[r].lent
    BY DEF Lent, Sweeper
  <2>1. op'[r].stage # "idle"
    BY <1>0, IdleIsEmpty
  <2>2. Sweeper(op[r]) /\ op'[r].lent = op[r].lent
    BY <1>2, <2>1 DEF Flows, Keeps, Fields, Moving, Sweeper
  <2>3. CASE op'[q].stage = "idle"
    BY <1>0, <2>3, IdleIsEmpty
  <2>4. CASE op'[q].stage # "idle"
    <3>1. Carried(op'[q].entries) \subseteq Carried(op[q].entries)
      BY <1>2, <2>4, FewerCarryLess DEF Flows
    <3> QED
      BY <2>2, <3>1 DEF Lent
  <2> QED
    BY <2>3, <2>4
<1>3. ASSUME UNCHANGED op
      PROVE  Lent'
  BY <1>3 DEF Lent
<1> QED
  BY <1>1, <1>2, <1>3, NextSteps, StepsFlow DEF Settle, vars

-----------------------------------------------------------------------------
(* What logs name, step by step. *)

\* A log with an entry more names what that entry names.
LEMMA AppendNames ==
    ASSUME NEW entries \in Seq(Entry), NEW e \in Entry
    PROVE  /\ ManifestsIn(Append(entries, e)) = ManifestsIn(entries) \cup {e.manifest}
           /\ TurnsIn(Append(entries, e)) = TurnsIn(entries) \cup {e.turn}
<1>1. /\ Len(entries) \in Nat /\ DOMAIN entries = 1 .. Len(entries)
      /\ DOMAIN Append(entries, e) = 1 .. (Len(entries) + 1)
      /\ \A i \in 1 .. Len(entries) : Append(entries, e)[i] = entries[i]
      /\ Append(entries, e)[Len(entries) + 1] = e
  OBVIOUS
<1>2. ToSet(Append(entries, e)) \subseteq ToSet(entries) \cup {e}
  BY <1>1 DEF ToSet
<1>3. ToSet(entries) \subseteq ToSet(Append(entries, e))
  BY <1>1 DEF ToSet
<1>4. e \in ToSet(Append(entries, e))
  BY <1>1 DEF ToSet
<1> QED
  BY <1>2, <1>3, <1>4 DEF ManifestsIn, TurnsIn

\* The first entry is one of them.
LEMMA HeadIsNamed ==
    ASSUME NEW entries \in Seq(Entry), entries # <<>>
    PROVE  /\ Head(entries) \in Entry
           /\ Head(entries).manifest \in ManifestsIn(entries)
           /\ Head(entries).turn \in TurnsIn(entries)
<1>1. Head(entries) \in Entry /\ Head(entries) = entries[1] /\ 1 \in DOMAIN entries
  OBVIOUS
<1>2. Head(entries) \in ToSet(entries)
  BY <1>1 DEF ToSet
<1> QED
  BY <1>1, <1>2 DEF ManifestsIn, TurnsIn

\* A front part of a log names nothing that the log does not.
LEMMA FrontNames ==
    ASSUME NEW front \in Seq(Entry), NEW entries \in Seq(Entry),
           Len(front) <= Len(entries), \A i \in 1 .. Len(front) : front[i] = entries[i]
    PROVE  /\ ManifestsIn(front) \subseteq ManifestsIn(entries)
           /\ TurnsIn(front) \subseteq TurnsIn(entries)
<1>1. /\ DOMAIN front = 1 .. Len(front) /\ DOMAIN entries = 1 .. Len(entries)
      /\ Len(front) \in Nat /\ Len(entries) \in Nat
  OBVIOUS
<1>2. ToSet(front) \subseteq ToSet(entries)
  BY <1>1 DEF ToSet
<1> QED
  BY <1>2, FewerCarryLess

\* A log that is not there names nothing.
LEMMA LogOfNames ==
    ASSUME NEW s
    PROVE  /\ s \notin DOMAIN log => ManifestsIn(LogOf(s)) = {} /\ TurnsIn(LogOf(s)) = {}
           /\ s \in DOMAIN log => LogOf(s) = log[s]
<1>1. ToSet(<<>>) = {}
  BY DEF ToSet
<1>2. ManifestsIn(<<>>) = {} /\ TurnsIn(<<>>) = {}
  BY <1>1 DEF ManifestsIn, TurnsIn
<1> QED
  BY <1>2 DEF LogOf

\* What a publishing step adds to the logs: the manifest and the turn of a
\* capture that is through with its content, or of an entry a fork carries.
LEMMA LogsGrow ==
    ASSUME Typed, NEW p \in Proc, Publishing(p), NEW s \in DOMAIN log'
    PROVE  /\ \A m \in ManifestsIn(log'[s]) :
                \/ s \in DOMAIN log /\ m \in ManifestsIn(log[s])
                \/ AppendEntry(p) /\ m = op[p].manifest
                \/ m \in ManifestsIn(op[p].entries)
           /\ \A t \in TurnsIn(log'[s]) :
                \/ s \in DOMAIN log /\ t \in TurnsIn(log[s])
                \/ AppendEntry(p) /\ t = op[p].turn
                \/ t \in TurnsIn(op[p].entries)
<1>1. CASE UNCHANGED log
  BY <1>1
<1>2. ASSUME NEW u \in Session, NEW e \in Entry, log' = With(log, u, Append(LogOf(u), e))
      PROVE  \/ s \in DOMAIN log /\ log'[s] = log[s]
             \/ /\ s = u
                /\ ManifestsIn(log'[s]) = ManifestsIn(LogOf(u)) \cup {e.manifest}
                /\ TurnsIn(log'[s]) = TurnsIn(LogOf(u)) \cup {e.turn}
  <2>1. LogOf(u) \in Seq(Entry)
    BY DEF Typed, TypeOK, LogOf
  <2>2. CASE s = u
    <3>1. log'[s] = Append(LogOf(u), e)
      BY <1>2, <2>2 DEF With
    <3> QED
      BY <2>1, <2>2, <3>1, AppendNames
  <2>3. CASE s # u
    BY <1>2, <2>3 DEF With
  <2> QED
    BY <2>2, <2>3
<1>3. CASE AppendEntry(p)
  <2> DEFINE u == op[p].session
             e == [turn |-> op[p].turn, manifest |-> op[p].manifest]
  <2>1. u \in Session /\ e \in Entry /\ e.turn = op[p].turn /\ e.manifest = op[p].manifest
    BY <1>3, AppendSteps DEF Entry
  <2>2. log' = With(log, u, Append(LogOf(u), e))
    BY <1>3 DEF AppendEntry
  <2> HIDE DEF u, e
  <2>3. \/ s \in DOMAIN log /\ log'[s] = log[s]
        \/ /\ s = u
           /\ ManifestsIn(log'[s]) = ManifestsIn(LogOf(u)) \cup {e.manifest}
           /\ TurnsIn(log'[s]) = TurnsIn(LogOf(u)) \cup {e.turn}
    BY <1>2, <2>1, <2>2
  <2> QED
    BY <1>3, <2>1, <2>3, LogOfNames
<1>4. CASE Inherit(p)
  <2> DEFINE u == op[p].session
             e == Head(op[p].entries)
  <2>1. /\ u \in Session /\ e \in Entry
        /\ e.manifest \in ManifestsIn(op[p].entries) /\ e.turn \in TurnsIn(op[p].entries)
    BY <1>4, InheritSteps, HeadIsNamed
  <2>2. log' = With(log, u, Append(LogOf(u), e))
    BY <1>4 DEF Inherit
  <2> HIDE DEF u, e
  <2>3. \/ s \in DOMAIN log /\ log'[s] = log[s]
        \/ /\ s = u
           /\ ManifestsIn(log'[s]) = ManifestsIn(LogOf(u)) \cup {e.manifest}
           /\ TurnsIn(log'[s]) = TurnsIn(LogOf(u)) \cup {e.turn}
    BY <1>2, <2>1, <2>2
  <2> QED
    BY <2>1, <2>3, LogOfNames
<1>5. CASE Create(p)
  <2> DEFINE u == Heir(op[p])
  <2>1. log' = With(log, u, <<>>)
    BY <1>5 DEF Create
  <2> HIDE DEF u
  <2>2. CASE s = u
    <3>1. log'[s] = <<>> /\ ToSet(<<>>) = {}
      BY <2>1, <2>2 DEF With, ToSet
    <3> QED
      BY <3>1 DEF ManifestsIn, TurnsIn
  <2>3. CASE s # u
    BY <2>1, <2>3 DEF With
  <2> QED
    BY <2>2, <2>3
<1> QED
  BY <1>1, <1>3, <1>4, <1>5
     DEF Publishing, Store, Freshen, SetTurn, Ensure, ReadStack, Push, ReadRecord, Pop

\* A capture that is to store objects has just begun or is storing them.
LEMMA WhoIsStoring ==
    ASSUME Typed, NEW p \in Proc, op'[p].stage = "store"
    PROVE  /\ Publishing(p) => \E o \in Object : Store(p, o) \/ Freshen(p, o)
           /\ Beginning(p) => \E s \in Session : StartsSaving(p, s)
           /\ ~ Sweeping(p) /\ ~ Crash(p)
<1>1. ASSUME Publishing(p)
      PROVE  \E o \in Object : Store(p, o) \/ Freshen(p, o)
  <2>1. \A file, record : ~ Stops(p, file, record)
    BY StoppedIsIdle
  <2>2. ~ AppendEntry(p) /\ ~ SetTurn(p) /\ ~ Ensure(p) /\ ~ Create(p) /\ ~ ReadStack(p)
    BY <2>1, AppendSteps, SetTurnSteps, EnsureSteps, CreateSteps, ReadStackSteps
  <2>3. ~ Push(p) /\ ~ ReadRecord(p) /\ ~ Pop(p)
    BY <2>1, PushSteps, ReadRecordSteps, PopSteps
  <2>4. ~ Inherit(p)
    <3> SUFFICES ASSUME Inherit(p) PROVE FALSE
      OBVIOUS
    <3>1. Goes(p, {"entries"}, {}, {LogFile(op[p].session)}) /\ op[p].stage = "inherit"
      BY <2>1, InheritSteps
    <3> QED
      BY <3>1 DEF Goes, Keeps, Fields
  <2> QED
    BY <1>1, <2>2, <2>3, <2>4 DEF Publishing
<1>2. ASSUME Beginning(p)
      PROVE  \E s \in Session : StartsSaving(p, s)
  BY <1>2, ForkStarts, DeleteStarts, CollectStarts DEF Beginning
<1>3. ~ Sweeping(p)
  BY SweepingSteps DEF Sweeps
<1>4. ~ Crash(p)
  BY EndSteps, StoppedIsIdle
<1> QED
  BY <1>1, <1>2, <1>3, <1>4

\* Who sweeps objects after a step swept before it: these are the steps that
\* lead there.
LEMMA WhoIsJudging ==
    ASSUME Typed, NEW p \in Proc, op'[p].stage \in {"manifests", "blobs"}
    PROVE  /\ ~ Publishing(p) /\ ~ Beginning(p) /\ ~ Crash(p)
           /\ Sweeping(p) => \/ HoldRoots(p) \/ Mark(p)
                             \/ \E o \in Object : Condemn(p, o) \/ Unlink(p, o)
<1>0. ~ Stops(p, {}, {})
  BY StoppedIsIdle
<1>1. ~ Publishing(p)
  BY PublishingSteps DEF Publishes
<1>2. ~ Beginning(p)
  BY ForkStarts, DeleteStarts, CollectStarts DEF Beginning, StartsSaving
<1>3. ~ Crash(p)
  BY <1>0, EndSteps
<1>4. ASSUME Sweeping(p)
      PROVE  \/ HoldRoots(p) \/ Mark(p) \/ \E o \in Object : Condemn(p, o) \/ Unlink(p, o)
  <2>1. ~ LockDoomed(p) /\ ~ UnlinkUndo(p) /\ ~ UnlinkLog(p) /\ ~ Swept(p)
    BY <1>0, LockDoomedSteps, UnlinkUndoSteps, UnlinkLogSteps, EndSteps
  <2>2. ~ ListOrphans(p) /\ ~ OrphansGone(p) /\ ~ MissRoots(p)
    BY <1>0, ListOrphansSteps, OrphansGoneSteps, MissRootsSteps
  <2>3. ASSUME NEW s \in Session, ReadLog(p, s) \/ RemoveOrphan(p, s)
        PROVE  FALSE
    <3>1. \/ op'[p].stage \in {"roots", "mark"}
          \/ op[p].stage = "orphans" /\ Goes(p, {"condemned"}, {}, {})
      BY <1>0, <2>3, ReadLogSteps, RemoveOrphanSteps
    <3> QED
      BY <3>1 DEF Goes, Keeps, Fields
  <2>4. ASSUME NEW t \in TurnKey, CondemnTurn(p, t) \/ RemoveTurn(p, t)
        PROVE  FALSE
    <3>1. /\ op[p].stage = "turns"
          /\ \/ Goes(p, {"condemned", "doomedTurns"}, {}, {})
             \/ Goes(p, {"condemned"}, {}, {})
      BY <2>4, CondemnTurnSteps, RemoveTurnSteps
    <3> QED
      BY <3>1 DEF Goes, Keeps, Fields
  <2> QED
    BY <1>4, <2>1, <2>2, <2>3, <2>4 DEF Sweeping
<1> QED
  BY <1>1, <1>2, <1>3, <1>4

-----------------------------------------------------------------------------
(* What a sweep may take. *)

\* What a capture is about to freshen is there, or was raced away.
Found == \A q \in Proc : op[q].found \subseteq objects \cup raced

\* What a sweep of the objects has condemned was named by nothing it read, and
\* if someone has touched it since, the sweep's check is stale.
Judged ==
    \A r \in Proc : op[r].stage \in {"manifests", "blobs"} =>
       \A o \in op[r].condemned :
          /\ o \notin op[r].live \cup op[r].met
          /\ o \in op[r].span => o \in op[r].renewed

\* An object is none that any operation under way has touched, found or
\* carries, nor one that the sweep p knows of.
Spurned(p, o) ==
    /\ op[p].stage \in {"manifests", "blobs"} /\ o \in op[p].condemned
    /\ o \notin op[p].live \cup op[p].span \cup op[p].met \cup op[p].lent
    /\ \A q \in Proc : o \notin op[q].span \cup op[q].found \cup Carried(op[q].entries)

\* Whatever goes missing unraced is spurned.
LEMMA OnlySpurnedGo ==
    ASSUME Typed, Young, Lent, Judged, [Next]_vars,
           NEW o \in objects, o \notin objects' \cup raced'
    PROVE  \E p \in Proc : Spurned(p, o)
<1>1. PICK p \in Proc : Unlink(p, o)
  <2>1. ASSUME NEW p \in Proc, Sweeping(p)
        PROVE  Unlink(p, o)
    <3>1. PICK x \in Object : Unlink(p, x)
      BY <2>1 DEF Sweeping, LockDoomed, UnlinkUndo, UnlinkLog, ReadLog, RemoveOrphan, ListOrphans,
         OrphansGone, HoldRoots, MissRoots, Mark, Swept, CondemnTurn, RemoveTurn, Condemn
    <3>2. x = o
      BY <3>1 DEF Unlink
    <3> QED
      BY <3>1, <3>2
  <2>2. \A p \in Proc : ~ Publishing(p)
    BY PublishingFiles
  <2>3. \A p \in Proc : ~ Beginning(p) /\ ~ Crash(p)
    BY DEF Beginning, Crash
  <2>4. ~ UNCHANGED vars /\ \A f \in File : ~ Settle(f)
    BY DEF vars, Settle
  <2> QED
    BY <2>1, <2>2, <2>3, <2>4, NextSteps
<1>2. /\ op[p].stage \in {"manifests", "blobs"} /\ o \in op[p].condemned /\ ~ Adopted(p, o)
  BY <1>1 DEF Unlink
<1>3. Sweeper(op[p])
  BY <1>2 DEF Typed, Shaped, KindAndStage, Sweeper
<1>4. o \notin op[p].live \cup op[p].span \cup op[p].met \cup op[p].lent
  BY <1>2 DEF Adopted, Judged
<1>5. ASSUME NEW q \in Proc
      PROVE  o \notin op[q].span \cup op[q].found \cup Carried(op[q].entries)
  <2>1. o \notin op[q].found
    BY <1>2 DEF Adopted
  <2>2. o \notin Carried(op[q].entries)
    BY <1>3, <1>4 DEF Lent
  <2>3. CASE op[q].stage = "idle"
    BY <2>1, <2>2, <2>3, IdleIsEmpty DEF Typed
  <2>4. CASE op[q].stage # "idle"
    BY <1>2, <1>4, <2>1, <2>2, <2>4 DEF Young
  <2> QED
    BY <2>3, <2>4
<1> QED
  BY <1>2, <1>4, <1>5 DEF Spurned

\* History forgets nothing.
LEMMA HistoryGrows ==
    ASSUME Typed, [Next]_vars
    PROVE  raced \subseteq raced' /\ cut \subseteq cut' /\ hollow \subseteq hollow'
<1>1. ASSUME NEW p \in Proc, Beginning(p)
      PROVE  UNCHANGED <<raced, cut, hollow>>
  BY <1>1 DEF Beginning
<1>2. ASSUME NEW p \in Proc, Publishing(p)
      PROVE  raced \subseteq raced' /\ hollow \subseteq hollow' /\ cut' = cut
  BY <1>2, PublishingFiles
<1>3. ASSUME NEW p \in Proc, Sweeping(p)
      PROVE  raced \subseteq raced' /\ UNCHANGED <<cut, hollow>>
  BY <1>3, SweepingFiles
<1>4. ASSUME NEW p \in Proc, Crash(p)
      PROVE  cut \subseteq cut' /\ UNCHANGED <<raced, hollow>>
  BY <1>4 DEF Crash
<1>5. ASSUME UNCHANGED vars \/ \E f \in File : Settle(f)
      PROVE  UNCHANGED <<raced, cut, hollow>>
  BY <1>5 DEF vars, Settle
<1> QED
  BY <1>1, <1>2, <1>3, <1>4, <1>5, NextSteps

\* p is the one process that takes a step, if any does.
LEMMA OthersOnlyAge ==
    ASSUME Typed, NEW p \in Proc, Publishing(p) \/ Sweeping(p) \/ Crash(p)
    PROVE  \E file, record \in SUBSET File : Others(p, file, record)
<1>1. CASE Publishing(p)
  BY <1>1, PublishingSteps DEF Publishes, Goes, Stops
<1>2. CASE Sweeping(p)
  <2>1. Others(p, {}, {})
    BY <1>2, SweepingSteps DEF Sweeps, Goes, Stops
  <2> QED
    BY <2>1
<1>3. CASE Crash(p)
  <2>1. Others(p, {}, {})
    BY <1>3, EndSteps DEF Stops
  <2> QED
    BY <2>1
<1> QED
  BY <1>1, <1>2, <1>3

\* What a capture is about to freshen stays, or is raced away.
LEMMA FoundNext ==
    ASSUME Typed, Typed', Young, Lent, Judged, Found, [Next]_vars
    PROVE  Found'
<1> SUFFICES ASSUME NEW q \in Proc, NEW o \in op'[q].found
             PROVE  o \in objects' \cup raced'
  BY DEF Found
<1>1. o \in op[q].found => o \in objects' \cup raced'
  BY OnlySpurnedGo, HistoryGrows DEF Found, Spurned
<1>2. op'[q].stage = "store"
  BY DEF Typed, Shaped, Equipped
<1>3. ASSUME NEW p \in Proc, Beginning(p)
      PROVE  o \in op[q].found
  <2>1. Starts(p, Starting, op'[p].entries)
    BY <1>3, BeginningStarts
  <2>2. op'[p].found = {} /\ \A x \in Proc \ {p} : op'[x].found = op[x].found
    BY <2>1 DEF Starts, Starting, SavingFields, Keeps, Fields, NoOp
  <2> QED
    BY <2>2
<1>4. ASSUME NEW p \in Proc, p # q, Publishing(p) \/ Sweeping(p) \/ Crash(p)
      PROVE  o \in op[q].found
  <2>1. Keeps(op'[q], op[q], {"span", "renewed"})
    BY <1>4, OthersOnlyAge DEF Others
  <2> QED
    BY <2>1 DEF Keeps, Fields
<1>5. ASSUME NEW x \in Object, Store(q, x) \/ Freshen(q, x)
      PROVE  o \in op[q].found \/ o \in objects'
  <2>1. \/ x \in objects /\ objects' = objects /\ op'[q].found = {x}
        \/ op'[q].found = {}
        \/ Goes(q, {"todo"}, {x}, {})
    BY <1>5, StoreSteps, FreshenSteps
  <2>2. Goes(q, {"todo"}, {x}, {}) => op'[q].found = op[q].found
    BY DEF Goes, Keeps, Fields
  <2> QED
    BY <2>1, <2>2
<1>6. ASSUME Publishing(q) \/ Sweeping(q) \/ Crash(q)
      PROVE  o \in op[q].found \/ o \in objects'
  BY <1>2, <1>5, <1>6, WhoIsStoring
<1>7. ASSUME UNCHANGED op
      PROVE  o \in op[q].found
  BY <1>7
<1> QED
  BY <1>1, <1>3, <1>4, <1>6, <1>7, NextSteps DEF vars, Settle

\* What a sweep condemns it knows nothing of, and a later touch it sees.
LEMMA JudgedNext ==
    ASSUME Typed, Typed', Young, Judged, [Next]_vars
    PROVE  Judged'
<1> SUFFICES ASSUME NEW r \in Proc, op'[r].stage \in {"manifests", "blobs"},
                    NEW o \in op'[r].condemned
             PROVE  /\ o \notin op'[r].live \cup op'[r].met
                    /\ o \in op'[r].span => o \in op'[r].renewed
  BY DEF Judged
<1>1. ASSUME NEW file, NEW record, Ages(op'[r], op[r], file, record),
             Keeps(op'[r], op[r], {"span", "renewed"})
      PROVE  /\ o \notin op'[r].live \cup op'[r].met
             /\ o \in op'[r].span => o \in op'[r].renewed
  <2>1. /\ op'[r].stage = op[r].stage /\ op'[r].live = op[r].live /\ op'[r].met = op[r].met
        /\ op'[r].condemned = op[r].condemned
    BY <1>1 DEF Keeps, Fields
  <2> QED
    BY <1>1, <2>1 DEF Ages, Judged
<1>2. ASSUME NEW p \in Proc, Beginning(p)
      PROVE  /\ o \notin op'[r].live \cup op'[r].met
             /\ o \in op'[r].span => o \in op'[r].renewed
  <2>1. r # p
    BY <1>2, WhoIsJudging
  <2>2. Keeps(op'[r], op[r], {"lent", "quiet"})
    BY <1>2, <2>1, BeginningStarts DEF Starts
  <2>3. /\ op'[r].stage = op[r].stage /\ op'[r].live = op[r].live /\ op'[r].met = op[r].met
        /\ op'[r].condemned = op[r].condemned /\ op'[r].span = op[r].span
        /\ op'[r].renewed = op[r].renewed
    BY <2>2 DEF Keeps, Fields
  <2> QED
    BY <2>3 DEF Judged
<1>3. ASSUME NEW p \in Proc, p # r, Publishing(p) \/ Sweeping(p) \/ Crash(p)
      PROVE  /\ o \notin op'[r].live \cup op'[r].met
             /\ o \in op'[r].span => o \in op'[r].renewed
  <2>1. PICK file, record \in SUBSET File : Others(p, file, record)
    BY <1>3, OthersOnlyAge
  <2>2. Keeps(op'[r], op[r], {"span", "renewed"}) /\ op[r].stage # "idle" =>
          Ages(op'[r], op[r], file, record)
    BY <1>3, <2>1 DEF Others
  <2>3. Keeps(op'[r], op[r], {"span", "renewed"})
    BY <1>3, <2>1 DEF Others
  <2>4. op[r].stage # "idle"
    BY <2>3 DEF Keeps, Fields
  <2> QED
    BY <1>1, <2>2, <2>3, <2>4
<1>4. ASSUME Sweeping(r)
      PROVE  /\ o \notin op'[r].live \cup op'[r].met
             /\ o \in op'[r].span => o \in op'[r].renewed
  <2>1. ~ HoldRoots(r)
    <3> SUFFICES ASSUME HoldRoots(r) PROVE FALSE
      OBVIOUS
    <3>1. Goes(r, {"stage", "live", "doomed"}, {}, {}) /\ op[r].condemned = {}
      BY HoldRootsSteps
    <3> QED
      BY <3>1 DEF Goes, Keeps, Fields
  <2>2. ~ Mark(r)
    <3> SUFFICES ASSUME Mark(r) PROVE FALSE
      OBVIOUS
    <3>1. Goes(r, {"stage", "live", "todo"}, {}, {}) /\ op[r].condemned = {}
      BY MarkSteps, StoppedIsIdle
    <3> QED
      BY <3>1 DEF Goes, Keeps, Fields
  <2>3. \A x \in Object : ~ Unlink(r, x)
    BY UnlinkSteps
  <2>4. PICK x \in Object : Condemn(r, x)
    BY <1>4, <2>1, <2>2, <2>3, WhoIsJudging
  <2>5. /\ Goes(r, {"condemned", "doomed", "todo"}, {}, {})
        /\ op'[r].condemned = (IF Dead(r, x) THEN {x} ELSE {})
    BY <2>4, CondemnSteps
  <2>6. o \notin op[r].live /\ o \notin fresh
    BY <2>5 DEF Dead
  <2>7. o \notin op[r].span \cup op[r].met
    BY <2>6 DEF Young
  <2>8. op'[r].live = op[r].live /\ op'[r].met = op[r].met /\ op'[r].span = op[r].span
    BY <2>5 DEF Goes, Ages, Keeps, Fields
  <2> QED
    BY <2>6, <2>7, <2>8
<1>5. ASSUME UNCHANGED op
      PROVE  /\ o \notin op'[r].live \cup op'[r].met
             /\ o \in op'[r].span => o \in op'[r].renewed
  BY <1>5 DEF Judged
<1>6. ~ Publishing(r) /\ ~ Crash(r)
  BY WhoIsJudging
<1> QED
  BY <1>2, <1>3, <1>4, <1>5, <1>6, NextSteps DEF vars, Settle

-----------------------------------------------------------------------------
(* The content of what is saved. *)

\* What a capture has put behind it is content of a manifest it took over from,
\* or stored and seen by whoever is under way, or was raced away.
Writers ==
    \A q \in Proc : op[q].stage = "store" =>
       /\ op[q].todo \subseteq Holds[op[q].manifest] \cup {op[q].manifest}
       /\ \A o \in (Holds[op[q].manifest] \cup {op[q].manifest}) \ op[q].todo :
            \/ \E l \in op[q].base : o \in Holds[l]
            \/ o \in raced
            \/ o \in objects /\ o \in op[q].span

\* A manifest that was not hollow when it was saved has all its content.
Whole == \A l \in (Manifest \cap objects) \ hollow : Holds[l] \subseteq objects \cup raced

\* A sweep that has come to the blobs knows of all that content.
Marked ==
    \A r \in Proc : op[r].stage = "blobs" =>
       \A l \in (Manifest \cap objects) \ hollow :
          Holds[l] \subseteq raced \cup op[r].live \cup op[r].span \cup op[r].met

\* What a capture has put behind it stays accounted for.
LEMMA WritersNext ==
    ASSUME Typed, Typed', Young, Lent, Judged, Found, Writers, [Next]_vars
    PROVE  Writers'
<1> DEFINE Behind(q, o) == \/ \E l \in op'[q].base : o \in Holds[l]
                           \/ o \in raced'
                           \/ o \in objects' /\ o \in op'[q].span
<1> SUFFICES ASSUME NEW q \in Proc, op'[q].stage = "store"
             PROVE  /\ op'[q].todo \subseteq Holds[op'[q].manifest] \cup {op'[q].manifest}
                    /\ \A o \in (Holds[op'[q].manifest] \cup {op'[q].manifest}) \ op'[q].todo :
                         Behind(q, o)
  BY DEF Writers
<1>0. /\ raced \subseteq raced' /\ \A o \in op[q].span : o \in objects => o \in objects' \cup raced'
      /\ \A o \in op[q].found : o \in objects \cup raced
  BY OnlySpurnedGo, HistoryGrows DEF Spurned, Found
<1>1. ASSUME op[q].stage = "store", op'[q].manifest = op[q].manifest,
             op'[q].base = op[q].base, op'[q].todo = op[q].todo, op[q].span \subseteq op'[q].span
      PROVE  /\ op'[q].todo \subseteq Holds[op'[q].manifest] \cup {op'[q].manifest}
             /\ \A o \in (Holds[op'[q].manifest] \cup {op'[q].manifest}) \ op'[q].todo :
                  Behind(q, o)
  BY <1>0, <1>1 DEF Writers
<1>2. ASSUME NEW s \in Session, StartsSaving(q, s)
      PROVE  /\ op'[q].todo \subseteq Holds[op'[q].manifest] \cup {op'[q].manifest}
             /\ \A o \in (Holds[op'[q].manifest] \cup {op'[q].manifest}) \ op'[q].todo :
                  Behind(q, o)
  BY <1>2 DEF StartsSaving
<1>3. ASSUME NEW p \in Proc, p # q, Beginning(p)
      PROVE  /\ op[q].stage = "store" /\ op'[q].manifest = op[q].manifest
             /\ op'[q].base = op[q].base /\ op'[q].todo = op[q].todo
             /\ op[q].span \subseteq op'[q].span
  <2>1. Keeps(op'[q], op[q], {"lent", "quiet"})
    BY <1>3, BeginningStarts DEF Starts
  <2> QED
    BY <2>1 DEF Keeps, Fields
<1>4. ASSUME NEW p \in Proc, p # q, Publishing(p) \/ Sweeping(p) \/ Crash(p)
      PROVE  /\ op[q].stage = "store" /\ op'[q].manifest = op[q].manifest
             /\ op'[q].base = op[q].base /\ op'[q].todo = op[q].todo
             /\ op[q].span \subseteq op'[q].span
  <2>1. PICK file, record \in SUBSET File : Others(p, file, record)
    BY <1>4, OthersOnlyAge
  <2>2. Keeps(op'[q], op[q], {"span", "renewed"})
    BY <1>4, <2>1 DEF Others
  <2>3. op[q].stage = "store"
    BY <2>2 DEF Keeps, Fields
  <2>4. Ages(op'[q], op[q], file, record)
    BY <1>4, <2>1, <2>3 DEF Others
  <2> QED
    BY <2>2, <2>3, <2>4 DEF Keeps, Fields, Ages
<1>5. ASSUME NEW x \in Object, Store(q, x) \/ Freshen(q, x)
      PROVE  /\ op'[q].todo \subseteq Holds[op'[q].manifest] \cup {op'[q].manifest}
             /\ \A o \in (Holds[op'[q].manifest] \cup {op'[q].manifest}) \ op'[q].todo :
                  Behind(q, o)
  <2>1. CASE Goes(q, {"found"}, {}, {})
    <3>1. /\ op'[q].stage = op[q].stage /\ op'[q].manifest = op[q].manifest
          /\ op'[q].base = op[q].base /\ op'[q].todo = op[q].todo
          /\ op[q].span \subseteq op'[q].span
      BY <2>1 DEF Goes, Keeps, Fields, Ages
    <3> QED
      BY <1>1, <3>1
  <2>2. ASSUME NEW F \in SUBSET {"todo", "found"}, NEW file, Goes(q, F, file, {}),
               op'[q].todo = op[q].todo \ {x},
               x \in raced \/ (x \in objects' /\ x \in file)
        PROVE  /\ op'[q].todo \subseteq Holds[op'[q].manifest] \cup {op'[q].manifest}
               /\ \A o \in (Holds[op'[q].manifest] \cup {op'[q].manifest}) \ op'[q].todo :
                    Behind(q, o)
    <3>1. /\ op'[q].stage = op[q].stage /\ op'[q].manifest = op[q].manifest
          /\ op'[q].base = op[q].base
      BY <2>2 DEF Goes, Keeps, Fields
    <3>2. op'[q].span = op[q].span \cup file
      BY <2>2 DEF Goes, Ages
    <3>3. Behind(q, x)
      BY <1>0, <2>2, <3>2
    <3>4. ASSUME NEW o \in (Holds[op[q].manifest] \cup {op[q].manifest}) \ op[q].todo
          PROVE  Behind(q, o)
      BY <1>0, <3>1, <3>2 DEF Writers
    <3>5. op[q].todo \subseteq Holds[op[q].manifest] \cup {op[q].manifest}
      BY <3>1 DEF Writers
    <3> HIDE DEF Behind
    <3> QED
      BY <2>2, <3>1, <3>3, <3>4, <3>5
  <2>3. CASE Store(q, x)
    <3>1. \/ Goes(q, {"found"}, {}, {})
          \/ /\ objects' = objects \cup {x} /\ Goes(q, {"todo"}, {x}, {})
             /\ op'[q].todo = op[q].todo \ {x}
      BY <2>3, StoreSteps
    <3>2. CASE /\ objects' = objects \cup {x} /\ Goes(q, {"todo"}, {x}, {})
               /\ op'[q].todo = op[q].todo \ {x}
      <4>1. {"todo"} \in SUBSET {"todo", "found"} /\ x \in objects' /\ x \in {x}
        BY <3>2
      <4> HIDE DEF Behind
      <4> QED
        BY <2>2, <3>2, <4>1
    <3> HIDE DEF Behind
    <3> QED
      BY <2>1, <3>1, <3>2
  <2>4. CASE Freshen(q, x)
    <3>1. /\ op'[q].todo = op[q].todo \ {x} /\ objects' = objects /\ x \in op[q].found
          /\ x \in objects => Goes(q, {"todo", "found"}, {x}, {})
          /\ x \notin objects => Goes(q, {"todo", "found"}, {}, {})
      BY <2>4, FreshenSteps DEF Freshen
    <3>2. x \in objects \/ x \in raced
      BY <1>0, <3>1
    <3> DEFINE F == {"todo", "found"}
               file == IF x \in objects THEN {x} ELSE {}
    <3>3. F \in SUBSET {"todo", "found"} /\ Goes(q, F, file, {})
      BY <3>1
    <3>4. x \in raced \/ (x \in objects' /\ x \in file)
      BY <3>1, <3>2
    <3> HIDE DEF Behind, F, file
    <3> QED
      BY <2>2, <3>1, <3>3, <3>4
  <2> HIDE DEF Behind
  <2> QED
    BY <1>5, <2>3, <2>4
<1> HIDE DEF Behind
<1>6. ASSUME UNCHANGED op
      PROVE  /\ op[q].stage = "store" /\ op'[q].manifest = op[q].manifest
             /\ op'[q].base = op[q].base /\ op'[q].todo = op[q].todo
             /\ op[q].span \subseteq op'[q].span
  BY <1>6
<1>7. ASSUME Beginning(q) \/ Publishing(q) \/ Sweeping(q) \/ Crash(q)
      PROVE  \/ \E s \in Session : StartsSaving(q, s)
             \/ \E x \in Object : Store(q, x) \/ Freshen(q, x)
  BY <1>7, WhoIsStoring
<1> QED
  BY <1>1, <1>2, <1>3, <1>4, <1>5, <1>6, <1>7, NextSteps DEF vars, Settle

\* A manifest that appears and is not hollow has its content from where its
\* capture says.
LEMMA NewManifests ==
    ASSUME Typed, Writers, [Next]_vars, NEW m \in Manifest,
           m \in objects', m \notin objects, m \notin hollow'
    PROVE  \E p \in Proc :
             /\ op[p].stage = "store" /\ op'[p].stage = "store" /\ Publishing(p)
             /\ \A b \in Holds[m] :
                  \/ \E l \in (Manifest \cap objects) \ hollow : b \in Holds[l]
                  \/ b \in raced
                  \/ b \in objects /\ b \in op[p].span
<1>1. PICK p \in Proc : Publishing(p)
  <2>1. ASSUME NEW p \in Proc, Beginning(p) \/ Sweeping(p) \/ Crash(p)
        PROVE  FALSE
    BY <2>1, SweepingFiles DEF Beginning, Crash
  <2>2. ASSUME UNCHANGED vars \/ \E f \in File : Settle(f)
        PROVE  FALSE
    BY <2>2 DEF vars, Settle
  <2> QED
    BY <2>1, <2>2, NextSteps
<1>2. PICK o \in Object : Store(p, o)
  BY <1>1 DEF Publishing, Freshen, AppendEntry, SetTurn, Ensure, Create, ReadStack, Push, ReadRecord, Pop,
     Inherit
<1>3. /\ op[p].stage = "store" /\ o = m /\ ~ Bereft(p) /\ op[p].todo = {m}
  BY <1>2 DEF Store
<1>4. m = op[p].manifest
  BY <1>3, HoldsAssumption, ObjectAssumption DEF Writers, Typed, Shaped, KindAndStage, Equipped
<1>5. op'[p].stage = "store"
  <2>1. Goes(p, {"todo"}, {m}, {}) \/ Goes(p, {"found"}, {}, {})
    BY <1>2, <1>3, StoreSteps
  <2> QED
    BY <1>3, <2>1 DEF Goes, Keeps, Fields
<1>6. ASSUME NEW b \in Holds[m]
      PROVE  \/ \E l \in (Manifest \cap objects) \ hollow : b \in Holds[l]
             \/ b \in raced
             \/ b \in objects /\ b \in op[p].span
  <2>1. b \notin op[p].todo
    BY <1>3, HoldsAssumption, ObjectAssumption
  <2>2. \/ \E l \in op[p].base : b \in Holds[l]
        \/ b \in raced
        \/ b \in objects /\ b \in op[p].span
    BY <1>3, <1>4, <2>1 DEF Writers
  <2>3. op[p].base \subseteq (Manifest \cap objects) \ hollow
    BY <1>3 DEF Bereft, Typed, Shaped, Operation
  <2> QED
    BY <2>2, <2>3
<1> QED
  BY <1>1, <1>3, <1>5, <1>6

\* A manifest that has all its content keeps it.
LEMMA WholeNext ==
    ASSUME Typed, Young, Lent, Judged, Writers, Whole, Marked, [Next]_vars
    PROVE  Whole'
<1> SUFFICES ASSUME NEW m \in (Manifest \cap objects') \ hollow', NEW b \in Holds[m]
             PROVE  b \in objects' \cup raced'
  BY DEF Whole
<1>1. raced \subseteq raced' /\ hollow \subseteq hollow'
  BY HistoryGrows
<1>2. ASSUME NEW l \in (Manifest \cap objects) \ hollow, b \in Holds[l]
      PROVE  b \in objects' \cup raced'
  <2> SUFFICES ASSUME b \notin objects' \cup raced' PROVE FALSE
    OBVIOUS
  <2>1. b \in objects /\ b \notin raced
    BY <1>1, <1>2 DEF Whole
  <2>2. PICK p \in Proc : Spurned(p, b)
    BY <2>1, OnlySpurnedGo
  <2>3. b \in Blob
    BY HoldsAssumption
  <2>4. op[p].stage = "blobs"
    BY <2>2, <2>3, ObjectAssumption DEF Spurned, Typed, Shaped, Equipped
  <2>5. b \in op[p].live \cup op[p].span \cup op[p].met
    BY <1>2, <2>1, <2>4 DEF Marked
  <2> QED
    BY <2>2, <2>5 DEF Spurned
<1>3. CASE m \in objects
  BY <1>1, <1>2, <1>3
<1>4. CASE m \notin objects
  <2>1. PICK p \in Proc :
          /\ Publishing(p)
          /\ \/ \E l \in (Manifest \cap objects) \ hollow : b \in Holds[l]
             \/ b \in raced
             \/ b \in objects /\ b \in op[p].span
    BY <1>4, NewManifests
  <2>2. objects \subseteq objects'
    BY <2>1, PublishingFiles
  <2> QED
    BY <1>1, <1>2, <2>1, <2>2
<1> QED
  BY <1>3, <1>4

\* A sweep of the blobs goes on knowing of what manifests hold.
LEMMA MarkedNext ==
    ASSUME Typed, Young, Writers, Marked, [Next]_vars
    PROVE  Marked'
<1> SUFFICES ASSUME NEW r \in Proc, op'[r].stage = "blobs",
                    NEW m \in (Manifest \cap objects') \ hollow', NEW b \in Holds[m]
             PROVE  b \in raced' \cup op'[r].live \cup op'[r].span \cup op'[r].met
  BY DEF Marked
<1>1. raced \subseteq raced' /\ hollow \subseteq hollow'
  BY HistoryGrows
<1>2. ASSUME op[r].stage = "blobs", op'[r].live = op[r].live, op'[r].met = op[r].met,
             op[r].span \subseteq op'[r].span
      PROVE  b \in raced' \cup op'[r].live \cup op'[r].span \cup op'[r].met
  <2>1. ASSUME NEW l \in (Manifest \cap objects) \ hollow, b \in Holds[l]
        PROVE  b \in raced' \cup op'[r].live \cup op'[r].span \cup op'[r].met
    BY <1>1, <1>2, <2>1 DEF Marked
  <2>2. CASE m \in objects
    BY <1>1, <2>1, <2>2
  <2>3. CASE m \notin objects
    <3>1. PICK p \in Proc :
            /\ op[p].stage = "store"
            /\ \/ \E l \in (Manifest \cap objects) \ hollow : b \in Holds[l]
               \/ b \in raced
               \/ b \in objects /\ b \in op[p].span
      BY <2>3, NewManifests
    <3>2. op[p].span \subseteq op[r].span \cup op[r].met
      BY <1>2, <3>1 DEF Young
    <3> QED
      BY <1>1, <1>2, <2>1, <3>1, <3>2
  <2> QED
    BY <2>2, <2>3
<1>3. ASSUME NEW p \in Proc, Beginning(p)
      PROVE  /\ op[r].stage = "blobs" /\ op'[r].live = op[r].live /\ op'[r].met = op[r].met
             /\ op[r].span \subseteq op'[r].span
  <2>1. r # p
    BY <1>3, WhoIsJudging
  <2>2. Keeps(op'[r], op[r], {"lent", "quiet"})
    BY <1>3, <2>1, BeginningStarts DEF Starts
  <2> QED
    BY <2>2 DEF Keeps, Fields
<1>4. ASSUME NEW p \in Proc, p # r, Publishing(p) \/ Sweeping(p) \/ Crash(p)
      PROVE  /\ op[r].stage = "blobs" /\ op'[r].live = op[r].live /\ op'[r].met = op[r].met
             /\ op[r].span \subseteq op'[r].span
  <2>1. PICK file, record \in SUBSET File : Others(p, file, record)
    BY <1>4, OthersOnlyAge
  <2>2. Keeps(op'[r], op[r], {"span", "renewed"})
    BY <1>4, <2>1 DEF Others
  <2>3. op[r].stage = "blobs" /\ op'[r].live = op[r].live /\ op'[r].met = op[r].met
    BY <2>2 DEF Keeps, Fields
  <2>4. Ages(op'[r], op[r], file, record)
    BY <1>4, <2>1, <2>3 DEF Others
  <2> QED
    BY <2>3, <2>4 DEF Ages
<1>5. ASSUME NEW o \in Object, Condemn(r, o) \/ Unlink(r, o)
      PROVE  /\ op[r].stage = "blobs" /\ op'[r].live = op[r].live /\ op'[r].met = op[r].met
             /\ op[r].span \subseteq op'[r].span
  <2>1. \/ Goes(r, {"condemned", "doomed", "todo"}, {}, {})
        \/ Goes(r, {"condemned"}, {}, {})
    BY <1>5, CondemnSteps, UnlinkSteps
  <2> QED
    BY <2>1 DEF Goes, Keeps, Fields, Ages
<1>6. ASSUME Mark(r)
      PROVE  b \in op'[r].live
  <2>1. op'[r].live = Named /\ objects' = objects
    BY <1>6, MarkSteps, StoppedIsIdle DEF Mark
  <2> QED
    BY <2>1 DEF Named
<1>7. ~ HoldRoots(r)
  BY HoldRootsSteps
<1>8. ASSUME UNCHANGED op
      PROVE  /\ op[r].stage = "blobs" /\ op'[r].live = op[r].live /\ op'[r].met = op[r].met
             /\ op[r].span \subseteq op'[r].span
  BY <1>8
<1>9. ASSUME Beginning(r) \/ Publishing(r) \/ Sweeping(r) \/ Crash(r)
      PROVE  Mark(r) \/ \E o \in Object : Condemn(r, o) \/ Unlink(r, o)
  BY <1>7, <1>9, WhoIsJudging
<1> QED
  BY <1>2, <1>3, <1>4, <1>5, <1>6, <1>8, <1>9, NextSteps DEF vars, Settle

-----------------------------------------------------------------------------
(* The manifests that logs name. *)

\* What a fork carries is there, or was raced away.
CarriedThere == \A q \in Proc : ManifestsIn(op[q].entries) \subseteq objects \cup raced

\* A sweep knows of every manifest a log names that it has read, or that was
\* written since: it has read the name there, or seen the manifest touched, or
\* noted that a fork carries it.
SweptLogs ==
    \A r \in Proc : op[r].stage \in {"roots", "orphans", "turns", "manifests"} =>
       \A s \in DOMAIN log :
          \/ op[r].stage = "roots" /\ s \in op[r].unread
          \/ ManifestsIn(log[s])
               \subseteq op[r].live \cup op[r].span \cup op[r].met \cup op[r].lent \cup raced

\* Where the manifests and the turns in a log come from.
LEMMA WhereNamesComeFrom ==
    ASSUME Typed, Writers, [Next]_vars, NEW s \in DOMAIN log'
    PROVE  /\ \A m \in ManifestsIn(log'[s]) :
                \/ s \in DOMAIN log /\ m \in ManifestsIn(log[s])
                \/ \E p \in Proc :
                     /\ Publishing(p)
                     /\ \/ op[p].stage = "store" /\ m \in raced \cup (objects \cap op[p].span)
                        \/ m \in ManifestsIn(op[p].entries)
           /\ \A t \in TurnsIn(log'[s]) :
                \/ s \in DOMAIN log /\ t \in TurnsIn(log[s])
                \/ \E p \in Proc : AppendEntry(p) /\ t = op[p].turn
                \/ \E p \in Proc : Publishing(p) /\ t \in TurnsIn(op[p].entries)
<1>1. ASSUME NEW p \in Proc, AppendEntry(p)
      PROVE  op[p].stage = "store" /\ op[p].manifest \in raced \cup (objects \cap op[p].span)
  <2>1. op[p].manifest \in Manifest
    BY <1>1, AppendSteps
  <2>2. \A l \in op[p].base : op[p].manifest \notin Holds[l]
    BY <2>1, HoldsAssumption, ObjectAssumption DEF Typed, Shaped, Operation
  <2> QED
    BY <1>1, <2>2 DEF AppendEntry, Writers
<1>2. ASSUME NEW p \in Proc, Publishing(p)
      PROVE  /\ \A m \in ManifestsIn(log'[s]) :
                  \/ s \in DOMAIN log /\ m \in ManifestsIn(log[s])
                  \/ AppendEntry(p) /\ m = op[p].manifest
                  \/ m \in ManifestsIn(op[p].entries)
             /\ \A t \in TurnsIn(log'[s]) :
                  \/ s \in DOMAIN log /\ t \in TurnsIn(log[s])
                  \/ AppendEntry(p) /\ t = op[p].turn
                  \/ t \in TurnsIn(op[p].entries)
  BY <1>2, LogsGrow
<1>3. ASSUME NEW p \in Proc, Beginning(p) \/ Sweeping(p) \/ Crash(p)
      PROVE  s \in DOMAIN log /\ log'[s] = log[s]
  BY <1>3, SweepingFiles DEF Beginning, Crash, Within
<1>4. ASSUME UNCHANGED vars \/ \E f \in File : Settle(f)
      PROVE  s \in DOMAIN log /\ log'[s] = log[s]
  BY <1>4 DEF vars, Settle
<1>5. CASE s \in DOMAIN log /\ log'[s] = log[s]
  BY <1>5
<1>6. CASE \E p \in Proc : Publishing(p)
  BY <1>1, <1>2, <1>6
<1> QED
  BY <1>3, <1>4, <1>5, <1>6, NextSteps

\* Who is reading the roots after a step, and how it got there.
LEMMA WhoIsReading ==
    ASSUME Typed, NEW p \in Proc, op'[p].stage \in {"roots", "orphans", "turns"}
    PROVE  /\ ~ Publishing(p) /\ ~ Crash(p)
           /\ Beginning(p) => Collect(p)
           /\ Sweeping(p) =>
                \/ UnlinkLog(p) \/ ListOrphans(p) \/ OrphansGone(p)
                \/ \E s \in Session : ReadLog(p, s) \/ RemoveOrphan(p, s)
                \/ \E t \in TurnKey : CondemnTurn(p, t) \/ RemoveTurn(p, t)
<1>0. ~ Stops(p, {}, {})
  BY StoppedIsIdle
<1>1. ~ Publishing(p)
  BY PublishingSteps DEF Publishes
<1>2. ASSUME Beginning(p)
      PROVE  Collect(p)
  BY <1>2, ForkStarts, DeleteStarts DEF Beginning, StartsSaving
<1>3. ~ Crash(p)
  BY <1>0, EndSteps
<1>4. ~ LockDoomed(p) /\ ~ UnlinkUndo(p) /\ ~ Swept(p)
  BY <1>0, LockDoomedSteps, UnlinkUndoSteps, EndSteps
<1>5. ~ HoldRoots(p) /\ ~ MissRoots(p) /\ ~ Mark(p)
  BY <1>0, HoldRootsSteps, MissRootsSteps, MarkSteps
<1>6. ASSUME NEW o \in Object, Condemn(p, o) \/ Unlink(p, o)
      PROVE  FALSE
  <2>1. /\ op[p].stage \in {"manifests", "blobs"}
        /\ \/ Goes(p, {"condemned", "doomed", "todo"}, {}, {})
           \/ Goes(p, {"condemned"}, {}, {})
    BY <1>6, CondemnSteps, UnlinkSteps
  <2> QED
    BY <2>1 DEF Goes, Keeps, Fields
<1> QED
  BY <1>1, <1>2, <1>3, <1>4, <1>5, <1>6 DEF Sweeping

\* A sweep that has come to a stage of its reading lists every log there, or
\* has read it just now, or had dealt with it before and forgets nothing.
LEMMA ReadingGoesOn ==
    ASSUME Typed, NEW r \in Proc,
           op'[r].stage \in {"roots", "orphans", "turns", "manifests"}, Sweeping(r),
           NEW s \in DOMAIN log'
    PROVE  /\ s \in DOMAIN log /\ log'[s] = log[s]
           /\ \/ op'[r].stage = "roots" /\ s \in op'[r].unread
              \/ ManifestsIn(log[s]) \subseteq op'[r].live /\ TurnsIn(log[s]) \subseteq op'[r].liveTurns
              \/ /\ op[r].stage \in {"roots", "orphans", "turns", op'[r].stage}
                 /\ op[r].stage = "roots" => s \notin op[r].unread
                 /\ op[r].live \subseteq op'[r].live /\ op[r].liveTurns \subseteq op'[r].liveTurns
                 /\ op[r].span \subseteq op'[r].span /\ op[r].met = op'[r].met
                 /\ op[r].lent = op'[r].lent
<1>0. s \in Session /\ s \in DOMAIN log /\ log'[s] = log[s]
  BY SweepingFiles DEF Typed, TypeOK, Within
<1> DEFINE Forgets == ~ /\ op[r].live \subseteq op'[r].live
                        /\ op[r].liveTurns \subseteq op'[r].liveTurns
                        /\ op[r].span \subseteq op'[r].span /\ op[r].met = op'[r].met
                        /\ op[r].lent = op'[r].lent
<1>1. CASE UnlinkLog(r)
  BY <1>0, <1>1, UnlinkLogSteps
<1>2. CASE ListOrphans(r)
  <2>1. /\ Goes(r, {"stage"}, {}, {}) \/ Goes(r, {"stage", "condemned"}, {}, {})
        /\ op[r].stage = "roots" /\ op[r].unread = {}
    BY <1>2, ListOrphansSteps
  <2>2. ~ Forgets
    BY <2>1 DEF Goes, Keeps, Fields, Ages
  <2> QED
    BY <1>0, <2>1, <2>2
<1>3. CASE OrphansGone(r)
  <2>1. Goes(r, {"stage"}, {}, {}) /\ op[r].stage = "orphans"
    BY <1>3, OrphansGoneSteps
  <2>2. ~ Forgets
    BY <2>1 DEF Goes, Keeps, Fields, Ages
  <2> QED
    BY <1>0, <2>1, <2>2
<1>4. ASSUME NEW u \in Session, ReadLog(r, u)
      PROVE  /\ \/ op'[r].stage = "roots" /\ s \in op'[r].unread
                \/ /\ ManifestsIn(log[s]) \subseteq op'[r].live
                   /\ TurnsIn(log[s]) \subseteq op'[r].liveTurns
                \/ op[r].stage = "roots" /\ s \notin op[r].unread /\ ~ Forgets
  <2>1. /\ op[r].stage = "roots" /\ Goes(r, {"unread", "live", "liveTurns"}, {}, {})
        /\ op'[r].unread = op[r].unread \ {u}
        /\ op'[r].live = op[r].live \cup ManifestsIn(log[u])
        /\ op'[r].liveTurns = op[r].liveTurns \cup TurnsIn(log[u])
    BY <1>4, ReadLogSteps, StoppedIsIdle
  <2>2. /\ op'[r].stage = "roots" /\ op[r].span \subseteq op'[r].span
        /\ op[r].met = op'[r].met /\ op[r].lent = op'[r].lent
    BY <2>1 DEF Goes, Keeps, Fields, Ages
  <2> QED
    BY <2>1, <2>2
<1>5. ASSUME NEW u \in Session, RemoveOrphan(r, u)
      PROVE  op[r].stage = "orphans" /\ ~ Forgets
  <2>1. Goes(r, {"condemned"}, {}, {}) /\ op[r].stage = "orphans"
    BY <1>5, RemoveOrphanSteps
  <2> QED
    BY <2>1 DEF Goes, Keeps, Fields, Ages
<1>6. ASSUME NEW t \in TurnKey, CondemnTurn(r, t) \/ RemoveTurn(r, t)
      PROVE  op[r].stage = "turns" /\ ~ Forgets
  <2>1. /\ Goes(r, {"condemned", "doomedTurns"}, {}, {}) \/ Goes(r, {"condemned"}, {}, {})
        /\ op[r].stage = "turns"
    BY <1>6, CondemnTurnSteps, RemoveTurnSteps
  <2> QED
    BY <2>1 DEF Goes, Keeps, Fields, Ages
<1>7. CASE HoldRoots(r)
  <2>1. /\ Goes(r, {"stage", "live", "doomed"}, {}, {}) /\ op[r].stage = "turns"
        /\ op'[r].live = op[r].live \cup Roots
    BY <1>7, HoldRootsSteps
  <2>2. ~ Forgets
    BY <2>1 DEF Goes, Keeps, Fields, Ages
  <2> QED
    BY <1>0, <2>1, <2>2
<1>8. ASSUME NEW o \in Object, Condemn(r, o) \/ Unlink(r, o)
      PROVE  /\ op[r].stage \in {"manifests", "blobs"} /\ op[r].stage = op'[r].stage
             /\ ~ Forgets
  <2>1. /\ \/ Goes(r, {"condemned", "doomed", "todo"}, {}, {})
           \/ Goes(r, {"condemned"}, {}, {})
        /\ op[r].stage \in {"manifests", "blobs"}
    BY <1>8, CondemnSteps, UnlinkSteps
  <2> QED
    BY <2>1 DEF Goes, Keeps, Fields, Ages
<1>9. ~ Mark(r)
  BY MarkSteps, StoppedIsIdle
<1>10. CASE op'[r].stage = "manifests"
  BY <1>0, <1>7, <1>8, <1>9, <1>10, WhoIsJudging
<1>11. CASE op'[r].stage # "manifests"
  BY <1>0, <1>1, <1>2, <1>3, <1>4, <1>5, <1>6, <1>11, WhoIsReading
<1> QED
  BY <1>10, <1>11

\* An operation that does not take the step itself is what it was, and only
\* sees more.
Stays(r) ==
    /\ Keeps(op'[r], op[r], {"span", "renewed", "lent", "quiet"})
    /\ op[r].stage # "idle" => op[r].span \subseteq op'[r].span
    /\ Sweeper(op[r]) => op[r].lent \subseteq op'[r].lent
    /\ op[r].condemned # {} \/ op[r].stage = "create" =>
         /\ op[r].renewed \subseteq op'[r].renewed
         /\ op'[r].span \subseteq op[r].span \cup op'[r].renewed

\* Each does so, or takes a step.
LEMMA StaysOrSteps ==
    ASSUME Typed, [Next]_vars, NEW r \in Proc
    PROVE  Stays(r) \/ Beginning(r) \/ Publishing(r) \/ Sweeping(r) \/ Crash(r)
<1>1. ASSUME NEW p \in Proc, p # r, Beginning(p)
      PROVE  Stays(r)
  <2>1. /\ Keeps(op'[r], op[r], {"lent", "quiet"})
        /\ Sweeper(op[r]) => op[r].lent \subseteq op'[r].lent
    BY <1>1, BeginningStarts DEF Starts
  <2>2. op'[r].span = op[r].span /\ op'[r].renewed = op[r].renewed
    BY <2>1 DEF Keeps, Fields
  <2> QED
    BY <2>1, <2>2 DEF Stays, Keeps
<1>2. ASSUME NEW p \in Proc, p # r, Publishing(p) \/ Sweeping(p) \/ Crash(p)
      PROVE  Stays(r)
  <2>1. PICK file, record \in SUBSET File : Others(p, file, record)
    BY <1>2, OthersOnlyAge
  <2>2. /\ Keeps(op'[r], op[r], {"span", "renewed"})
        /\ op[r].stage # "idle" => Ages(op'[r], op[r], file, record)
    BY <1>2, <2>1 DEF Others
  <2>3. /\ op'[r].lent = op[r].lent /\ op'[r].condemned = op[r].condemned
        /\ op'[r].stage = op[r].stage
    BY <2>2 DEF Keeps, Fields
  <2>4. op[r].condemned # {} \/ op[r].stage = "create" => op[r].stage # "idle"
    BY IdleIsEmpty DEF Typed
  <2> QED
    BY <2>2, <2>3, <2>4 DEF Stays, Keeps, Ages
<1>3. ASSUME UNCHANGED op
      PROVE  Stays(r)
  BY <1>3 DEF Stays, Keeps
<1> QED
  BY <1>1, <1>2, <1>3, NextSteps DEF vars, Settle

\* What an operation carries after a step, it carried before, or it is a fork
\* that has just read it in a log.
LEMMA WhereEntriesComeFrom ==
    ASSUME Typed, [Next]_vars, NEW q \in Proc
    PROVE  \/ ToSet(op'[q].entries) \subseteq ToSet(op[q].entries)
           \/ /\ Beginning(q)
              /\ \E s \in DOMAIN log : /\ ManifestsIn(op'[q].entries) \subseteq ManifestsIn(log[s])
                                       /\ TurnsIn(op'[q].entries) \subseteq TurnsIn(log[s])
<1>0. ToSet(<<>>) = {}
  BY DEF ToSet
<1>1. CASE Stays(q)
  <2>1. op'[q].entries = op[q].entries
    BY <1>1 DEF Stays, Keeps, Fields
  <2> QED
    BY <2>1
<1>2. CASE Publishing(q) \/ Sweeping(q) \/ Crash(q)
  <2>1. PICK file, record \in SUBSET File : Flows(file, record)
    BY <1>2, StepsFlow
  <2>2. CASE op'[q].stage = "idle"
    <3>1. Shaped(op'[q])
      BY <1>2, StepsFlow, OthersOnlyAge DEF Others
    <3>2. op'[q].entries = <<>>
      BY <2>2, <3>1, IdleIsEmpty
    <3> QED
      BY <1>0, <3>2
  <2> QED
    BY <2>1, <2>2 DEF Flows
<1>3. CASE Beginning(q)
  <2>1. ASSUME NEW src \in Session, NEW dst \in Session, NEW t \in Turn, Fork(q, src, dst, t)
        PROVE  \/ op'[q].entries = <<>>
               \/ \E s \in DOMAIN log :
                    /\ ManifestsIn(op'[q].entries) \subseteq ManifestsIn(log[s])
                    /\ TurnsIn(op'[q].entries) \subseteq TurnsIn(log[s])
    <3>1. /\ Len(op'[q].entries) <= Len(LogOf(src)) /\ LogOf(src) \in Seq(Entry)
          /\ \A i \in 1 .. Len(op'[q].entries) : op'[q].entries[i] = LogOf(src)[i]
          /\ Starts(q, {"kind", "stage", "session", "locked"}, op'[q].entries)
      BY <2>1, ForkStarts
    <3>2. op'[q].entries \in Seq(Entry)
      BY <3>1 DEF Starts, Shaped, Operation
    <3>3. /\ ManifestsIn(op'[q].entries) \subseteq ManifestsIn(LogOf(src))
          /\ TurnsIn(op'[q].entries) \subseteq TurnsIn(LogOf(src))
      BY <3>1, <3>2, FrontNames
    <3>4. CASE src \in DOMAIN log
      BY <3>3, <3>4, LogOfNames
    <3>5. CASE src \notin DOMAIN log
      <4>1. LogOf(src) = <<>>
        BY <3>5 DEF LogOf
      <4>2. Len(op'[q].entries) = 0
        BY <3>1, <3>2, <4>1
      <4> QED
        BY <3>2, <4>2, EmptySeq
    <3> QED
      BY <3>4, <3>5
  <2>2. ASSUME NEW s \in Session, StartsSaving(q, s) \/ Delete(q, s)
        PROVE  op'[q].entries = <<>>
    BY <2>2, DeleteStarts DEF StartsSaving, Starts
  <2>3. ASSUME Collect(q)
        PROVE  op'[q].entries = <<>>
    BY <2>3, CollectStarts DEF Starts
  <2>4. \/ op'[q].entries = <<>>
        \/ \E s \in DOMAIN log : /\ ManifestsIn(op'[q].entries) \subseteq ManifestsIn(log[s])
                                 /\ TurnsIn(op'[q].entries) \subseteq TurnsIn(log[s])
    BY <1>3, <2>1, <2>2, <2>3 DEF Beginning
  <2> QED
    BY <1>0, <1>3, <2>4
<1> QED
  BY <1>1, <1>2, <1>3, StaysOrSteps

\* What a fork carries stays.
LEMMA CarriedThereNext ==
    ASSUME Typed, Young, Lent, Judged, CarriedThere, LogsResolve, [Next]_vars
    PROVE  CarriedThere'
<1> SUFFICES ASSUME NEW q \in Proc, NEW m \in ManifestsIn(op'[q].entries)
             PROVE  m \in objects' \cup raced'
  BY DEF CarriedThere
<1>1. raced \subseteq raced'
  BY HistoryGrows
<1>2. CASE ToSet(op'[q].entries) \subseteq ToSet(op[q].entries)
  <2>1. m \in ManifestsIn(op[q].entries)
    BY <1>2, FewerCarryLess
  <2>2. m \in objects \cup raced /\ m \in Carried(op[q].entries)
    BY <2>1 DEF CarriedThere, Carried
  <2> QED
    BY <1>1, <2>2, OnlySpurnedGo DEF Spurned
<1>3. ASSUME Beginning(q), NEW s \in DOMAIN log, m \in ManifestsIn(log[s])
      PROVE  m \in objects' \cup raced'
  BY <1>3 DEF Beginning, LogsResolve
<1> QED
  BY <1>2, <1>3, WhereEntriesComeFrom

\* A sweep goes on knowing what logs name.
LEMMA SweptLogsNext ==
    ASSUME Typed, Typed', Young, Lent, Writers, SweptLogs, [Next]_vars
    PROVE  SweptLogs'
<1> SUFFICES ASSUME NEW r \in Proc, op'[r].stage \in {"roots", "orphans", "turns", "manifests"},
                    NEW s \in DOMAIN log',
                    ~ (op'[r].stage = "roots" /\ s \in op'[r].unread),
                    NEW m \in ManifestsIn(log'[s])
             PROVE  m \in op'[r].live \cup op'[r].span \cup op'[r].met \cup op'[r].lent \cup raced'
  BY DEF SweptLogs
<1>1. raced \subseteq raced'
  BY HistoryGrows
<1>2. CASE Stays(r)
  <2>1. /\ op'[r].stage = op[r].stage /\ op'[r].unread = op[r].unread
        /\ op'[r].live = op[r].live /\ op'[r].met = op[r].met
    BY <1>2 DEF Stays, Keeps, Fields
  <2>2. Sweeper(op[r])
    BY <2>1 DEF Typed, Shaped, KindAndStage, Sweeper
  <2>3. op[r].span \subseteq op'[r].span /\ op[r].lent \subseteq op'[r].lent
    BY <1>2, <2>1, <2>2 DEF Stays
  <2>4. CASE s \in DOMAIN log /\ m \in ManifestsIn(log[s])
    BY <1>1, <2>1, <2>3, <2>4 DEF SweptLogs
  <2>5. ASSUME NEW p \in Proc, op[p].stage = "store", m \in raced \cup (objects \cap op[p].span)
        PROVE  m \in raced \cup op[r].span \cup op[r].met
    BY <2>1, <2>5 DEF Young
  <2>6. ASSUME NEW p \in Proc, m \in ManifestsIn(op[p].entries)
        PROVE  m \in op[r].lent
    BY <2>2, <2>6 DEF Lent, Carried
  <2> QED
    BY <1>1, <2>1, <2>3, <2>4, <2>5, <2>6, WhereNamesComeFrom
<1>3. CASE Sweeping(r)
  <2>1. s \in DOMAIN log /\ log'[s] = log[s]
    BY <1>3, ReadingGoesOn
  <2>2. CASE ManifestsIn(log[s]) \subseteq op'[r].live
    BY <2>1, <2>2
  <2>3. CASE /\ op[r].stage \in {"roots", "orphans", "turns", op'[r].stage}
             /\ op[r].stage = "roots" => s \notin op[r].unread
             /\ op[r].live \subseteq op'[r].live /\ op[r].span \subseteq op'[r].span
             /\ op[r].met = op'[r].met /\ op[r].lent = op'[r].lent
    BY <1>1, <2>1, <2>3 DEF SweptLogs
  <2> QED
    BY <1>3, <2>2, <2>3, ReadingGoesOn
<1>4. CASE Beginning(r)
  <2>1. Collect(r) /\ op'[r].stage = "roots" /\ op'[r].unread = DOMAIN log
    BY <1>4, WhoIsReading, WhoIsJudging, CollectStarts
  <2> QED
    BY <1>4, <2>1 DEF Beginning
<1>5. ~ Publishing(r) /\ ~ Crash(r)
  BY WhoIsReading, WhoIsJudging
<1> QED
  BY <1>2, <1>3, <1>4, <1>5, StaysOrSteps

\* No log comes to name a manifest that is gone.
LEMMA LogsResolveNext ==
    ASSUME Typed, Young, Lent, Judged, Writers, CarriedThere, SweptLogs, LogsResolve, [Next]_vars
    PROVE  LogsResolve'
<1> SUFFICES ASSUME NEW s \in DOMAIN log', NEW m \in ManifestsIn(log'[s]),
                    m \notin objects' \cup raced'
             PROVE  FALSE
  BY DEF LogsResolve
<1>1. raced \subseteq raced'
  BY HistoryGrows
<1>2. CASE s \in DOMAIN log /\ m \in ManifestsIn(log[s])
  <2>1. m \in objects /\ m \in Manifest
    BY <1>1, <1>2, EntriesName DEF LogsResolve, Typed, TypeOK
  <2>2. PICK r \in Proc : Spurned(r, m)
    BY <2>1, OnlySpurnedGo
  <2>3. op[r].stage = "manifests"
    BY <2>1, <2>2, ObjectAssumption DEF Spurned, Typed, Shaped, Equipped
  <2>4. m \in op[r].live \cup op[r].span \cup op[r].met \cup op[r].lent \cup raced
    BY <1>2, <2>3 DEF SweptLogs
  <2> QED
    BY <1>1, <2>2, <2>4 DEF Spurned
<1>3. ASSUME NEW p \in Proc, Publishing(p), m \in raced \cup objects
      PROVE  FALSE
  BY <1>1, <1>3, PublishingFiles
<1>4. \A p \in Proc : ManifestsIn(op[p].entries) \subseteq raced \cup objects
  BY DEF CarriedThere
<1> QED
  BY <1>2, <1>3, <1>4, WhereNamesComeFrom

-----------------------------------------------------------------------------
(* The turns that logs list. *)

\* The turn is about to be indexed.
Pending(t) == \E p \in Proc : op[p].stage = "index" /\ op[p].turn = t

\* The turn is indexed or about to be, or never will be, or was raced away.
Resolved(t) == t \in DOMAIN turns \/ TurnFile(t) \in raced \/ t \in cut \/ Pending(t)

\* What a fork carries resolves.
CarriedTurns == \A q \in Proc : \A t \in TurnsIn(op[q].entries) : Resolved(t)

\* A sweep knows of every turn a log lists that it has read, or that was
\* written since, or it has yet to see it indexed.
SweptTurns ==
    \A r \in Proc : op[r].stage \in {"roots", "orphans", "turns"} =>
       \A s \in DOMAIN log :
          \/ op[r].stage = "roots" /\ s \in op[r].unread
          \/ \A t \in TurnsIn(log[s]) :
               \/ t \in op[r].liveTurns \cup cut
               \/ TurnFile(t) \in op[r].span \cup op[r].lent \cup raced
               \/ Pending(t)

\* A turn that a sweep has condemned was listed by no log it read, and if
\* collection has seen it touched, its check is stale.
JudgedTurns ==
    \A r \in Proc : op[r].stage = "turns" =>
       \A t \in TurnKey : TurnFile(t) \in op[r].condemned =>
          /\ t \notin op[r].liveTurns
          /\ op[r].kind = "collect" /\ TurnFile(t) \in op[r].span =>
               TurnFile(t) \in op[r].renewed

\* A turn that is about to be indexed is indexed next, which every operation
\* under way sees, or its capture dies.
LEMMA PendingEnds ==
    ASSUME Typed, [Next]_vars, NEW t, Pending(t), ~ Pending(t)'
    PROVE  \/ t \in cut'
           \/ /\ t \in DOMAIN turns'
              /\ \A r \in Proc : op[r].stage \notin {"idle", "index"} =>
                                    TurnFile(t) \in op'[r].span
<1>1. PICK p \in Proc : op[p].stage = "index" /\ op[p].turn = t
  BY DEF Pending
<1>2. ~ Stays(p)
  <2> SUFFICES ASSUME Stays(p) PROVE FALSE
    OBVIOUS
  <2>1. op'[p].stage = "index" /\ op'[p].turn = t
    BY <1>1 DEF Stays, Keeps, Fields
  <2> QED
    BY <2>1 DEF Pending
<1>3. ~ Beginning(p) /\ ~ Sweeping(p)
  BY <1>1, BeginningStarts, SweepingSteps DEF Starts, Sweeps
<1>4. CASE Crash(p)
  BY <1>1, <1>4 DEF Crash
<1>5. CASE Publishing(p)
  <2>1. SetTurn(p)
    <3>1. \A o \in Object : ~ Store(p, o) /\ ~ Freshen(p, o)
      BY <1>1, FreshenSteps DEF Store
    <3> QED
      BY <1>1, <1>5, <3>1 DEF Publishing, AppendEntry, Ensure, Create, ReadStack, Push, ReadRecord, Pop, Inherit
  <2>2. t \in DOMAIN turns'
    BY <1>1, <2>1 DEF SetTurn, With
  <2>3. Others(p, {TurnFile(t)}, {})
    BY <1>1, <2>1, SetTurnSteps DEF Goes, Stops
  <2> QED
    BY <1>1, <2>2, <2>3 DEF Others, Ages
<1> QED
  BY <1>2, <1>3, <1>4, <1>5, StaysOrSteps

\* Only the removal of its entry by a sweep that has not seen it renewed keeps
\* a turn from resolving any longer.
LEMMA ResolvedUntilRemoved ==
    ASSUME Typed, [Next]_vars, NEW t, Resolved(t), ~ Resolved(t)'
    PROVE  /\ t \in DOMAIN turns /\ t \notin DOMAIN turns' /\ log' = log
           /\ \E p \in Proc :
                /\ op[p].stage = "turns" /\ TurnFile(t) \in op[p].condemned
                /\ t \in TurnKey /\ ~ TurnRenewed(p, t)
           /\ TurnFile(t) \notin raced /\ t \notin cut /\ ~ Pending(t)
<1>1. TurnFile(t) \notin raced' /\ t \notin cut' /\ t \notin DOMAIN turns' /\ ~ Pending(t)'
  BY DEF Resolved
<1>2. TurnFile(t) \notin raced /\ t \notin cut /\ ~ Pending(t)
  BY <1>1, HistoryGrows, PendingEnds
<1>3. t \in DOMAIN turns
  BY <1>2 DEF Resolved
<1>4. PICK p \in Proc : Sweeping(p)
  <2>1. ASSUME NEW p \in Proc, Beginning(p) \/ Publishing(p) \/ Crash(p)
        PROVE  FALSE
    BY <1>1, <1>3, <2>1, PublishingFiles DEF Beginning, Crash
  <2>2. ASSUME UNCHANGED vars \/ \E f \in File : Settle(f)
        PROVE  FALSE
    BY <1>1, <1>3, <2>2 DEF vars, Settle
  <2> QED
    BY <2>1, <2>2, NextSteps
<1>5. PICK x \in TurnKey : RemoveTurn(p, x)
  BY <1>1, <1>3, <1>4 DEF Sweeping, LockDoomed, UnlinkUndo, UnlinkLog, ReadLog, RemoveOrphan,
     ListOrphans, OrphansGone, HoldRoots, MissRoots, Mark, Swept, CondemnTurn, Condemn, Unlink
<1>6. turns' = Without(turns, x)
  BY <1>5 DEF RemoveTurn
<1>7. t = x
  BY <1>1, <1>3, <1>6 DEF Without
<1> QED
  BY <1>1, <1>2, <1>3, <1>5, <1>7 DEF RemoveTurn

\* A turn that a sweep condemns it has not read, and a later touch it sees.
LEMMA JudgedTurnsNext ==
    ASSUME Typed, Young, JudgedTurns, [Next]_vars
    PROVE  JudgedTurns'
<1> SUFFICES ASSUME NEW r \in Proc, op'[r].stage = "turns",
                    NEW t \in TurnKey, TurnFile(t) \in op'[r].condemned
             PROVE  /\ t \notin op'[r].liveTurns
                    /\ op'[r].kind = "collect" /\ TurnFile(t) \in op'[r].span =>
                         TurnFile(t) \in op'[r].renewed
  BY DEF JudgedTurns
<1>1. CASE Stays(r)
  <2>1. /\ op'[r].stage = op[r].stage /\ op'[r].condemned = op[r].condemned
        /\ op'[r].liveTurns = op[r].liveTurns /\ op'[r].kind = op[r].kind
    BY <1>1 DEF Stays, Keeps, Fields
  <2>2. /\ op[r].renewed \subseteq op'[r].renewed
        /\ op'[r].span \subseteq op[r].span \cup op'[r].renewed
    BY <1>1, <2>1 DEF Stays
  <2> QED
    BY <2>1, <2>2 DEF JudgedTurns
<1>2. ASSUME NEW x \in TurnKey, CondemnTurn(r, x)
      PROVE  /\ t \notin op'[r].liveTurns
             /\ op'[r].kind = "collect" /\ TurnFile(t) \in op'[r].span =>
                  TurnFile(t) \in op'[r].renewed
  <2>1. /\ DeadTurn(r, x) /\ Goes(r, {"condemned", "doomedTurns"}, {}, {})
        /\ op'[r].condemned = {TurnFile(x)}
    BY <1>2, CondemnTurnSteps
  <2>2. x = t
    BY <2>1 DEF TurnFile
  <2>3. /\ op'[r].liveTurns = op[r].liveTurns /\ op'[r].kind = op[r].kind
        /\ op'[r].span = op[r].span
    BY <2>1 DEF Goes, Keeps, Fields, Ages
  <2> QED
    BY <2>1, <2>2, <2>3 DEF DeadTurn, Young
<1>3. \A x \in TurnKey : ~ RemoveTurn(r, x)
  BY RemoveTurnSteps
<1>4. ~ ListOrphans(r)
  <2> SUFFICES ASSUME ListOrphans(r) PROVE FALSE
    OBVIOUS
  <2>1. Goes(r, {"stage"}, {}, {}) /\ op[r].stage = "roots"
    BY ListOrphansSteps
  <2>2. op[r].condemned = {}
    BY <2>1 DEF Typed, Shaped, Equipped
  <2> QED
    BY <2>1, <2>2 DEF Goes, Keeps, Fields
<1>5. ~ OrphansGone(r)
  <2> SUFFICES ASSUME OrphansGone(r) PROVE FALSE
    OBVIOUS
  <2>1. Goes(r, {"stage"}, {}, {}) /\ op[r].condemned = {}
    BY OrphansGoneSteps
  <2> QED
    BY <2>1 DEF Goes, Keeps, Fields
<1>6. ~ UnlinkLog(r) /\ ~ Collect(r)
  BY UnlinkLogSteps, CollectStarts
<1>7. ASSUME NEW s \in Session, ReadLog(r, s) \/ RemoveOrphan(r, s)
      PROVE  FALSE
  <2>1. /\ op[r].stage \in {"roots", "orphans"}
        /\ \/ Goes(r, {"unread", "live", "liveTurns"}, {}, {})
           \/ Goes(r, {"condemned"}, {}, {})
    BY <1>7, ReadLogSteps, RemoveOrphanSteps, StoppedIsIdle
  <2> QED
    BY <2>1 DEF Goes, Keeps, Fields
<1> QED
  BY <1>1, <1>2, <1>3, <1>4, <1>5, <1>6, <1>7, StaysOrSteps, WhoIsReading

\* What a fork carries goes on resolving.
LEMMA CarriedTurnsNext ==
    ASSUME Typed, Lent, CarriedTurns, TurnsResolve, [Next]_vars
    PROVE  CarriedTurns'
<1> SUFFICES ASSUME NEW q \in Proc, NEW t \in TurnsIn(op'[q].entries), ~ Resolved(t)'
             PROVE  FALSE
  BY DEF CarriedTurns
<1>1. CASE ToSet(op'[q].entries) \subseteq ToSet(op[q].entries)
  <2>1. t \in TurnsIn(op[q].entries)
    BY <1>1, FewerCarryLess
  <2>2. Resolved(t) /\ TurnFile(t) \in Carried(op[q].entries)
    BY <2>1 DEF CarriedTurns, Carried
  <2>3. PICK p \in Proc : op[p].stage = "turns" /\ ~ TurnRenewed(p, t)
    BY <2>2, ResolvedUntilRemoved
  <2>4. Sweeper(op[p])
    BY <2>3 DEF Typed, Shaped, KindAndStage
  <2> QED
    BY <2>2, <2>3, <2>4 DEF Lent, TurnRenewed
<1>2. ASSUME Beginning(q), NEW s \in DOMAIN log, t \in TurnsIn(log[s])
      PROVE  FALSE
  <2>1. Resolved(t)
    BY <1>2 DEF TurnsResolve, Resolved, Pending
  <2> QED
    BY <1>2, <2>1, ResolvedUntilRemoved DEF Beginning
<1> QED
  BY <1>1, <1>2, WhereEntriesComeFrom

\* A sweep goes on knowing of the turns that logs list.
LEMMA SweptTurnsNext ==
    ASSUME Typed, Lent, Writers, SweptTurns, [Next]_vars
    PROVE  SweptTurns'
<1> DEFINE Known(r, t) == \/ t \in op'[r].liveTurns \cup cut'
                          \/ TurnFile(t) \in op'[r].span \cup op'[r].lent \cup raced'
                          \/ Pending(t)'
<1> SUFFICES ASSUME NEW r \in Proc, op'[r].stage \in {"roots", "orphans", "turns"},
                    NEW s \in DOMAIN log',
                    ~ (op'[r].stage = "roots" /\ s \in op'[r].unread),
                    NEW t \in TurnsIn(log'[s])
             PROVE  Known(r, t)
  BY DEF SweptTurns
<1>1. raced \subseteq raced' /\ cut \subseteq cut'
  BY HistoryGrows
<1>2. ASSUME op[r].stage \in {"roots", "orphans", "turns"},
             op[r].liveTurns \subseteq op'[r].liveTurns, op[r].span \subseteq op'[r].span,
             op[r].lent \subseteq op'[r].lent, s \in DOMAIN log, t \in TurnsIn(log[s]),
             op[r].stage = "roots" => s \notin op[r].unread
      PROVE  Known(r, t)
  <2>1. \/ t \in op[r].liveTurns \cup cut
        \/ TurnFile(t) \in op[r].span \cup op[r].lent \cup raced
        \/ Pending(t)
    BY <1>2 DEF SweptTurns
  <2>2. Pending(t) => Known(r, t)
    BY <1>2, PendingEnds
  <2> QED
    BY <1>1, <1>2, <2>1, <2>2
<1>3. CASE Stays(r)
  <2>1. /\ op'[r].stage = op[r].stage /\ op'[r].unread = op[r].unread
        /\ op'[r].liveTurns = op[r].liveTurns
    BY <1>3 DEF Stays, Keeps, Fields
  <2>2. Sweeper(op[r])
    BY <2>1 DEF Typed, Shaped, KindAndStage, Sweeper
  <2>3. op[r].span \subseteq op'[r].span /\ op[r].lent \subseteq op'[r].lent
    BY <1>3, <2>1, <2>2 DEF Stays
  <2>4. CASE s \in DOMAIN log /\ t \in TurnsIn(log[s])
    <3> HIDE DEF Known
    <3> QED
      BY <1>2, <2>1, <2>3, <2>4
  <2>5. ASSUME NEW p \in Proc, AppendEntry(p), t = op[p].turn
        PROVE  Pending(t)'
    <3>1. Goes(p, {"stage"}, {}, {LogFile(op[p].session)}) /\ op'[p].stage = "index"
      BY <2>5, AppendSteps
    <3>2. op'[p].turn = t
      BY <2>5, <3>1 DEF Goes, Keeps, Fields
    <3> QED
      BY <3>1, <3>2 DEF Pending
  <2>6. ASSUME NEW p \in Proc, t \in TurnsIn(op[p].entries)
        PROVE  TurnFile(t) \in op'[r].lent
    BY <2>2, <2>3, <2>6 DEF Lent, Carried
  <2> QED
    BY <2>4, <2>5, <2>6, WhereNamesComeFrom
<1>4. CASE Sweeping(r)
  <2>1. s \in DOMAIN log /\ log'[s] = log[s]
    BY <1>4, ReadingGoesOn
  <2>2. CASE TurnsIn(log[s]) \subseteq op'[r].liveTurns
    BY <2>1, <2>2
  <2>3. CASE /\ op[r].stage \in {"roots", "orphans", "turns", op'[r].stage}
             /\ op[r].stage = "roots" => s \notin op[r].unread
             /\ op[r].liveTurns \subseteq op'[r].liveTurns /\ op[r].span \subseteq op'[r].span
             /\ op[r].lent = op'[r].lent
    <3> HIDE DEF Known
    <3> QED
      BY <1>2, <2>1, <2>3
  <2> QED
    BY <1>4, <2>2, <2>3, ReadingGoesOn
<1>5. CASE Beginning(r)
  <2>1. Collect(r) /\ op'[r].stage = "roots" /\ op'[r].unread = DOMAIN log
    BY <1>5, WhoIsReading, CollectStarts
  <2> QED
    BY <1>5, <2>1 DEF Beginning
<1>6. ~ Publishing(r) /\ ~ Crash(r)
  BY WhoIsReading
<1> HIDE DEF Known
<1> QED
  BY <1>3, <1>4, <1>5, <1>6, StaysOrSteps

\* No log comes to list a turn that does not resolve.
LEMMA TurnsResolveNext ==
    ASSUME Typed, Writers, CarriedTurns, SweptTurns, JudgedTurns, TurnsResolve, [Next]_vars
    PROVE  TurnsResolve'
<1> SUFFICES ASSUME NEW s \in DOMAIN log', NEW t \in TurnsIn(log'[s]), ~ Resolved(t)'
             PROVE  FALSE
  BY DEF TurnsResolve, Resolved, Pending
<1>1. CASE s \in DOMAIN log /\ t \in TurnsIn(log[s])
  <2>1. Resolved(t)
    BY <1>1 DEF TurnsResolve, Resolved, Pending
  <2>2. PICK p \in Proc : /\ op[p].stage = "turns" /\ TurnFile(t) \in op[p].condemned
                          /\ t \in TurnKey /\ ~ TurnRenewed(p, t)
    BY <2>1, ResolvedUntilRemoved
  <2>3. TurnFile(t) \notin raced /\ t \notin cut /\ ~ Pending(t)
    BY <2>1, ResolvedUntilRemoved
  <2>4. t \notin op[p].liveTurns /\ (op[p].kind = "collect" /\ TurnFile(t) \in op[p].span =>
                                       TurnFile(t) \in op[p].renewed)
    BY <2>2 DEF JudgedTurns
  <2>5. TurnFile(t) \in op[p].span \cup op[p].lent
    BY <1>1, <2>2, <2>3, <2>4 DEF SweptTurns
  <2>6. op[p].kind \in {"delete", "collect"}
    BY <2>2 DEF Typed, Shaped, KindAndStage, Sweeper
  <2> QED
    BY <2>2, <2>4, <2>5, <2>6 DEF TurnRenewed
<1>2. ASSUME NEW p \in Proc, AppendEntry(p), t = op[p].turn
      PROVE  FALSE
  <2>1. Goes(p, {"stage"}, {}, {LogFile(op[p].session)}) /\ op'[p].stage = "index"
    BY <1>2, AppendSteps
  <2>2. op'[p].turn = t
    BY <1>2, <2>1 DEF Goes, Keeps, Fields
  <2> QED
    BY <2>1, <2>2 DEF Resolved, Pending
<1>3. ASSUME NEW p \in Proc, Publishing(p), t \in TurnsIn(op[p].entries)
      PROVE  FALSE
  <2>1. Resolved(t)
    BY <1>3 DEF CarriedTurns
  <2>2. t \in DOMAIN turns /\ t \notin DOMAIN turns'
    BY <2>1, ResolvedUntilRemoved
  <2> QED
    BY <1>3, <2>2, PublishingFiles
<1> QED
  BY <1>1, <1>2, <1>3, WhereNamesComeFrom

-----------------------------------------------------------------------------
(* Histories and undo records. *)

\* A log that has appeared since a hand-over or a fork looked for it, it has
\* seen written.
Created ==
    \A q \in Proc : op[q].stage = "create" /\ Heir(op[q]) \in DOMAIN log =>
                       LogFile(Heir(op[q])) \in op[q].renewed

\* So has a collection the log of a session whose undo record it condemned for
\* want of one.
Orphaned ==
    \A q \in Proc : op[q].stage = "orphans" =>
       \A s \in DOMAIN log : UndoFile(s) \in op[q].condemned => LogFile(s) \in op[q].renewed

\* Whoever is to act on what it found sees a log appear.
LEMMA LogsAppear ==
    ASSUME Typed, [Next]_vars, NEW q \in Proc, Stays(q), op[q].stage # "idle",
           op[q].condemned # {} \/ op[q].stage = "create",
           NEW h \in DOMAIN log', h \notin DOMAIN log
    PROVE  LogFile(h) \in op'[q].renewed
<1>1. PICK p \in Proc : Publishing(p)
  <2>1. ASSUME NEW p \in Proc, Beginning(p) \/ Sweeping(p) \/ Crash(p)
        PROVE  FALSE
    BY <2>1, SweepingFiles DEF Beginning, Crash, Within
  <2>2. ASSUME UNCHANGED vars \/ \E f \in File : Settle(f)
        PROVE  FALSE
    BY <2>2 DEF vars, Settle
  <2> QED
    BY <2>1, <2>2, NextSteps
<1>2. CASE AppendEntry(p)
  <2>1. Others(p, {}, {LogFile(op[p].session)}) /\ op[p].stage = "store"
    BY <1>2, AppendSteps DEF Goes, AppendEntry
  <2>2. h = op[p].session
    BY <1>2 DEF AppendEntry, With
  <2>3. op'[p].stage = "index" /\ op'[q].stage = op[q].stage
    BY <1>2, AppendSteps DEF Stays, Keeps, Fields
  <2>4. op'[q].condemned = op[q].condemned
    BY DEF Stays, Keeps, Fields
  <2>5. q # p
    BY <2>1, <2>3
  <2> QED
    BY <2>1, <2>2, <2>3, <2>4, <2>5 DEF Others, Ages
<1>3. ASSUME Create(p) \/ Inherit(p)
      PROVE  LogFile(h) \in op'[q].renewed
  <2> DEFINE u == IF Create(p) THEN Heir(op[p]) ELSE op[p].session
  <2>1. Others(p, {}, {LogFile(u)})
    BY <1>3, CreateSteps, InheritSteps DEF Goes, Stops
  <2>2. h = u
    BY <1>3 DEF Create, Inherit, With
  <2>3. q # p
    <3>1. op'[q].stage = op[q].stage /\ op'[q].condemned = op[q].condemned
      BY DEF Stays, Keeps, Fields
    <3>2. ASSUME Create(q) PROVE FALSE
      BY <3>1, <3>2, CreateSteps, StoppedIsIdle
    <3>3. ASSUME Inherit(q) PROVE FALSE
      <4>1. op[q].stage = "inherit"
        BY <3>3 DEF Inherit
      <4> QED
        BY <4>1 DEF Typed, Shaped, Equipped
    <3> QED
      BY <1>3, <3>2, <3>3
  <2>4. op'[q].stage = op[q].stage /\ op'[q].condemned = op[q].condemned
    BY DEF Stays, Keeps, Fields
  <2> HIDE DEF u
  <2> QED
    BY <2>1, <2>2, <2>3, <2>4 DEF Others, Ages
<1> QED
  BY <1>1, <1>2, <1>3 DEF Publishing, Store, Freshen, SetTurn, Ensure, ReadStack, Push, ReadRecord, Pop

\* A hand-over that is to write an empty log sees one appear.
LEMMA CreatedNext ==
    ASSUME Typed, Created, [Next]_vars
    PROVE  Created'
<1> SUFFICES ASSUME NEW q \in Proc, op'[q].stage = "create", Heir(op'[q]) \in DOMAIN log'
             PROVE  LogFile(Heir(op'[q])) \in op'[q].renewed
  BY DEF Created
<1>1. CASE Stays(q)
  <2>1. op'[q].stage = op[q].stage /\ Heir(op'[q]) = Heir(op[q])
    BY <1>1 DEF Stays, Keeps, Fields, Heir
  <2>2. op[q].renewed \subseteq op'[q].renewed
    BY <1>1, <2>1 DEF Stays
  <2> QED
    BY <1>1, <2>1, <2>2, LogsAppear DEF Created
<1>2. ASSUME Ensure(q)
      PROVE  FALSE
  <2>1. Goes(q, {"stage"}, {}, {}) /\ Heir(op[q]) \notin DOMAIN log
    BY <1>2, EnsureSteps, StoppedIsIdle
  <2>2. Heir(op'[q]) = Heir(op[q]) /\ log' = log
    BY <1>2, <2>1 DEF Goes, Keeps, Fields, Heir, Ensure
  <2> QED
    BY <2>1, <2>2
<1>3. CASE Publishing(q)
  <2>0. \A file, record : ~ Stops(q, file, record)
    BY StoppedIsIdle
  <2>1. ASSUME NEW o \in Object, Store(q, o) \/ Freshen(q, o)
        PROVE  FALSE
    <3>1. /\ \/ Goes(q, {"found"}, {}, {}) \/ Goes(q, {"todo"}, {o}, {})
             \/ Goes(q, {"todo", "found"}, {o}, {}) \/ Goes(q, {"todo", "found"}, {}, {})
          /\ op[q].stage = "store"
      BY <2>1, StoreSteps, FreshenSteps DEF Store
    <3> QED
      BY <3>1 DEF Goes, Keeps, Fields
  <2>2. ~ AppendEntry(q) /\ ~ SetTurn(q) /\ ~ Create(q) /\ ~ ReadStack(q)
    BY <2>0, AppendSteps, SetTurnSteps, CreateSteps, ReadStackSteps
  <2>3. ~ Push(q) /\ ~ ReadRecord(q) /\ ~ Pop(q)
    BY <2>0, PushSteps, ReadRecordSteps, PopSteps
  <2>4. ~ Inherit(q)
    <3> SUFFICES ASSUME Inherit(q) PROVE FALSE
      OBVIOUS
    <3>1. Goes(q, {"entries"}, {}, {LogFile(op[q].session)}) /\ op[q].stage = "inherit"
      BY <2>0, InheritSteps
    <3> QED
      BY <3>1 DEF Goes, Keeps, Fields
  <2> QED
    BY <1>2, <1>3, <2>1, <2>2, <2>3, <2>4 DEF Publishing
<1>4. ~ Beginning(q)
  BY ForkStarts, DeleteStarts, CollectStarts DEF Beginning, StartsSaving
<1>5. ~ Sweeping(q) /\ ~ Crash(q)
  BY SweepingSteps, EndSteps, StoppedIsIdle DEF Sweeps
<1> QED
  BY <1>1, <1>3, <1>4, <1>5, StaysOrSteps

\* A collection that is to remove an undo record sees a log appear.
LEMMA OrphanedNext ==
    ASSUME Typed, Orphaned, [Next]_vars
    PROVE  Orphaned'
<1> SUFFICES ASSUME NEW q \in Proc, op'[q].stage = "orphans",
                    NEW s \in DOMAIN log', UndoFile(s) \in op'[q].condemned
             PROVE  LogFile(s) \in op'[q].renewed
  BY DEF Orphaned
<1>1. CASE Stays(q)
  <2>1. op'[q].stage = op[q].stage /\ op'[q].condemned = op[q].condemned
    BY <1>1 DEF Stays, Keeps, Fields
  <2>2. op[q].renewed \subseteq op'[q].renewed
    BY <1>1, <2>1 DEF Stays
  <2> QED
    BY <1>1, <2>1, <2>2, LogsAppear DEF Orphaned
<1>2. ASSUME ListOrphans(q)
      PROVE  FALSE
  <2>1. op'[q].condemned = {UndoFile(u) : u \in DOMAIN undo \ DOMAIN log} \ fresh /\ log' = log
    BY <1>2, ListOrphansSteps DEF ListOrphans
  <2>2. PICK u \in DOMAIN undo \ DOMAIN log : UndoFile(s) = UndoFile(u)
    BY <2>1
  <2> QED
    BY <2>1, <2>2 DEF UndoFile
<1>3. ASSUME NEW u \in Session, RemoveOrphan(q, u)
      PROVE  LogFile(s) \in op'[q].renewed
  <2>1. /\ op[q].stage = "orphans" /\ Goes(q, {"condemned"}, {}, {})
        /\ op'[q].condemned \subseteq op[q].condemned /\ log' = log
    BY <1>3, RemoveOrphanSteps DEF RemoveOrphan
  <2>2. op[q].renewed \subseteq op'[q].renewed
    BY <2>1 DEF Goes, Ages
  <2> QED
    BY <2>1, <2>2 DEF Orphaned
<1>4. ~ UnlinkLog(q) /\ ~ OrphansGone(q) /\ ~ Collect(q)
  BY UnlinkLogSteps, OrphansGoneSteps, CollectStarts
<1>5. ASSUME NEW u \in Session, ReadLog(q, u)
      PROVE  FALSE
  BY <1>5, ReadLogSteps, StoppedIsIdle
<1>6. ASSUME NEW t \in TurnKey, CondemnTurn(q, t) \/ RemoveTurn(q, t)
      PROVE  FALSE
  <2>1. /\ op[q].stage = "turns"
        /\ \/ Goes(q, {"condemned", "doomedTurns"}, {}, {})
           \/ Goes(q, {"condemned"}, {}, {})
    BY <1>6, CondemnTurnSteps, RemoveTurnSteps
  <2> QED
    BY <2>1 DEF Goes, Keeps, Fields
<1> QED
  BY <1>1, <1>2, <1>3, <1>4, <1>5, <1>6, StaysOrSteps, WhoIsReading

\* A sequence is a prefix of itself and of what it becomes by one more entry.
LEMMA PrefixOfLonger ==
    ASSUME NEW S, NEW entries \in Seq(S), NEW e \in S
    PROVE  IsPrefix(entries, entries) /\ IsPrefix(entries, Append(entries, e))
<1>1. Len(entries) \in Nat /\ Len(Append(entries, e)) = Len(entries) + 1
  OBVIOUS
<1>2. SubSeq(Append(entries, e), 1, Len(entries)) = SubSeq(entries, 1, Len(entries))
  <2>1. \A i \in 1 .. Len(entries) : Append(entries, e)[i] = entries[i]
    OBVIOUS
  <2> QED
    BY <1>1, <2>1
<1> QED
  BY <1>1, <1>2 DEF IsPrefix

\* What a step does to the log of a session that has one.
LEMMA HistoryStep ==
    ASSUME Typed, Created, [Next]_vars, NEW s \in DOMAIN log
    PROVE  \/ s \in DOMAIN log' /\ IsPrefix(log[s], log'[s])
           \/ LogFile(s) \in raced'
           \/ \E p \in Proc : op[p].stage = "unlink log" /\ op[p].session = s
<1>0. log[s] \in Seq(Entry)
  BY DEF Typed, TypeOK
<1>1. ASSUME s \in DOMAIN log', log'[s] = log[s]
      PROVE  s \in DOMAIN log' /\ IsPrefix(log[s], log'[s])
  <2>1. IsPrefix(log[s], log[s])
    BY <1>0 DEF IsPrefix
  <2> QED
    BY <1>1, <2>1
<1>2. ASSUME NEW u \in Session, NEW e \in Entry, log' = With(log, u, Append(LogOf(u), e))
      PROVE  s \in DOMAIN log' /\ IsPrefix(log[s], log'[s])
  <2>1. CASE u = s
    <3>1. s \in DOMAIN log' /\ log'[s] = Append(log[s], e)
      BY <1>2, <2>1 DEF With, LogOf
    <3> QED
      BY <1>0, <3>1, PrefixOfLonger
  <2>2. CASE u # s
    <3>1. s \in DOMAIN log' /\ log'[s] = log[s]
      BY <1>2, <2>2 DEF With
    <3> QED
      BY <1>1, <3>1
  <2> QED
    BY <2>1, <2>2
<1>3. ASSUME NEW p \in Proc, AppendEntry(p)
      PROVE  s \in DOMAIN log' /\ IsPrefix(log[s], log'[s])
  <2> DEFINE e == [turn |-> op[p].turn, manifest |-> op[p].manifest]
  <2>1. op[p].session \in Session /\ e \in Entry
    BY <1>3, AppendSteps DEF Entry
  <2>2. log' = With(log, op[p].session, Append(LogOf(op[p].session), e))
    BY <1>3 DEF AppendEntry
  <2> HIDE DEF e
  <2> QED
    BY <1>2, <2>1, <2>2
<1>4. ASSUME NEW p \in Proc, Inherit(p)
      PROVE  s \in DOMAIN log' /\ IsPrefix(log[s], log'[s])
  <2>1. op[p].session \in Session /\ Head(op[p].entries) \in Entry
    BY <1>4, InheritSteps, HeadIsNamed
  <2>2. log' = With(log, op[p].session, Append(LogOf(op[p].session), Head(op[p].entries)))
    BY <1>4 DEF Inherit
  <2> QED
    BY <1>2, <2>1, <2>2
<1>5. ASSUME NEW p \in Proc, Create(p)
      PROVE  LogFile(s) \in raced' \/ (s \in DOMAIN log' /\ log'[s] = log[s])
  BY <1>5 DEF Create, Created, With
<1>6. ASSUME NEW p \in Proc, UnlinkLog(p)
      PROVE  \/ op[p].stage = "unlink log" /\ op[p].session = s
             \/ s \in DOMAIN log' /\ log'[s] = log[s]
  BY <1>6 DEF UnlinkLog, Without
<1>7. ASSUME NEW p \in Proc, Publishing(p)
      PROVE  AppendEntry(p) \/ Inherit(p) \/ Create(p) \/ log' = log
  BY <1>7 DEF Publishing, Store, Freshen, SetTurn, Ensure, ReadStack, Push, ReadRecord, Pop
<1>8. ASSUME NEW p \in Proc, Sweeping(p)
      PROVE  UnlinkLog(p) \/ log' = log
  BY <1>8 DEF Sweeping, LockDoomed, UnlinkUndo, ReadLog, RemoveOrphan, ListOrphans, OrphansGone,
     HoldRoots, MissRoots, Mark, Swept, CondemnTurn, RemoveTurn, Condemn, Unlink
<1>9. CASE log' = log
  BY <1>1, <1>9
<1> QED
  BY <1>1, <1>3, <1>4, <1>5, <1>6, <1>7, <1>8, <1>9, NextSteps
     DEF Beginning, Crash, vars, Settle

\* A stack that is read and written with nothing in between loses no more than
\* its oldest record, and that only if it is full.
LEMMA PushKeepsRecords ==
    ASSUME NEW stack \in Seq(Record), Len(stack) <= MaxUndo, NEW r \in Record
    PROVE  LET longer == Append(stack, r) IN
           \/ Len(longer) <= MaxUndo /\ IsPrefix(stack, longer)
           \/ Len(longer) > MaxUndo /\ Len(stack) = MaxUndo /\ IsPrefix(Tail(stack), Tail(longer))
<1>1. Len(stack) \in Nat /\ Len(Append(stack, r)) = Len(stack) + 1
  OBVIOUS
<1>2. CASE Len(stack) < MaxUndo
  <2>1. IsPrefix(stack, Append(stack, r))
    BY PrefixOfLonger
  <2> QED
    BY <1>1, <1>2, <2>1, MaxAssumption
<1>3. CASE Len(stack) = MaxUndo
  <2>1. stack # <<>>
    BY <1>3, MaxAssumption
  <2>2. Tail(Append(stack, r)) = Append(Tail(stack), r) /\ Tail(stack) \in Seq(Record)
    BY <2>1, HeadTailAppend, HeadTailProperties
  <2>3. IsPrefix(Tail(stack), Append(Tail(stack), r))
    BY <2>2, PrefixOfLonger
  <2>4. Len(Append(stack, r)) > MaxUndo
    BY <1>1, <1>3, MaxAssumption
  <2> QED
    BY <1>3, <2>2, <2>3, <2>4
<1> QED
  BY <1>1, <1>2, <1>3, MaxAssumption

\* How else the record of a session with a log may go.
Forgone(s) ==
    \E p \in Proc :
       \/ Outdated(op[p], s) /\ op'[p].stage = "idle"
       \/ op[p].stage = "unlink undo" /\ op[p].session = s
       \/ /\ op[p].stage = "orphans" /\ UndoFile(s) \in op[p].condemned
          /\ LogFile(s) \in op[p].renewed

\* What a step does to the undo records of a session that has a log.
LEMMA UndoStep ==
    ASSUME Typed, Orphaned, [Next]_vars, NEW s \in DOMAIN undo \cap DOMAIN log
    PROVE  RecordsStay(s) \/ Forgone(s)
<1>0. /\ undo[s] \in Seq(Record) /\ Len(undo[s]) <= MaxUndo /\ StackOf(s) = undo[s]
      /\ s \in Session
  BY DEF Typed, TypeOK, StackOf
<1>1. ASSUME s \in DOMAIN undo', undo'[s] = undo[s]
      PROVE  RecordsStay(s)
  <2>1. IsPrefix(undo[s], undo[s])
    BY <1>0 DEF IsPrefix
  <2> QED
    BY <1>1, <2>1 DEF RecordsStay
<1>2. ASSUME NEW p \in Proc, UnlinkUndo(p)
      PROVE  RecordsStay(s) \/ Forgone(s)
  <2>1. CASE op[p].session = s
    BY <1>2, <2>1 DEF UnlinkUndo, Forgone
  <2>2. CASE op[p].session # s
    BY <1>1, <1>2, <2>2 DEF UnlinkUndo, Without
  <2> QED
    BY <2>1, <2>2
<1>3. ASSUME NEW p \in Proc, NEW u \in Session, RemoveOrphan(p, u)
      PROVE  RecordsStay(s) \/ Forgone(s)
  <2>1. CASE u = s
    BY <1>3, <2>1 DEF RemoveOrphan, Orphaned, Forgone
  <2>2. CASE u # s
    BY <1>1, <1>3, <2>2 DEF RemoveOrphan, Without
  <2> QED
    BY <2>1, <2>2
<1>4. ASSUME NEW p \in Proc, NEW file, Stops(p, file, {}), Outdated(op[p], s)
      PROVE  Forgone(s)
  BY <1>4, StoppedIsIdle DEF Forgone
<1>5. ASSUME NEW p \in Proc, Push(p)
      PROVE  RecordsStay(s) \/ Forgone(s)
  <2> DEFINE r == [target |-> op[p].target, safety |-> op[p].manifest]
             longer == Append(op[p].stack, r)
             kept == IF Len(longer) > MaxUndo THEN Tail(longer) ELSE longer
  <2>1. /\ op[p].stage = "record" /\ r \in Record
        /\ undo' = With(undo, op[p].owner, kept)
        /\ Stops(p, {UndoFile(op[p].owner)}, {})
    BY <1>5, PushSteps DEF Push, Record
  <2>2. CASE op[p].owner # s
    BY <1>1, <2>1, <2>2 DEF With
  <2>3. CASE op[p].owner = s /\ op[p].stack # StackOf(s)
    BY <1>4, <2>1, <2>3 DEF Outdated
  <2>4. CASE op[p].owner = s /\ op[p].stack = StackOf(s)
    <3>1. s \in DOMAIN undo' /\ undo'[s] = kept
      BY <2>1, <2>4 DEF With
    <3> HIDE DEF r
    <3>2. \/ kept = longer /\ IsPrefix(undo[s], kept)
          \/ Len(undo[s]) = MaxUndo /\ IsPrefix(Tail(undo[s]), kept)
      <4>1. /\ longer = Append(undo[s], r) /\ Len(longer) = Len(undo[s]) + 1
            /\ Len(undo[s]) \in Nat
        BY <1>0, <2>1, <2>4
      <4>2. \/ Len(longer) <= MaxUndo /\ IsPrefix(undo[s], longer)
            \/ /\ Len(longer) > MaxUndo /\ Len(undo[s]) = MaxUndo
               /\ IsPrefix(Tail(undo[s]), Tail(longer))
        BY <1>0, <2>1, <4>1, PushKeepsRecords
      <4> HIDE DEF longer
      <4> QED
        BY <4>1, <4>2, MaxAssumption
    <3> QED
      BY <3>1, <3>2 DEF RecordsStay
  <2> QED
    BY <2>2, <2>3, <2>4
<1>6. ASSUME NEW p \in Proc, Pop(p)
      PROVE  RecordsStay(s) \/ Forgone(s)
  <2>1. /\ op[p].stage = "spend" /\ Stops(p, {UndoFile(op[p].session)}, {})
        /\ undo' = With(undo, op[p].session, SubSeq(op[p].stack, 1, Len(op[p].stack) - 1))
    BY <1>6, PopSteps DEF Pop
  <2>2. CASE op[p].session # s
    BY <1>1, <2>1, <2>2 DEF With
  <2>3. CASE op[p].session = s /\ op[p].stack # StackOf(s)
    BY <1>4, <2>1, <2>3 DEF Outdated
  <2>4. CASE op[p].session = s /\ op[p].stack = StackOf(s)
    BY <1>0, <2>1, <2>4 DEF With, RecordsStay
  <2> QED
    BY <2>2, <2>3, <2>4
<1>7. ASSUME NEW p \in Proc, Publishing(p)
      PROVE  Push(p) \/ Pop(p) \/ undo' = undo
  BY <1>7 DEF Publishing, Store, Freshen, AppendEntry, SetTurn, Ensure, Create, ReadStack,
     ReadRecord, Inherit
<1>8. ASSUME NEW p \in Proc, Sweeping(p)
      PROVE  UnlinkUndo(p) \/ (\E u \in Session : RemoveOrphan(p, u)) \/ undo' = undo
  BY <1>8 DEF Sweeping, LockDoomed, UnlinkLog, ReadLog, ListOrphans, OrphansGone,
     HoldRoots, MissRoots, Mark, Swept, CondemnTurn, RemoveTurn, Condemn, Unlink
<1>9. CASE undo' = undo
  BY <1>1, <1>9
<1> QED
  BY <1>2, <1>3, <1>5, <1>6, <1>7, <1>8, <1>9, NextSteps DEF Beginning, Crash, vars, Settle

-----------------------------------------------------------------------------
(* Under whom undo records are filed. *)

\* s has a log, or had a hand-over while it was being deleted.
Founded(s) == s \in DOMAIN log \/ UndoFile(s) \in raced

\* Undo records are filed only under sessions with a log: whoever is about to
\* file one has seen it, and an undo keeps its own from being deleted meanwhile.
Filed ==
    /\ UndoHasLog
    /\ \A p \in Proc :
         /\ op[p].stage \in {"push", "record"} => Founded(op[p].owner)
         /\ op[p].stage \in {"index", "pop", "spend"} => Founded(op[p].session)

\* A log goes only when its session is deleted, and a hand-over to it is noted.
LEMMA UnlinkedLogs ==
    ASSUME Typed, [Next]_vars, NEW s, Founded(s), ~ Founded(s)'
    PROVE  ~ HandedOver(s) /\ \E p \in Proc : op[p].session = s /\ op[p].locked /\ UnlinkLog(p)
<1>1. s \in DOMAIN log /\ s \notin DOMAIN log' /\ UndoFile(s) \notin raced'
  BY HistoryGrows DEF Founded
<1>2. PICK p \in Proc : Sweeping(p)
  <2>1. ASSUME NEW p \in Proc, Beginning(p) \/ Publishing(p) \/ Crash(p)
        PROVE  FALSE
    BY <1>1, <2>1, PublishingFiles DEF Beginning, Crash
  <2>2. ASSUME UNCHANGED vars \/ \E f \in File : Settle(f)
        PROVE  FALSE
    BY <1>1, <2>2 DEF vars, Settle
  <2> QED
    BY <2>1, <2>2, NextSteps
<1>3. UnlinkLog(p)
  BY <1>1, <1>2 DEF Sweeping, LockDoomed, UnlinkUndo, ReadLog, RemoveOrphan, ListOrphans,
     OrphansGone, HoldRoots, MissRoots, Mark, Swept, CondemnTurn, RemoveTurn, Condemn, Unlink
<1>4. op[p].session = s
  BY <1>1, <1>3 DEF UnlinkLog, Without
<1>5. op[p].locked
  BY <1>3 DEF UnlinkLog, Typed, Shaped, KindAndStage
<1> QED
  BY <1>1, <1>3, <1>4, <1>5 DEF UnlinkLog

\* Who is about to file a record has come from where its log was seen or written.
LEMMA FilingSteps ==
    ASSUME Typed, Filed, NEW q \in Proc, Publishing(q)
    PROVE  /\ op'[q].stage \in {"push", "record"} =>
                \/ op'[q].owner \in DOMAIN log'
                \/ op[q].stage \in {"push", "record"} /\ op'[q].owner = op[q].owner /\ log' = log
           /\ op'[q].stage \in {"index", "pop", "spend"} =>
                \/ op'[q].session \in DOMAIN log'
                \/ /\ op[q].stage \in {"index", "pop", "spend"} /\ log' = log
                   /\ op'[q].session = op[q].session
<1>0. ~ op'[q].stage \in {"idle", "store", "inherit", "ensure", "create"} =>
        \A file, record : ~ Stops(q, file, record)
  BY StoppedIsIdle
<1>1. CASE AppendEntry(q)
  <2>1. op'[q].stage = "index" /\ Goes(q, {"stage"}, {}, {LogFile(op[q].session)})
    BY <1>1, AppendSteps
  <2>2. op'[q].session = op[q].session /\ op[q].session \in DOMAIN log'
    BY <1>1, <2>1 DEF Goes, Keeps, Fields, AppendEntry, With
  <2> QED
    BY <2>1, <2>2
<1>2. CASE Ensure(q) \/ Create(q)
  <2>1. ASSUME op'[q].stage \notin {"idle", "inherit", "create"}
        PROVE  /\ op'[q].stage = "push" /\ Heir(op[q]) \in DOMAIN log'
               /\ \E record : Goes(q, {"stage"}, {}, record)
    BY <1>2, <2>1, EnsureSteps, CreateSteps, StoppedIsIdle DEF Ensure, Create, With
  <2>2. ASSUME op'[q].stage = "push"
        PROVE  op'[q].owner = Heir(op[q])
    <3>1. op'[q].kind = "rewind"
      BY <2>1, <2>2 DEF Goes, Others, Shaped, KindAndStage
    <3>2. op[q].kind = op'[q].kind /\ op[q].owner = op'[q].owner
      BY <2>1, <2>2 DEF Goes, Keeps, Fields
    <3> QED
      BY <3>1, <3>2 DEF Heir
  <2> QED
    BY <2>1, <2>2
<1>3. CASE SetTurn(q) \/ ReadStack(q) \/ ReadRecord(q)
  <2>1. ASSUME op'[q].stage \notin {"idle", "ensure"}
        PROVE  /\ \/ op[q].stage = "push" /\ op'[q].stage = "record"
                  \/ op[q].stage \in {"index", "pop"} /\ op'[q].stage \in {"pop", "spend"}
               /\ \E F, file, record : /\ Goes(q, F, file, record)
                                       /\ "owner" \notin F /\ "session" \notin F
    BY <1>3, <2>1, SetTurnSteps, ReadStackSteps, ReadRecordSteps, StoppedIsIdle
  <2>2. ASSUME op'[q].stage \notin {"idle", "ensure"}
        PROVE  op'[q].owner = op[q].owner /\ op'[q].session = op[q].session
    BY <2>1, <2>2 DEF Goes, Keeps, Fields
  <2>3. log' = log
    BY <1>3 DEF SetTurn, ReadStack, ReadRecord
  <2> QED
    BY <2>1, <2>2, <2>3
<1>4. CASE Push(q) \/ Pop(q)
  BY <1>4, PushSteps, PopSteps, StoppedIsIdle
<1>5. CASE Inherit(q)
  <2>1. ASSUME op'[q].stage # "idle"
        PROVE  op'[q].stage = "inherit"
    BY <1>5, <2>1, InheritSteps, StoppedIsIdle DEF Goes, Keeps, Fields
  <2> QED
    BY <2>1
<1>6. ASSUME NEW o \in Object, Store(q, o) \/ Freshen(q, o)
      PROVE  op'[q].stage = "store"
  <2>1. /\ \/ Goes(q, {"found"}, {}, {}) \/ Goes(q, {"todo"}, {o}, {})
           \/ Goes(q, {"todo", "found"}, {o}, {}) \/ Goes(q, {"todo", "found"}, {}, {})
        /\ op[q].stage = "store"
    BY <1>6, StoreSteps, FreshenSteps DEF Store
  <2> QED
    BY <2>1 DEF Goes, Keeps, Fields
<1> QED
  BY <1>1, <1>2, <1>3, <1>4, <1>5, <1>6 DEF Publishing

\* Records go on being filed where there is a log.
LEMMA FiledNext ==
    ASSUME Typed, Filed, [Next]_vars
    PROVE  Filed'
<1>0. \A s : Founded(s) /\ ~ HandedOver(s) => s \notin DOMAIN undo
  BY DEF HandedOver
<1>1. ASSUME NEW s \in DOMAIN undo'
      PROVE  Founded(s)'
  <2>1. CASE s \in DOMAIN undo
    BY <2>1, UnlinkedLogs DEF Filed, UndoHasLog, Founded, HandedOver
  <2>2. CASE s \notin DOMAIN undo
    <3>1. PICK p \in Proc : Publishing(p)
      <4>1. ASSUME NEW p \in Proc, Beginning(p) \/ Sweeping(p) \/ Crash(p)
            PROVE  FALSE
        BY <1>1, <2>2, <4>1, SweepingFiles DEF Beginning, Crash, Within
      <4>2. ASSUME UNCHANGED vars \/ \E f \in File : Settle(f)
            PROVE  FALSE
        BY <1>1, <2>2, <4>2 DEF vars, Settle
      <4> QED
        BY <4>1, <4>2, NextSteps
    <3>2. Push(p) \/ Pop(p)
      BY <1>1, <2>2, <3>1 DEF Publishing, Store, Freshen, AppendEntry, SetTurn, Ensure, Create,
         ReadStack, ReadRecord, Inherit
    <3>3. CASE Push(p)
      BY <1>1, <2>2, <3>3 DEF Push, With, Filed, Founded
    <3>4. CASE Pop(p)
      BY <1>1, <2>2, <3>4 DEF Pop, With, Filed, Founded
    <3> QED
      BY <3>2, <3>3, <3>4
  <2> QED
    BY <2>1, <2>2
<1>2. ASSUME NEW q \in Proc, op'[q].stage \in {"push", "record"}
      PROVE  Founded(op[q].owner)'
  <2>1. ASSUME op[q].stage \in {"push", "record"}, op'[q].owner = op[q].owner
        PROVE  Founded(op[q].owner)'
    BY <2>1, UnlinkedLogs DEF Filed, HandedOver, Founded
  <2>2. CASE Stays(q)
    BY <1>2, <2>1, <2>2 DEF Stays, Keeps, Fields
  <2>3. CASE Publishing(q)
    BY <1>2, <2>1, <2>3, FilingSteps DEF Founded
  <2>4. ~ Beginning(q) /\ ~ Sweeping(q) /\ ~ Crash(q)
    BY <1>2, ForkStarts, DeleteStarts, CollectStarts, SweepingSteps, EndSteps, StoppedIsIdle
       DEF Beginning, StartsSaving, Sweeps
  <2> QED
    BY <2>2, <2>3, <2>4, StaysOrSteps
<1>3. ASSUME NEW q \in Proc, op'[q].stage \in {"index", "pop", "spend"}
      PROVE  Founded(op[q].session)'
  <2>1. ASSUME op[q].stage \in {"index", "pop", "spend"}, op'[q].session = op[q].session,
               ~ Founded(op[q].session)'
        PROVE  FALSE
    <3>1. Founded(op[q].session) /\ op[q].locked
      BY <2>1 DEF Filed, Typed, Shaped, KindAndStage
    <3>2. PICK p \in Proc : op[p].session = op[q].session /\ op[p].locked /\ UnlinkLog(p)
      BY <2>1, <3>1, UnlinkedLogs DEF Founded
    <3>3. p # q
      BY <2>1, <3>2 DEF UnlinkLog
    <3> QED
      BY <3>1, <3>2, <3>3 DEF Typed, TypeOK
  <2>2. CASE Stays(q)
    BY <1>3, <2>1, <2>2 DEF Stays, Keeps, Fields
  <2>3. CASE Publishing(q)
    BY <1>3, <2>1, <2>3, FilingSteps DEF Founded
  <2>4. ~ Beginning(q) /\ ~ Sweeping(q) /\ ~ Crash(q)
    BY <1>3, ForkStarts, DeleteStarts, CollectStarts, SweepingSteps, EndSteps, StoppedIsIdle
       DEF Beginning, StartsSaving, Sweeps
  <2> QED
    BY <2>2, <2>3, <2>4, StaysOrSteps
<1> QED
  BY <1>1, <1>2, <1>3 DEF Filed, UndoHasLog, Founded

-----------------------------------------------------------------------------
(* A collection that has the store to itself. *)

LogManifests == UNION {ManifestsIn(log[s]) : s \in DOMAIN log}
LogTurns == UNION {TurnsIn(log[s]) : s \in DOMAIN log}

\* The manifests that a log leads to, or the index.
Rooted ==
    (UNION {ManifestsIn(log[s]) \cup RecordsOf(StackOf(s)) : s \in DOMAIN log})
       \cup {turns[t] : t \in DOMAIN turns}

\* What such a collection counts on: nobody else is there, and nothing is young.
Solitary(r) ==
    op[r].kind = "collect" /\ fresh = {} /\ \A q \in Proc \ {r} : op[q].stage = "idle"

\* What it has read is what is there ...
ReadsTruly(r) ==
    /\ op[r].liveTurns \subseteq LogTurns
    /\ op[r].stage \in {"roots", "orphans", "turns"} => op[r].live \subseteq LogManifests
    /\ op[r].stage = "manifests" => op[r].live \subseteq Rooted

\* ... for no log it listed is gone; undo records without a log and turns that
\* no log lists go first ...
PrunesFirst(r) ==
    /\ op[r].stage = "roots" => op[r].unread \subseteq DOMAIN log
    /\ op[r].stage # "mark"
    /\ op[r].stage = "orphans" =>
         {UndoFile(s) : s \in DOMAIN undo \ DOMAIN log} \subseteq op[r].condemned
    /\ op[r].stage \in {"turns", "manifests", "blobs"} => DOMAIN undo \subseteq DOMAIN log
    /\ op[r].stage \in {"manifests", "blobs"} => DOMAIN turns \subseteq op[r].liveTurns

\* ... and of the objects it overlooks none.
MissesNothing(r) ==
    /\ op[r].stage \in {"manifests", "blobs"} => \A x, y \in op[r].condemned : x = y
    /\ op[r].stage = "manifests" =>
         Manifest \cap objects \subseteq op[r].live \cup op[r].doomed \cup op[r].condemned
    /\ op[r].stage = "blobs" =>
         /\ Manifest \cap objects \subseteq Rooted
         /\ op[r].live \subseteq UNION {Holds[m] : m \in Rooted}
         /\ Blob \cap objects \subseteq op[r].live \cup op[r].todo \cup op[r].condemned

Reclaiming(r) == Solitary(r) /\ ReadsTruly(r) /\ PrunesFirst(r) /\ MissesNothing(r)

Alone == \A r \in Proc : op[r].quiet => Reclaiming(r)

\* It goes on counting on that while it sweeps.
LEMMA SolitaryGoesOn ==
    ASSUME Typed, NEW r \in Proc, Sweeping(r), op'[r].quiet, op[r].quiet => Reclaiming(r)
    PROVE  op[r].quiet /\ Solitary(r) /\ Solitary(r)' /\ ~ UnlinkLog(r)
<1>1. \A file, record : ~ Stops(r, file, record)
  BY DEF Stops, NoOp
<1>2. Goes(r, {"stage", "locked", "todo", "doomedTurns", "doomed", "unread", "liveTurns",
               "live", "condemned"}, {}, {})
  BY <1>1, SweepingSteps DEF Sweeps
<1>3. op'[r].kind = op[r].kind /\ op'[r].quiet = op[r].quiet
  BY <1>2 DEF Goes, Keeps, Fields
<1>4. Solitary(r)
  BY <1>3 DEF Reclaiming
<1>5. ASSUME NEW q \in Proc \ {r}
      PROVE  op'[q].stage = "idle"
  <2>1. Keeps(op'[q], op[q], {"span", "renewed"})
    BY <1>2 DEF Goes, Others
  <2>2. op'[q].stage = op[q].stage
    BY <2>1 DEF Keeps, Fields
  <2> QED
    BY <1>4, <2>2 DEF Solitary
<1>6. fresh' = {}
  BY <1>2, <1>4 DEF Goes, Others, Solitary
<1>7. ~ UnlinkLog(r)
  BY <1>4, UnlinkLogSteps DEF Solitary
<1> QED
  BY <1>3, <1>4, <1>5, <1>6, <1>7 DEF Solitary

\* What it names depends on the logs, the index and the undo records alone.
LEMMA SameNames ==
    ASSUME log' = log
    PROVE  /\ LogTurns' = LogTurns /\ LogManifests' = LogManifests
           /\ turns' = turns /\ undo' = undo => Rooted' = Rooted
BY DEF LogTurns, LogManifests, Rooted, StackOf

\* Reading and pruning.
LEMMA ReclaimsRoots ==
    ASSUME Typed, NEW r \in Proc, Reclaiming(r), Solitary(r)',
           \/ ListOrphans(r) \/ OrphansGone(r)
           \/ \E s \in Session : ReadLog(r, s) \/ RemoveOrphan(r, s)
           \/ \E t \in TurnKey : CondemnTurn(r, t) \/ RemoveTurn(r, t),
           op'[r].stage # "idle"
    PROVE  Reclaiming(r)'
<1>0. log' = log
  BY DEF ListOrphans, OrphansGone, ReadLog, RemoveOrphan, CondemnTurn, RemoveTurn
<1>1. LogTurns' = LogTurns /\ LogManifests' = LogManifests
  BY <1>0, SameNames
<1>2. op[r].kind = "collect" /\ fresh = {}
  BY DEF Reclaiming, Solitary
<1>3. CASE ListOrphans(r)
  <2>1. /\ op[r].stage = "roots" /\ Goes(r, {"stage", "condemned"}, {}, {})
        /\ op'[r].stage = "orphans"
        /\ op'[r].condemned = {UndoFile(s) : s \in DOMAIN undo \ DOMAIN log} \ fresh
        /\ undo' = undo
    BY <1>2, <1>3, ListOrphansSteps DEF ListOrphans
  <2>2. op'[r].live = op[r].live /\ op'[r].liveTurns = op[r].liveTurns
    BY <2>1 DEF Goes, Keeps, Fields
  <2>3. ReadsTruly(r)'
    BY <1>1, <2>1, <2>2 DEF Reclaiming, ReadsTruly
  <2>4. PrunesFirst(r)'
    BY <1>0, <1>2, <2>1 DEF PrunesFirst
  <2>5. MissesNothing(r)'
    BY <2>1 DEF MissesNothing
  <2> QED
    BY <2>3, <2>4, <2>5 DEF Reclaiming
<1>4. ASSUME NEW s \in Session, ReadLog(r, s)
      PROVE  Reclaiming(r)'
  <2>0. op[r].stage = "roots" /\ s \in op[r].unread /\ op[r].unread \subseteq DOMAIN log
    BY <1>4, ReadLogSteps DEF Reclaiming, PrunesFirst
  <2>1. /\ op'[r].stage = "roots" /\ s \in DOMAIN log
        /\ Goes(r, {"unread", "live", "liveTurns"}, {}, {})
        /\ op'[r].unread = op[r].unread \ {s}
        /\ op'[r].live = op[r].live \cup ManifestsIn(log[s])
        /\ op'[r].liveTurns = op[r].liveTurns \cup TurnsIn(log[s])
    BY <1>4, <2>0, ReadLogSteps
  <2>3. ReadsTruly(r)'
    <3>1. ManifestsIn(log[s]) \subseteq LogManifests /\ TurnsIn(log[s]) \subseteq LogTurns
      BY <2>1 DEF LogManifests, LogTurns
    <3> QED
      BY <1>1, <2>0, <2>1, <3>1 DEF Reclaiming, ReadsTruly
  <2>4. PrunesFirst(r)' /\ MissesNothing(r)'
    BY <1>0, <2>0, <2>1 DEF PrunesFirst, MissesNothing
  <2> QED
    BY <2>3, <2>4 DEF Reclaiming
<1>5. ASSUME NEW s \in Session, RemoveOrphan(r, s)
      PROVE  Reclaiming(r)'
  <2>1. /\ op[r].stage = "orphans" /\ Goes(r, {"condemned"}, {}, {})
        /\ op'[r].condemned = op[r].condemned \ {UndoFile(s)}
        /\ undo' = Without(undo, s)
    BY <1>5, RemoveOrphanSteps DEF RemoveOrphan
  <2>2. /\ op'[r].stage = "orphans" /\ op'[r].live = op[r].live
        /\ op'[r].liveTurns = op[r].liveTurns
    BY <2>1 DEF Goes, Keeps, Fields
  <2>3. ReadsTruly(r)' /\ MissesNothing(r)'
    BY <1>1, <2>1, <2>2 DEF Reclaiming, ReadsTruly, MissesNothing
  <2>4. PrunesFirst(r)'
    <3>1. {UndoFile(x) : x \in DOMAIN undo \ DOMAIN log} \subseteq op[r].condemned
      BY <2>1 DEF Reclaiming, PrunesFirst
    <3>2. DOMAIN undo' = DOMAIN undo \ {s}
      BY <2>1 DEF Without
    <3>3. \A x \in DOMAIN undo' \ DOMAIN log : UndoFile(x) \in op'[r].condemned
      BY <2>1, <3>1, <3>2 DEF UndoFile
    <3> QED
      BY <1>0, <2>2, <3>3 DEF PrunesFirst
  <2> QED
    BY <2>3, <2>4 DEF Reclaiming
<1>6. CASE OrphansGone(r)
  <2>1. /\ op[r].stage = "orphans" /\ op[r].condemned = {} /\ Goes(r, {"stage"}, {}, {})
        /\ op'[r].stage = "turns" /\ undo' = undo
    BY <1>6, OrphansGoneSteps DEF OrphansGone
  <2>2. op'[r].live = op[r].live /\ op'[r].liveTurns = op[r].liveTurns
    BY <2>1 DEF Goes, Keeps, Fields
  <2>3. ReadsTruly(r)' /\ MissesNothing(r)'
    BY <1>1, <2>1, <2>2 DEF Reclaiming, ReadsTruly, MissesNothing
  <2>4. DOMAIN undo \subseteq DOMAIN log
    BY <2>1 DEF Reclaiming, PrunesFirst
  <2>5. PrunesFirst(r)'
    BY <1>0, <2>1, <2>4 DEF PrunesFirst
  <2> QED
    BY <2>3, <2>5 DEF Reclaiming
<1>7. ASSUME NEW t \in TurnKey, CondemnTurn(r, t) \/ RemoveTurn(r, t)
      PROVE  Reclaiming(r)'
  <2>1. /\ op[r].stage = "turns" /\ undo' = undo
        /\ Goes(r, {"condemned", "doomedTurns"}, {}, {}) \/ Goes(r, {"condemned"}, {}, {})
    BY <1>7, CondemnTurnSteps, RemoveTurnSteps DEF CondemnTurn, RemoveTurn
  <2>2. /\ op'[r].stage = "turns" /\ op'[r].live = op[r].live
        /\ op'[r].liveTurns = op[r].liveTurns
    BY <2>1 DEF Goes, Keeps, Fields
  <2>3. ReadsTruly(r)' /\ MissesNothing(r)'
    BY <1>1, <2>1, <2>2 DEF Reclaiming, ReadsTruly, MissesNothing
  <2>4. PrunesFirst(r)'
    BY <1>0, <2>1, <2>2 DEF Reclaiming, PrunesFirst
  <2> QED
    BY <2>3, <2>4 DEF Reclaiming
<1> QED
  BY <1>3, <1>4, <1>5, <1>6, <1>7

\* Holding the roots, and sweeping the objects.
LEMMA ReclaimsObjects ==
    ASSUME Typed, NEW r \in Proc, Reclaiming(r), Solitary(r)',
           HoldRoots(r) \/ Mark(r) \/ \E o \in Object : Condemn(r, o) \/ Unlink(r, o),
           op'[r].stage # "idle"
    PROVE  Reclaiming(r)'
<1>0. log' = log /\ turns' = turns /\ undo' = undo
  BY DEF HoldRoots, Mark, Condemn, Unlink
<1>1. LogTurns' = LogTurns /\ LogManifests' = LogManifests /\ Rooted' = Rooted
  BY <1>0, SameNames
<1>2. op[r].kind = "collect" /\ fresh = {}
  BY DEF Reclaiming, Solitary
<1>3. CASE HoldRoots(r)
  <2>1. /\ op[r].stage = "turns" /\ op[r].condemned = {}
        /\ \A t \in TurnKey : ~ DeadTurn(r, t)
        /\ Goes(r, {"stage", "live", "doomed"}, {}, {})
        /\ op'[r].stage = "manifests" /\ op'[r].live = op[r].live \cup Roots
        /\ op'[r].doomed = Manifest \cap objects /\ objects' = objects
    BY <1>2, <1>3, HoldRootsSteps DEF HoldRoots
  <2>2. op'[r].liveTurns = op[r].liveTurns /\ op'[r].condemned = op[r].condemned
    BY <2>1 DEF Goes, Keeps, Fields
  <2>3. DOMAIN undo \subseteq DOMAIN log
    BY <2>1 DEF Reclaiming, PrunesFirst
  <2>4. Roots \subseteq Rooted
    BY <2>3 DEF Roots, Rooted, StackOf
  <2>5. op[r].live \subseteq Rooted
    BY <2>1 DEF Reclaiming, ReadsTruly, LogManifests, Rooted
  <2>6. ReadsTruly(r)'
    BY <1>1, <2>1, <2>2, <2>4, <2>5 DEF Reclaiming, ReadsTruly
  <2>7. DOMAIN turns \subseteq op[r].liveTurns
    BY <1>2, <2>1 DEF DeadTurn, Typed, TypeOK
  <2>8. PrunesFirst(r)'
    BY <1>0, <2>1, <2>2, <2>3, <2>7 DEF PrunesFirst
  <2>9. MissesNothing(r)'
    BY <2>1, <2>2 DEF MissesNothing
  <2> QED
    BY <2>6, <2>8, <2>9 DEF Reclaiming
<1>4. CASE Mark(r)
  <2>0. op[r].stage # "mark"
    BY DEF Reclaiming, PrunesFirst
  <2>1. /\ op[r].stage = "manifests" /\ op[r].condemned = {} /\ op[r].doomed = {}
        /\ Goes(r, {"stage", "live", "todo"}, {}, {}) /\ op'[r].stage = "blobs"
        /\ op'[r].live = Named /\ op'[r].todo = Blob \cap objects /\ objects' = objects
    BY <1>4, <2>0, MarkSteps, StoppedIsIdle DEF Mark
  <2>2. op'[r].liveTurns = op[r].liveTurns /\ op'[r].condemned = op[r].condemned
    BY <2>1 DEF Goes, Keeps, Fields
  <2>3. Manifest \cap objects \subseteq Rooted
    BY <2>1 DEF Reclaiming, ReadsTruly, MissesNothing
  <2>4. Named \subseteq UNION {Holds[m] : m \in Rooted}
    BY <2>3 DEF Named
  <2>5. ReadsTruly(r)'
    BY <1>1, <2>1, <2>2 DEF Reclaiming, ReadsTruly
  <2>6. PrunesFirst(r)'
    BY <1>0, <2>1, <2>2 DEF Reclaiming, PrunesFirst
  <2>7. MissesNothing(r)'
    BY <1>1, <2>1, <2>2, <2>3, <2>4 DEF MissesNothing
  <2> QED
    BY <2>5, <2>6, <2>7 DEF Reclaiming
<1>5. ASSUME op[r].stage \in {"manifests", "blobs"}, op'[r].stage = op[r].stage,
             op'[r].live = op[r].live, op'[r].liveTurns = op[r].liveTurns
      PROVE  ReadsTruly(r)' /\ PrunesFirst(r)'
  <2>1. ReadsTruly(r)'
    BY <1>1, <1>5 DEF Reclaiming, ReadsTruly
  <2>2. PrunesFirst(r)'
    BY <1>0, <1>5 DEF Reclaiming, PrunesFirst
  <2> QED
    BY <2>1, <2>2
<1>6. ASSUME NEW o \in Object, Condemn(r, o)
      PROVE  Reclaiming(r)'
  <2>1. /\ op[r].stage \in {"manifests", "blobs"} /\ op[r].condemned = {}
        /\ Goes(r, {"condemned", "doomed", "todo"}, {}, {})
        /\ op'[r].condemned = (IF Dead(r, o) THEN {o} ELSE {})
        /\ op'[r].doomed = op[r].doomed \ {o} /\ op'[r].todo = op[r].todo \ {o}
        /\ objects' = objects
    BY <1>6, CondemnSteps DEF Condemn
  <2>2. /\ op'[r].stage = op[r].stage /\ op'[r].live = op[r].live
        /\ op'[r].liveTurns = op[r].liveTurns
    BY <2>1 DEF Goes, Keeps, Fields
  <2>3. o \in op[r].live \cup op'[r].condemned
    BY <1>2, <2>1 DEF Dead
  <2>4. MissesNothing(r)'
    BY <1>1, <2>1, <2>2, <2>3 DEF Reclaiming, MissesNothing
  <2> QED
    BY <1>5, <2>1, <2>2, <2>4 DEF Reclaiming
<1>7. ASSUME NEW o \in Object, Unlink(r, o)
      PROVE  Reclaiming(r)'
  <2>1. /\ op[r].stage \in {"manifests", "blobs"} /\ o \in op[r].condemned
        /\ Goes(r, {"condemned"}, {}, {}) /\ op'[r].condemned = {}
        /\ objects' = objects \ {o}
    BY <1>7, UnlinkSteps DEF Unlink
  <2>2. /\ op'[r].stage = op[r].stage /\ op'[r].live = op[r].live
        /\ op'[r].liveTurns = op[r].liveTurns
        /\ op'[r].doomed = op[r].doomed /\ op'[r].todo = op[r].todo
    BY <2>1 DEF Goes, Keeps, Fields
  <2>3. op[r].condemned = {o}
    BY <2>1 DEF Reclaiming, MissesNothing
  <2>4. MissesNothing(r)'
    BY <1>1, <2>1, <2>2, <2>3 DEF Reclaiming, MissesNothing
  <2> QED
    BY <1>5, <2>1, <2>2, <2>4 DEF Reclaiming
<1> QED
  BY <1>3, <1>4, <1>6, <1>7

\* A collection that began alone, among settled files, goes on reclaiming.
LEMMA AloneNext ==
    ASSUME Typed, Alone, [Next]_vars
    PROVE  Alone'
<1> SUFFICES ASSUME NEW r \in Proc, op'[r].quiet
             PROVE  Reclaiming(r)'
  BY DEF Alone
<1>0. op[r].quiet => Reclaiming(r)
  BY DEF Alone
<1>1. CASE Sweeping(r)
  <2>1. Reclaiming(r) /\ Solitary(r)' /\ ~ UnlinkLog(r)
    BY <1>0, <1>1, SolitaryGoesOn
  <2>2. ~ LockDoomed(r) /\ ~ UnlinkUndo(r)
    BY <2>1, LockDoomedSteps, UnlinkUndoSteps DEF Reclaiming, Solitary, Typed, Shaped, KindAndStage
  <2>3. ~ Stops(r, {}, {}) /\ ~ Swept(r)
    BY EndSteps DEF Stops, NoOp
  <2>4. op'[r].stage # "idle"
    BY <1>1, <2>3, SweepingSteps DEF Sweeps, Goes
  <2>5. ~ MissRoots(r)
    <3> SUFFICES ASSUME MissRoots(r) PROVE FALSE
      OBVIOUS
    <3>1. op[r].stage = "turns" /\ op[r].condemned = {} /\ Departing
      BY MissRootsSteps
    <3>2. \A q \in Proc \ {r} : op[q].stage = "idle" /\ op[q].condemned = {}
      BY <2>1 DEF Reclaiming, Solitary, Typed, Shaped, Equipped
    <3> QED
      BY <3>1, <3>2 DEF Departing
  <2> QED
    BY <1>1, <2>1, <2>2, <2>3, <2>4, <2>5, ReclaimsRoots, ReclaimsObjects DEF Sweeping
<1>2. ASSUME NEW p \in Proc, p # r, Publishing(p) \/ Sweeping(p) \/ Crash(p)
      PROVE  FALSE
  <2>1. PICK file, record \in SUBSET File : Others(p, file, record)
    BY <1>2, OthersOnlyAge
  <2>2. Keeps(op'[r], op[r], {"span", "renewed"})
    BY <1>2, <2>1 DEF Others
  <2>3. op[r].quiet
    BY <2>2 DEF Keeps, Fields
  <2>4. op[p].stage = "idle"
    BY <1>0, <1>2, <2>3 DEF Reclaiming, Solitary
  <2> QED
    BY <1>2, <2>4, PublishingSteps, SweepingSteps DEF Publishes, Sweeps, Crash
<1>3. ASSUME NEW p \in Proc, p # r, Beginning(p)
      PROVE  FALSE
  BY <1>3, BeginningStarts DEF Starts
<1>4. CASE Beginning(r)
  <2>1. /\ Starts(r, Starting, op'[r].entries)
        /\ op'[r].kind = "collect" /\ fresh' = {} /\ \A q \in Proc \ {r} : op[q].stage = "idle"
    BY <1>4, BeginningStarts DEF Starts
  <2>2. \A q \in Proc \ {r} : op'[q].stage = "idle"
    BY <2>1 DEF Starts, Keeps, Fields
  <2>3. Collect(r)
    BY <1>4, <2>1, ForkStarts, DeleteStarts DEF Beginning, StartsSaving, Saving
  <2>4. op'[r].stage = "roots" /\ op'[r].unread = DOMAIN log /\ log' = log
    BY <2>3, CollectStarts DEF Collect
  <2>5. op'[r].live = {} /\ op'[r].liveTurns = {}
    BY <2>1 DEF Starts, Starting, SavingFields, Keeps, Fields, NoOp
  <2> QED
    BY <2>1, <2>2, <2>4, <2>5 DEF Reclaiming, Solitary, ReadsTruly, PrunesFirst, MissesNothing
<1>5. CASE Publishing(r) \/ Crash(r)
  <2>1. \A file, record : ~ Stops(r, file, record)
    BY DEF Stops, NoOp
  <2>2. Publishing(r)
    BY <1>5, <2>1, EndSteps
  <2>3. PICK file, record \in SUBSET File : Publishes(r, file, record)
    BY <2>2, PublishingSteps
  <2>4. Goes(r, {"stage", "stack", "todo", "found", "entries"}, file, record)
    BY <2>1, <2>3 DEF Publishes
  <2>5. op[r].quiet
    BY <2>4 DEF Goes, Keeps, Fields
  <2>6. op[r].kind = "collect"
    BY <1>0, <2>5 DEF Reclaiming, Solitary
  <2> QED
    BY <2>3, <2>6 DEF Publishes, Typed, Shaped, KindAndStage, Saving
<1>6. CASE UNCHANGED vars
  BY <1>0, <1>6 DEF vars, Reclaiming, Solitary, ReadsTruly, PrunesFirst, MissesNothing,
     LogTurns, LogManifests, Rooted, StackOf
<1>7. ASSUME NEW f \in File, Settle(f)
      PROVE  FALSE
  BY <1>0, <1>7 DEF Settle, Reclaiming, Solitary
<1> QED
  BY <1>1, <1>2, <1>3, <1>4, <1>5, <1>6, <1>7, NextSteps

-----------------------------------------------------------------------------
(* What captures are built on. *)

\* What a capture under way took content over from is in the log it was read in.
Grounded(p) == op[p].base \subseteq ManifestsIn(LogOf(op[p].session))

\* As long as nothing was raced away, captures are grounded, and none was built
\* on what is gone.
Based ==
    raced = {} =>
       /\ hollow = {}
       /\ \A p \in Proc : op[p].stage = "store" => Grounded(p)

\* A capture is grounded in what its session's log is by then.
LEMMA GroundedThen ==
    ASSUME NEW q \in Proc, NEW s, NEW now,
           now = IF s \in DOMAIN log' THEN log'[s] ELSE <<>>,
           op'[q].session = s, op'[q].base \subseteq ManifestsIn(now)
    PROVE  Grounded(q)'
  BY DEF Grounded, LogOf

\* A prefix of a log names nothing that the log does not.
LEMMA PrefixNames ==
    ASSUME NEW a \in Seq(Entry), NEW b \in Seq(Entry), IsPrefix(a, b)
    PROVE  ManifestsIn(a) \subseteq ManifestsIn(b)
<1>1. /\ Len(a) \in Nat /\ Len(b) \in Nat /\ Len(a) <= Len(b)
      /\ SubSeq(a, 1, Len(a)) = SubSeq(b, 1, Len(a))
  BY DEF IsPrefix
<1>2. ASSUME NEW i \in 1 .. Len(a)
      PROVE  a[i] = b[i]
  <2>1. SubSeq(a, 1, Len(a))[i] = a[i] /\ SubSeq(b, 1, Len(a))[i] = b[i]
    BY <1>1
  <2> QED
    BY <1>1, <2>1
<1> QED
  BY <1>1, <1>2, FrontNames

\* Captures go on being built on what is there.
LEMMA BasedNext ==
    ASSUME Typed, Typed', Created, LogsResolve, Based, [Next]_vars
    PROVE  Based'
<1> SUFFICES ASSUME raced' = {}
             PROVE  /\ hollow' = {}
                    /\ \A p \in Proc : op'[p].stage = "store" => Grounded(p)'
  BY DEF Based
<1>2. raced = {} /\ hollow = {}
  BY HistoryGrows DEF Based
<1>3. \A s : ManifestsIn(LogOf(s)) \subseteq objects
  BY <1>2, LogOfNames DEF LogsResolve
<1>4. hollow' = {}
  <2>1. ASSUME NEW p \in Proc, op[p].stage = "store"
        PROVE  ~ Bereft(p)
    <3>1. op[p].base \subseteq ManifestsIn(LogOf(op[p].session))
      BY <1>2, <2>1 DEF Based, Grounded
    <3> QED
      BY <1>2, <1>3, <3>1 DEF Bereft
  <2>2. ASSUME NEW p \in Proc, Publishing(p)
        PROVE  hollow' = hollow
    BY <2>1, <2>2 DEF Publishing, Store, Freshen, AppendEntry, SetTurn, Ensure, Create, ReadStack,
       Push, ReadRecord, Pop, Inherit
  <2>3. ASSUME NEW p \in Proc, Beginning(p) \/ Sweeping(p) \/ Crash(p)
        PROVE  hollow' = hollow
    BY <2>3, SweepingFiles DEF Beginning, Crash
  <2> QED
    BY <1>2, <2>2, <2>3, NextSteps DEF vars, Settle
<1>5. ASSUME NEW q \in Proc, op'[q].stage = "store"
      PROVE  Grounded(q)'
  <2>1. ASSUME NEW s \in Session, Beginning(q), StartsSaving(q, s)
        PROVE  Grounded(q)'
    <3>1. op'[q].base = Latest(s) /\ op'[q].session = s
      BY <2>1 DEF StartsSaving
    <3>2. Latest(s) \subseteq ManifestsIn(LogOf(s))
      <4>1. CASE LogOf(s) = <<>>
        BY <4>1 DEF Latest
      <4>2. CASE LogOf(s) # <<>>
        <5>1. LogOf(s) \in Seq(Entry)
          BY DEF Typed, TypeOK, LogOf
        <5>2. Last(LogOf(s)) \in ToSet(LogOf(s))
          BY <4>2, <5>1 DEF Last, ToSet
        <5> QED
          BY <4>2, <5>2 DEF Latest, ManifestsIn
      <4> QED
        BY <4>1, <4>2
    <3>3. LogOf(s) = IF s \in DOMAIN log' THEN log'[s] ELSE <<>>
      BY <2>1 DEF Beginning, LogOf
    <3> QED
      BY <3>1, <3>2, <3>3, GroundedThen
  <2>2. ASSUME op[q].stage = "store", op'[q].base = op[q].base, op'[q].session = op[q].session
        PROVE  Grounded(q)'
    <3>0. PICK s \in Session : s = op[q].session
      BY <2>2 DEF Typed, Shaped, KindAndStage, Equipped
    <3>1. op[q].locked
      BY <2>2 DEF Typed, Shaped, KindAndStage, Equipped
    <3>2. op[q].base \subseteq ManifestsIn(LogOf(s)) /\ op'[q].session = s
      BY <1>2, <2>2, <3>0 DEF Based, Grounded
    <3>3. CASE s \notin DOMAIN log
      <4>1. op'[q].base = {}
        BY <2>2, <3>2, <3>3, LogOfNames
      <4> QED
        BY <3>2, <4>1, GroundedThen
    <3>4. CASE s \in DOMAIN log
      <4>1. ASSUME NEW p \in Proc, op[p].stage = "unlink log", op[p].session = s
            PROVE  FALSE
        <5>1. op[p].locked /\ p # q
          BY <2>2, <4>1 DEF Typed, Shaped, KindAndStage
        <5> QED
          BY <3>0, <3>1, <4>1, <5>1 DEF Typed, TypeOK
      <4>2. s \in DOMAIN log' /\ IsPrefix(log[s], log'[s])
        BY <3>4, <4>1, HistoryStep
      <4>3. ManifestsIn(log[s]) \subseteq ManifestsIn(log'[s])
        BY <3>4, <4>2, PrefixNames DEF Typed, TypeOK
      <4>4. op'[q].base \subseteq ManifestsIn(log'[s])
        BY <2>2, <3>2, <3>4, <4>3, LogOfNames
      <4> QED
        BY <3>2, <4>2, <4>4, GroundedThen
    <3> QED
      BY <3>3, <3>4
  <2>3. CASE Stays(q)
    <3>1. /\ op'[q].stage = op[q].stage /\ op'[q].base = op[q].base
          /\ op'[q].session = op[q].session
      BY <2>3 DEF Stays, Keeps, Fields
    <3> QED
      BY <1>5, <2>2, <3>1
  <2>4. ASSUME NEW o \in Object, Store(q, o) \/ Freshen(q, o)
        PROVE  Grounded(q)'
    <3>1. /\ \/ Goes(q, {"found"}, {}, {}) \/ Goes(q, {"todo"}, {o}, {})
             \/ Goes(q, {"todo", "found"}, {o}, {}) \/ Goes(q, {"todo", "found"}, {}, {})
          /\ op[q].stage = "store"
      BY <2>4, StoreSteps, FreshenSteps DEF Store
    <3>2. op'[q].base = op[q].base /\ op'[q].session = op[q].session
      BY <3>1 DEF Goes, Keeps, Fields
    <3> QED
      BY <2>2, <3>1, <3>2
  <2> QED
    BY <1>5, <2>1, <2>3, <2>4, StaysOrSteps, WhoIsStoring
<1> QED
  BY <1>4, <1>5

-----------------------------------------------------------------------------
(* All of it together. *)

\* What a capture, a rewind, a fork, a delete and a collection under way know.
Knowing ==
    Young /\ Lent /\ Found /\ Judged /\ Writers /\ Marked /\ SweptLogs /\ SweptTurns
        /\ JudgedTurns /\ Created /\ Orphaned /\ Filed /\ Alone /\ Based

\* What the store keeps for its sessions.
Keeping == Whole /\ CarriedThere /\ LogsResolve /\ CarriedTurns /\ TurnsResolve

StoreInv == Typed /\ Knowing /\ Keeping

\* It holds of an empty store nobody works on.
LEMMA StoreInit == Init => StoreInv
<1> SUFFICES ASSUME Init PROVE StoreInv
  OBVIOUS
<1>1. Typed
  BY TypedInit
<1>2. \A p \in Proc : op[p] = NoOp /\ op[p].stage = "idle"
  BY DEF Init, NoOp
<1>3. \A p \in Proc : /\ op[p].span = {} /\ op[p].met = {} /\ op[p].found = {}
                      /\ op[p].entries = <<>> /\ Carried(op[p].entries) = {}
                      /\ TurnsIn(op[p].entries) = {} /\ ManifestsIn(op[p].entries) = {}
                      /\ ~ op[p].quiet /\ ~ Sweeper(op[p])
  BY <1>1, <1>2, IdleIsEmpty DEF Typed
<1>4. objects = {} /\ DOMAIN log = {}
  BY DEF Init
<1>5. Young /\ Lent /\ Found
  BY <1>3 DEF Young, Lent, Found
<1>6. Judged /\ Writers /\ Marked /\ SweptLogs /\ SweptTurns /\ JudgedTurns /\ Created /\ Orphaned
  BY <1>2 DEF Judged, Writers, Marked, SweptLogs, SweptTurns, JudgedTurns, Created, Orphaned
<1>7. Alone
  BY <1>3 DEF Alone
<1>9. Based /\ Filed
  <2>1. DOMAIN undo = {}
    BY DEF Init
  <2> QED
    BY <1>2, <2>1 DEF Based, Init, Filed, UndoHasLog
<1>8. Whole /\ CarriedThere /\ LogsResolve /\ CarriedTurns /\ TurnsResolve
  BY <1>3, <1>4 DEF Whole, CarriedThere, LogsResolve, CarriedTurns, TurnsResolve
<1> QED
  BY <1>1, <1>5, <1>6, <1>7, <1>8, <1>9 DEF StoreInv, Knowing, Keeping

\* Every step keeps it.
LEMMA StoreNext == StoreInv /\ [Next]_vars => StoreInv'
<1> SUFFICES ASSUME StoreInv, [Next]_vars PROVE StoreInv'
  OBVIOUS
<1> USE DEF StoreInv, Knowing, Keeping
<1>1. Typed'
  BY TypedNext
<1>2. Young' /\ Lent' /\ Found' /\ Judged'
  BY <1>1, YoungNext, LentNext, FoundNext, JudgedNext
<1>3. Writers' /\ Whole' /\ Marked'
  BY <1>1, WritersNext, WholeNext, MarkedNext
<1>4. CarriedThere' /\ SweptLogs' /\ LogsResolve'
  BY <1>1, CarriedThereNext, SweptLogsNext, LogsResolveNext
<1>5. CarriedTurns' /\ SweptTurns' /\ JudgedTurns' /\ TurnsResolve'
  BY CarriedTurnsNext, SweptTurnsNext, JudgedTurnsNext, TurnsResolveNext
<1>6. Created' /\ Orphaned' /\ Filed' /\ Alone' /\ Based'
  BY <1>1, CreatedNext, OrphanedNext, FiledNext, AloneNext, BasedNext
<1> QED
  BY <1>1, <1>2, <1>3, <1>4, <1>5, <1>6

\* All of it holds in every reachable state.
THEOREM Invariant == Spec => []StoreInv
BY StoreInit, StoreNext, PTL DEF Spec

\* No log ever names a manifest that is gone, unless a removal met, between its
\* check and its unlink, with someone adopting it: whatever the operations that
\* overlap, and however many (checkpoint.rs, refs.rs, sweep.rs).
THEOREM NamedManifestsStay == Spec => []LogsResolve
<1>1. StoreInv => LogsResolve
  BY DEF StoreInv, Keeping
<1> QED
  BY <1>1, Invariant, PTL

\* A manifest that a log names has all its content, though captures store
\* blobs one by one and take over others without touching them, while sweeps
\* remove what they found unnamed (checkpoint.rs, sweep.rs).
THEOREM NamedContentStays == Spec => []ContentIsKept
<1>1. StoreInv => ContentIsKept
  <2> SUFFICES ASSUME StoreInv, NEW s \in DOMAIN log, NEW m \in Manifest,
                      m \in ManifestsIn(log[s]), m \notin raced \cup hollow
               PROVE  Holds[m] \subseteq objects \cup raced
    BY DEF ContentIsKept
  <2>1. m \in objects
    BY DEF StoreInv, Keeping, LogsResolve
  <2> QED
    BY <2>1 DEF StoreInv, Keeping, Whole
<1> QED
  BY <1>1, Invariant, PTL

\* As long as no removal has met an adoption, nothing is wanting at all: no log
\* names a manifest that is gone, nor one whose content is (checkpoint.rs takes
\* content over from the latest manifest and never looks for its blobs).
THEOREM UnracedStoresAreWhole ==
    Spec => [](raced = {} =>
                 \A s \in DOMAIN log : \A m \in ManifestsIn(log[s]) :
                    m \in objects /\ Holds[m] \subseteq objects)
<1>1. StoreInv => (raced = {} =>
                     \A s \in DOMAIN log : \A m \in ManifestsIn(log[s]) :
                        m \in objects /\ Holds[m] \subseteq objects)
  <2> SUFFICES ASSUME StoreInv, raced = {}, NEW s \in DOMAIN log, NEW m \in ManifestsIn(log[s])
               PROVE  m \in objects /\ Holds[m] \subseteq objects
    OBVIOUS
  <2>1. m \in objects /\ hollow = {}
    BY DEF StoreInv, Knowing, Keeping, LogsResolve, Based
  <2>2. m \in Manifest
    BY EntriesName DEF StoreInv, Typed, TypeOK
  <2> QED
    BY <2>1, <2>2 DEF StoreInv, Keeping, Whole
<1> QED
  BY <1>1, Invariant, PTL

\* A turn that a log lists can be rewound to once its capture has ended, though
\* deletes take the entries of turns that others may have come to list since,
\* and collection any that it found unlisted (turns.rs, sweep.rs).
THEOREM ListedTurnsStay == Spec => []TurnsResolve
<1>1. StoreInv => TurnsResolve
  BY DEF StoreInv, Keeping
<1> QED
  BY <1>1, Invariant, PTL

\* Collection converges in one pass: one that began with all settled and has
\* had the store to itself leaves nothing no log leads to (sweep.rs).
THEOREM CollectionConverges == Spec => []OnePassReclaims
<1>1. StoreInv => OnePassReclaims
  <2> SUFFICES ASSUME StoreInv, NEW p \in Proc, op[p].stage = "blobs",
                      op[p].todo \cup op[p].condemned = {}, op[p].quiet
               PROVE  /\ DOMAIN undo \subseteq DOMAIN log
                      /\ DOMAIN turns \subseteq LogTurns
                      /\ objects \subseteq Rooted \cup (UNION {Holds[m] : m \in Rooted})
    BY DEF OnePassReclaims, LogTurns, Rooted
  <2>1. Reclaiming(p)
    BY DEF StoreInv, Knowing, Alone
  <2>2. DOMAIN undo \subseteq DOMAIN log /\ DOMAIN turns \subseteq LogTurns
    BY <2>1 DEF Reclaiming, PrunesFirst, ReadsTruly
  <2>3. /\ Manifest \cap objects \subseteq Rooted
        /\ Blob \cap objects \subseteq UNION {Holds[m] : m \in Rooted}
    BY <2>1 DEF Reclaiming, MissesNothing
  <2>4. objects \subseteq Blob \cup Manifest
    BY DEF StoreInv, Typed, TypeOK, Object
  <2> QED
    BY <2>2, <2>3, <2>4
<1> QED
  BY <1>1, Invariant, PTL

\* A session's history is only ever appended to until the session is deleted,
\* unless a log appears between ensure's check and the empty one it writes
\* (refs.rs): no other interleaving shortens or rewrites it.
THEOREM HistoriesGrow == Spec => HistoryIsKept
<1>1. StoreInv /\ [Next]_vars =>
        [\A s \in DOMAIN log :
           \/ s \in DOMAIN log' /\ IsPrefix(log[s], log'[s])
           \/ LogFile(s) \in raced'
           \/ \E p \in Proc : op[p].stage = "unlink log" /\ op[p].session = s]_vars
  BY HistoryStep DEF StoreInv, Knowing
<1> QED
  BY <1>1, Invariant, PTL DEF Spec, HistoryIsKept

\* No undo record of a session with a log is lost but by spending it, by the
\* limit, by deletion, by a push or a pop whose stack was changed since it read
\* it, or by a collection that looked before the log came (refs.rs, sweep.rs).
THEOREM UndoRecordsStay == Spec => UndoIsKept
<1>1. StoreInv /\ [Next]_vars =>
        [\A s \in DOMAIN undo \cap DOMAIN log :
           \/ RecordsStay(s)
           \/ \E p \in Proc :
                \/ Outdated(op[p], s) /\ op'[p].stage = "idle"
                \/ op[p].stage = "unlink undo" /\ op[p].session = s
                \/ /\ op[p].stage = "orphans" /\ UndoFile(s) \in op[p].condemned
                   /\ LogFile(s) \in op[p].renewed]_vars
  BY UndoStep DEF StoreInv, Knowing, Forgone
<1> QED
  BY <1>1, Invariant, PTL DEF Spec, UndoIsKept

\* Undo records are filed under sessions with a log, whatever dies where and
\* whoever deletes, forks and collects meanwhile, unless a hand-over met with
\* the deletion of its heir (store.rs, refs.rs).
THEOREM UndoRecordsHaveLogs == Spec => []UndoHasLog
<1>1. StoreInv => UndoHasLog
  BY DEF StoreInv, Knowing, Filed
<1> QED
  BY <1>1, Invariant, PTL

=============================================================================
