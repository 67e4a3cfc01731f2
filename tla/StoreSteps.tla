------------------------------ MODULE StoreSteps ------------------------------
(***************************************************************************)
(* What each step of the shared store of one workspace does to the         *)
(* operations under way and to the files, and that the types are kept.     *)
(***************************************************************************)
EXTENDS Store, SequenceTheorems, TLAPS

-----------------------------------------------------------------------------
(* What an operation looks like at each of its stages. *)

Saving(o) == o.kind \in {"capture", "rewind", "undo"}

\* Where each kind of operation can be.
KindAndStage(o) ==
    /\ o.stage = "idle" => o = NoOp
    /\ o.stage \in {"store", "index"} => Saving(o) /\ o.locked
    /\ o.stage \in {"ensure", "create"} => o.kind = "fork" \/ (o.kind = "rewind" /\ o.owner # Nobody)
    /\ o.stage \in {"push", "record"} => o.kind = "rewind" /\ o.owner # Nobody
    /\ o.stage \in {"pop", "spend"} => o.kind = "undo" /\ o.locked
    /\ o.stage = "inherit" => o.kind = "fork" /\ o.entries # <<>>
    /\ o.stage \in {"lock", "unlink undo", "unlink log"} => o.kind = "delete"
    /\ o.stage \in {"unlink undo", "unlink log"} => o.locked
    /\ o.stage \in {"roots", "turns", "manifests"} => Sweeper(o)
    /\ o.stage \in {"orphans", "mark", "blobs"} => o.kind = "collect"

\* What each kind and each stage has to work with.
Equipped(o) ==
    /\ Saving(o) => o.session \in Session /\ o.turn \in TurnKey /\ o.manifest \in Manifest
    /\ o.kind \in {"rewind", "undo"} => o.target \in Manifest
    /\ o.kind \in {"fork", "delete"} => o.session \in Session
    /\ o.kind # "fork" => o.entries = <<>>
    /\ Len(o.stack) <= MaxUndo /\ (o.stage = "spend" => o.stack # <<>>)
    /\ o.found \subseteq o.todo /\ (o.stage # "store" => o.found = {})
    /\ o.condemned \subseteq CASE o.stage = "orphans" -> {UndoFile(s) : s \in Session}
                               [] o.stage = "turns" -> {TurnFile(t) : t \in TurnKey}
                               [] o.stage = "manifests" -> Manifest
                               [] o.stage = "blobs" -> Blob
                               [] OTHER -> {}
    /\ o.stage = "blobs" => o.todo \subseteq Blob

Shaped(o) == o \in Operation /\ KindAndStage(o) /\ Equipped(o)

Typed == TypeOK /\ \A p \in Proc : Shaped(op[p])

Fields ==
    {"kind", "stage", "session", "locked", "owner", "stack", "turn", "manifest", "target",
     "todo", "found", "entries", "doomedTurns", "doomed", "unread", "liveTurns", "live",
     "condemned", "span", "met", "renewed", "lent", "base", "quiet"}

\* o is n but for the fields F.
Keeps(o, n, F) == \A f \in Fields \ F : o[f] = n[f]

\* What it adds to an operation's history that `file' was touched and `record'
\* rewritten.
Ages(o, n, file, record) ==
    /\ o.span = n.span \cup file
    /\ o.condemned # {} \/ o.stage = "create" => o.renewed = n.renewed \cup file \cup record

\* Nobody but p does anything: the others only age.
Others(p, file, record) ==
    /\ op' \in [Proc -> Operation] /\ \A q \in Proc : Shaped(op'[q])
    /\ fresh' = fresh \cup file
    /\ \A q \in Proc \ {p} :
         /\ Keeps(op'[q], op[q], {"span", "renewed"})
         /\ op[q].stage = "idle" => op'[q].span = {}
         /\ op[q].stage # "idle" => Ages(op'[q], op[q], file, record)

\* p goes on, with nothing but F changed, or ends.
Goes(p, F, file, record) ==
    /\ Others(p, file, record)
    /\ op[p].stage # "idle" /\ op'[p].stage # "idle"
    /\ Keeps(op'[p], op[p], F \cup {"span", "renewed"})
    /\ Ages(op'[p], op[p], file, record)

Stops(p, file, record) == Others(p, file, record) /\ op'[p] = NoOp

-----------------------------------------------------------------------------
(* What a step does to the operations. *)

\* The idle operation is one.
LEMMA NoOpFacts == Shaped(NoOp)
<1>1. NoOp \in Operation
  BY EmptySeq DEF NoOp, Operation
<1>2. KindAndStage(NoOp)
  BY DEF NoOp, KindAndStage
<1>3. Len(NoOp.stack) <= MaxUndo
  BY MaxAssumption, EmptySeq DEF NoOp
<1>4. Equipped(NoOp)
  BY <1>3 DEF NoOp, Equipped, Saving
<1> QED
  BY <1>1, <1>2, <1>4 DEF Shaped

\* An operation that has seen files touched.
Aged(o, S, R) == [o EXCEPT !.span = S, !.renewed = R]

\* It is what it was but for that.
LEMMA AgedFacts ==
    ASSUME NEW o, Shaped(o), o.stage # "idle", NEW S \in SUBSET File, NEW R \in SUBSET File
    PROVE  /\ Shaped(Aged(o, S, R)) /\ Keeps(Aged(o, S, R), o, {"span", "renewed"})
           /\ Aged(o, S, R).span = S /\ Aged(o, S, R).renewed = R
<1> DEFINE a == Aged(o, S, R)
<1>1. o \in Operation
  BY DEF Shaped
<1>2. a \in Operation /\ a.span = S /\ a.renewed = R
  BY <1>1 DEF Operation, Aged
<1>3. Keeps(a, o, {"span", "renewed"})
  BY <1>1 DEF Operation, Keeps, Fields, Aged
<1> HIDE DEF a
<1>4. KindAndStage(a) /\ Equipped(a)
  BY <1>3 DEF Shaped, KindAndStage, Equipped, Keeps, Fields, Saving, Sweeper
<1> QED
  BY <1>2, <1>3, <1>4 DEF Shaped, a

\* The operation of each process after a step that leaves p at r.
LEMMA SteppedFacts ==
    ASSUME Typed, NEW p \in Proc, NEW r, Shaped(r),
           NEW file \in SUBSET File, NEW record \in SUBSET File,
           op' = Stepped(p, r, file, record)
    PROVE  /\ op' \in [Proc -> Operation]
           /\ \A q \in Proc :
                LET now == IF q = p THEN r ELSE op[q] IN
                /\ Shaped(op'[q])
                /\ now.stage = "idle" => op'[q] = NoOp /\ now = NoOp
                /\ now.stage # "idle" => /\ Keeps(op'[q], now, {"span", "renewed"})
                                         /\ Ages(op'[q], now, file, record)
<1> SUFFICES ASSUME NEW q \in Proc
             PROVE  LET now == IF q = p THEN r ELSE op[q] IN
                    /\ Shaped(op'[q])
                    /\ now.stage = "idle" => op'[q] = NoOp /\ now = NoOp
                    /\ now.stage # "idle" => /\ Keeps(op'[q], now, {"span", "renewed"})
                                             /\ Ages(op'[q], now, file, record)
  <2>1. op' \in [Proc -> {op'[q] : q \in Proc}]
    BY DEF Stepped
  <2> QED
    BY <2>1 DEF Shaped
<1> DEFINE now == IF q = p THEN r ELSE op[q]
           R == IF now.condemned = {} /\ now.stage # "create" THEN {}
                ELSE now.renewed \cup file \cup record
<1>1. Shaped(now)
  BY DEF Typed
<1>2. op'[q] = IF now.stage = "idle" THEN NoOp
               ELSE [now EXCEPT !.span = now.span \cup file, !.renewed = R]
  BY DEF Stepped
<1> HIDE DEF now
<1>3. CASE now.stage = "idle"
  <2>1. now = NoOp
    BY <1>1, <1>3 DEF Shaped, KindAndStage
  <2> QED
    BY <1>2, <1>3, <2>1, NoOpFacts DEF now
<1>4. CASE now.stage # "idle"
  <2> DEFINE S == now.span \cup file
  <2>1. S \in SUBSET File /\ R \in SUBSET File
    BY <1>1 DEF Shaped, Operation
  <2>2. op'[q] = Aged(now, S, R)
    BY <1>2, <1>4 DEF Aged
  <2> HIDE DEF R, S
  <2>3. /\ Shaped(op'[q]) /\ Keeps(op'[q], now, {"span", "renewed"})
        /\ op'[q].span = S /\ op'[q].renewed = R
    BY <1>1, <1>4, <2>1, <2>2, AgedFacts
  <2>4. op'[q].condemned = now.condemned /\ op'[q].stage = now.stage
    BY <2>3 DEF Keeps, Fields
  <2> QED
    BY <1>4, <2>3, <2>4 DEF R, S, now, Ages
<1> QED
  BY <1>3, <1>4

\* ... seen from the others.
LEMMA OthersAge ==
    ASSUME Typed, NEW p \in Proc, NEW r, Shaped(r),
           NEW file \in SUBSET File, NEW record \in SUBSET File,
           op' = Stepped(p, r, file, record), fresh' = fresh \cup file
    PROVE  Others(p, file, record)
<1>1. ASSUME NEW q \in Proc \ {p}, op[q].stage = "idle"
      PROVE  Keeps(op'[q], op[q], {"span", "renewed"}) /\ op'[q].span = {}
  <2>1. op'[q] = NoOp /\ op[q] = NoOp
    BY <1>1, SteppedFacts
  <2>2. NoOp.span = {} /\ Keeps(NoOp, NoOp, {"span", "renewed"})
    BY DEF NoOp, Keeps
  <2> QED
    BY <2>1, <2>2
<1>2. ASSUME NEW q \in Proc \ {p}, op[q].stage # "idle"
      PROVE  /\ Keeps(op'[q], op[q], {"span", "renewed"})
             /\ Ages(op'[q], op[q], file, record)
  BY <1>2, SteppedFacts
<1>3. op' \in [Proc -> Operation] /\ \A q \in Proc : Shaped(op'[q])
  BY SteppedFacts
<1> QED
  BY <1>1, <1>2, <1>3 DEF Others

\* ... and from p, if it goes on.
LEMMA GoesOn ==
    ASSUME Typed, NEW p \in Proc, op[p].stage # "idle",
           NEW r, Shaped(r), r.stage # "idle",
           NEW F, Keeps(r, op[p], F), "span" \notin F, "renewed" \notin F,
           NEW file \in SUBSET File, NEW record \in SUBSET File,
           op' = Stepped(p, r, file, record), fresh' = fresh \cup file
    PROVE  Goes(p, F, file, record) /\ Keeps(op'[p], r, {"span", "renewed"})
<1>1. Keeps(op'[p], r, {"span", "renewed"}) /\ Ages(op'[p], r, file, record)
  BY SteppedFacts
<1>2. Keeps(op'[p], op[p], F \cup {"span", "renewed"})
  BY <1>1 DEF Keeps
<1>3. op'[p].stage = r.stage
  BY <1>1 DEF Keeps, Fields
<1>4. r.span = op[p].span /\ r.renewed = op[p].renewed
  BY DEF Keeps, Fields
<1>5. Ages(op'[p], op[p], file, record)
  BY <1>1, <1>4 DEF Ages
<1> QED
  BY <1>1, <1>2, <1>3, <1>5, OthersAge DEF Goes

\* ... or ends.
LEMMA GoesHome ==
    ASSUME Typed, NEW p \in Proc,
           NEW file \in SUBSET File, NEW record \in SUBSET File,
           op' = Stepped(p, NoOp, file, record), fresh' = fresh \cup file
    PROVE  Stops(p, file, record)
<1>1. NoOp.stage = "idle"
  BY DEF NoOp
<1> QED
  BY <1>1, NoOpFacts, OthersAge, SteppedFacts DEF Stops

\* Steps that touch nothing, and steps that touch one file.
LEMMA SilentSteps ==
    ASSUME Typed, NEW p \in Proc, op[p].stage # "idle",
           NEW r, Shaped(r), r.stage # "idle",
           NEW F, Keeps(r, op[p], F), "span" \notin F, "renewed" \notin F,
           Step(p, r)
    PROVE  Goes(p, F, {}, {}) /\ Keeps(op'[p], r, {"span", "renewed"})
<1>1. op' = Stepped(p, r, {}, {}) /\ fresh' = fresh \cup {}
  BY DEF Step
<1> QED
  BY <1>1, GoesOn

\* A log is rewritten.
LEMMA LoggingSteps ==
    ASSUME Typed, NEW p \in Proc, op[p].stage # "idle",
           NEW r, Shaped(r), r.stage # "idle",
           NEW F, Keeps(r, op[p], F), "span" \notin F, "renewed" \notin F,
           NEW s \in Session, StepLogging(p, r, s)
    PROVE  Goes(p, F, {}, {LogFile(s)}) /\ Keeps(op'[p], r, {"span", "renewed"})
<1>1. /\ op' = Stepped(p, r, {}, {LogFile(s)}) /\ fresh' = fresh \cup {}
      /\ {LogFile(s)} \in SUBSET File
  BY DEF StepLogging, File
<1> QED
  BY <1>1, GoesOn

\* A file is touched.
LEMMA TouchingSteps ==
    ASSUME Typed, NEW p \in Proc, op[p].stage # "idle",
           NEW r, Shaped(r), r.stage # "idle",
           NEW F, Keeps(r, op[p], F), "span" \notin F, "renewed" \notin F,
           NEW f \in File, StepTouching(p, r, f)
    PROVE  Goes(p, F, {f}, {}) /\ Keeps(op'[p], r, {"span", "renewed"})
<1>1. /\ op' = Stepped(p, r, {f}, {}) /\ fresh' = fresh \cup {f}
      /\ {f} \in SUBSET File /\ {} \in SUBSET File
  BY DEF StepTouching
<1> QED
  BY <1>1, GoesOn

\* The last step of an operation, of each of these kinds.
LEMMA LastSteps ==
    ASSUME Typed, NEW p \in Proc
    PROVE  /\ Step(p, NoOp) => Stops(p, {}, {})
           /\ \A s \in Session : StepLogging(p, NoOp, s) => Stops(p, {}, {LogFile(s)})
           /\ \A f \in File : StepTouching(p, NoOp, f) => Stops(p, {f}, {})
<1>1. ASSUME Step(p, NoOp) PROVE Stops(p, {}, {})
  BY <1>1, GoesHome DEF Step
<1>2. ASSUME NEW s \in Session, StepLogging(p, NoOp, s) PROVE Stops(p, {}, {LogFile(s)})
  <2>1. {LogFile(s)} \in SUBSET File
    BY DEF File
  <2> QED
    BY <1>2, <2>1, GoesHome DEF StepLogging
<1>3. ASSUME NEW f \in File, StepTouching(p, NoOp, f) PROVE Stops(p, {f}, {})
  BY <1>3, GoesHome DEF StepTouching
<1> QED
  BY <1>1, <1>2, <1>3

-----------------------------------------------------------------------------
(* The steps of a capture. *)

\* Store finds an object or writes it.
LEMMA StoreSteps ==
    ASSUME Typed, NEW p \in Proc, NEW o \in Object, Store(p, o)
    PROVE  \/ /\ o \in objects /\ UNCHANGED <<objects, hollow>>
              /\ Goes(p, {"found"}, {}, {}) /\ op'[p].found = {o}
           \/ /\ o \notin objects /\ objects' = objects \cup {o}
              /\ Goes(p, {"todo"}, {o}, {}) /\ op'[p].todo = op[p].todo \ {o}
<1>1. op[p] \in Operation /\ Shaped(op[p]) /\ op[p].stage = "store" /\ o \in File
  BY DEF Typed, Shaped, Store, File
<1>2. CASE o \in objects
  <2> DEFINE r == [op[p] EXCEPT !.found = {o}]
  <2>0. {o} \in SUBSET Object
    OBVIOUS
  <2>1. r \in Operation /\ r.found = {o} /\ Keeps(r, op[p], {"found"})
    BY <1>1, <2>0 DEF Operation, Keeps, Fields
  <2>2. Step(p, r) /\ UNCHANGED <<objects, hollow>>
    BY <1>2 DEF Store
  <2> HIDE DEF r
  <2>3. Shaped(r) /\ r.stage = "store"
    BY <1>1, <2>1 DEF Shaped, KindAndStage, Equipped, Keeps, Fields, Saving, Store
  <2>4. Goes(p, {"found"}, {}, {}) /\ Keeps(op'[p], r, {"span", "renewed"})
    BY <1>1, <2>1, <2>2, <2>3, SilentSteps
  <2> QED
    BY <1>2, <2>1, <2>2, <2>4 DEF Keeps, Fields
<1>3. CASE o \notin objects
  <2> DEFINE r == [op[p] EXCEPT !.todo = @ \ {o}]
  <2>1. r \in Operation /\ r.todo = op[p].todo \ {o} /\ Keeps(r, op[p], {"todo"})
    BY <1>1 DEF Operation, Keeps, Fields
  <2>2. StepTouching(p, r, o) /\ objects' = objects \cup {o}
    BY <1>3 DEF Store
  <2> HIDE DEF r
  <2>3. Shaped(r) /\ r.stage = "store"
    BY <1>1, <2>1 DEF Shaped, KindAndStage, Equipped, Keeps, Fields, Saving, Store
  <2>4. Goes(p, {"todo"}, {o}, {}) /\ Keeps(op'[p], r, {"span", "renewed"})
    BY <1>1, <2>1, <2>2, <2>3, TouchingSteps
  <2> QED
    BY <1>3, <2>1, <2>2, <2>4 DEF Keeps, Fields
<1> QED
  BY <1>2, <1>3

\* Freshen is done with an object, which it has touched if it was there.
LEMMA FreshenSteps ==
    ASSUME Typed, NEW p \in Proc, NEW o \in Object, Freshen(p, o)
    PROVE  /\ op[p].stage = "store"
           /\ op'[p].todo = op[p].todo \ {o} /\ op'[p].found = {}
           /\ o \in objects => Goes(p, {"todo", "found"}, {o}, {})
           /\ o \notin objects => Goes(p, {"todo", "found"}, {}, {})
<1> DEFINE r == [op[p] EXCEPT !.todo = @ \ {o}, !.found = {}]
<1>1. op[p] \in Operation /\ Shaped(op[p]) /\ op[p].stage = "store" /\ o \in File
  BY DEF Typed, Shaped, Equipped, Freshen, File
<1>2. /\ r \in Operation /\ r.todo = op[p].todo \ {o} /\ r.found = {}
      /\ Keeps(r, op[p], {"todo", "found"})
  BY <1>1 DEF Operation, Keeps, Fields
<1>3. IF o \in objects THEN StepTouching(p, r, o) ELSE Step(p, r)
  BY DEF Freshen
<1> HIDE DEF r
<1>4. Shaped(r) /\ r.stage = "store"
  BY <1>1, <1>2 DEF Shaped, KindAndStage, Equipped, Keeps, Fields, Saving
<1>5. /\ o \in objects => Goes(p, {"todo", "found"}, {o}, {})
      /\ o \notin objects => Goes(p, {"todo", "found"}, {}, {})
      /\ Keeps(op'[p], r, {"span", "renewed"})
  BY <1>1, <1>2, <1>3, <1>4, SilentSteps, TouchingSteps
<1> QED
  BY <1>1, <1>2, <1>5 DEF Keeps, Fields

\* AppendEntry goes on to the index.
LEMMA AppendSteps ==
    ASSUME Typed, NEW p \in Proc, AppendEntry(p)
    PROVE  /\ Goes(p, {"stage"}, {}, {LogFile(op[p].session)}) /\ op'[p].stage = "index"
           /\ Saving(op[p]) /\ op[p].session \in Session /\ op[p].locked
           /\ op[p].turn \in TurnKey /\ op[p].manifest \in Manifest
<1> DEFINE r == [op[p] EXCEPT !.stage = "index"]
<1>1. op[p] \in Operation /\ Shaped(op[p]) /\ op[p].stage = "store"
  BY DEF Typed, Shaped, AppendEntry
<1>2. /\ Saving(op[p]) /\ op[p].session \in Session /\ op[p].locked
      /\ op[p].turn \in TurnKey /\ op[p].manifest \in Manifest
      /\ op[p].found = {} /\ op[p].condemned = {}
  BY <1>1 DEF Shaped, KindAndStage, Equipped, AppendEntry
<1>3. r \in Operation /\ r.stage = "index" /\ Keeps(r, op[p], {"stage"})
  BY <1>1 DEF Operation, Keeps, Fields
<1>4. StepLogging(p, r, op[p].session)
  BY DEF AppendEntry
<1> HIDE DEF r
<1>5. Shaped(r)
  BY <1>1, <1>2, <1>3 DEF Shaped, KindAndStage, Equipped, Keeps, Fields, Saving
<1>6. /\ Goes(p, {"stage"}, {}, {LogFile(op[p].session)})
      /\ Keeps(op'[p], r, {"span", "renewed"})
  BY <1>1, <1>2, <1>3, <1>4, <1>5, LoggingSteps
<1> QED
  BY <1>2, <1>3, <1>6 DEF Keeps, Fields

\* SetTurn touches the turn's entry; a plain capture is over then.
LEMMA SetTurnSteps ==
    ASSUME Typed, NEW p \in Proc, SetTurn(p)
    PROVE  /\ op[p].stage = "index" /\ Saving(op[p])
           /\ op[p].turn \in TurnKey /\ op[p].manifest \in Manifest
           /\ \/ /\ Goes(p, {"stage"}, {TurnFile(op[p].turn)}, {})
                 /\ op'[p].stage \in {"pop", "ensure"}
              \/ Stops(p, {TurnFile(op[p].turn)}, {})
<1> DEFINE pop == [op[p] EXCEPT !.stage = "pop"]
           ensure == [op[p] EXCEPT !.stage = "ensure"]
           f == TurnFile(op[p].turn)
<1>1. op[p] \in Operation /\ Shaped(op[p]) /\ op[p].stage = "index"
  BY DEF Typed, Shaped, SetTurn
<1>2. /\ Saving(op[p]) /\ op[p].turn \in TurnKey /\ op[p].manifest \in Manifest
      /\ f \in File
  BY <1>1 DEF Shaped, KindAndStage, Equipped, File
<1>3. pop \in Operation /\ pop.stage = "pop" /\ Keeps(pop, op[p], {"stage"})
  BY <1>1 DEF Operation, Keeps, Fields
<1>8. ensure \in Operation /\ ensure.stage = "ensure" /\ Keeps(ensure, op[p], {"stage"})
  BY <1>1 DEF Operation, Keeps, Fields
<1>4. \/ op[p].kind = "undo" /\ StepTouching(p, pop, f)
      \/ /\ op[p].kind = "rewind" /\ op[p].owner # Nobody
         /\ StepTouching(p, ensure, f)
      \/ StepTouching(p, NoOp, f)
  BY DEF SetTurn, Ended
<1> HIDE DEF pop, ensure, f
<1>5. CASE op[p].kind = "undo" /\ StepTouching(p, pop, f)
  <2>1. Shaped(pop)
    BY <1>1, <1>2, <1>3, <1>5 DEF Shaped, KindAndStage, Equipped, Keeps, Fields, Saving
  <2>2. Goes(p, {"stage"}, {f}, {}) /\ Keeps(op'[p], pop, {"span", "renewed"})
    BY <1>1, <1>2, <1>3, <1>5, <2>1, TouchingSteps
  <2> QED
    BY <1>1, <1>2, <1>3, <2>2 DEF Keeps, Fields, f
<1>6. CASE /\ op[p].kind = "rewind" /\ op[p].owner # Nobody
           /\ StepTouching(p, ensure, f)
  <2>1. Shaped(ensure)
    BY <1>1, <1>2, <1>8, <1>6 DEF Shaped, KindAndStage, Equipped, Keeps, Fields, Saving
  <2>2. Goes(p, {"stage"}, {f}, {}) /\ Keeps(op'[p], ensure, {"span", "renewed"})
    BY <1>1, <1>2, <1>8, <1>6, <2>1, TouchingSteps
  <2> QED
    BY <1>1, <1>2, <1>8, <2>2 DEF Keeps, Fields, f
<1>7. CASE StepTouching(p, NoOp, f)
  BY <1>1, <1>2, <1>7, LastSteps DEF f
<1> QED
  BY <1>4, <1>5, <1>6, <1>7

-----------------------------------------------------------------------------
(* The steps of a hand-over, an undo and a fork. *)

\* What follows on a log that is there.
LEMMA EnsuredFacts ==
    ASSUME NEW o, Shaped(o), o.stage \in {"ensure", "create"}
    PROVE  /\ Heir(o) \in Session
           /\ \/ Ensured(o) = NoOp
              \/ /\ Shaped(Ensured(o)) /\ Ensured(o).stage \in {"push", "inherit"}
                 /\ Keeps(Ensured(o), o, {"stage"})
<1>1. o \in Operation
  BY DEF Shaped
<1>2. Heir(o) \in Session
  BY <1>1 DEF Heir, Shaped, KindAndStage, Equipped, Operation
<1>3. CASE o.kind = "rewind"
  <2> DEFINE r == [o EXCEPT !.stage = "push"]
  <2>1. Ensured(o) = r
    BY <1>3 DEF Ensured
  <2>2. r \in Operation /\ r.stage = "push" /\ Keeps(r, o, {"stage"})
    BY <1>1 DEF Operation, Keeps, Fields
  <2> HIDE DEF r
  <2>3. Shaped(r)
    BY <1>3, <2>2 DEF Shaped, KindAndStage, Equipped, Keeps, Fields, Saving, Sweeper
  <2> QED
    BY <1>2, <2>1, <2>2, <2>3
<1>4. CASE o.kind # "rewind" /\ o.entries # <<>>
  <2> DEFINE r == [o EXCEPT !.stage = "inherit"]
  <2>1. Ensured(o) = r
    BY <1>4 DEF Ensured
  <2>2. r \in Operation /\ r.stage = "inherit" /\ Keeps(r, o, {"stage"})
    BY <1>1 DEF Operation, Keeps, Fields
  <2> HIDE DEF r
  <2>3. Shaped(r)
    BY <1>4, <2>2 DEF Shaped, KindAndStage, Equipped, Keeps, Fields, Saving, Sweeper
  <2> QED
    BY <1>2, <2>1, <2>2, <2>3
<1>5. CASE o.kind # "rewind" /\ o.entries = <<>>
  BY <1>2, <1>5 DEF Ensured, Ended
<1> QED
  BY <1>3, <1>4, <1>5

\* Ensure goes past a log that is there, and on to create one that is not.
LEMMA EnsureSteps ==
    ASSUME Typed, NEW p \in Proc, Ensure(p)
    PROVE  /\ op[p].stage = "ensure" /\ Heir(op[p]) \in Session
           /\ \/ Stops(p, {}, {})
              \/ /\ Goes(p, {"stage"}, {}, {})
                 /\ \/ op'[p].stage \in {"push", "inherit"} /\ Heir(op[p]) \in DOMAIN log
                    \/ op'[p].stage = "create" /\ Heir(op[p]) \notin DOMAIN log
<1> DEFINE r == [op[p] EXCEPT !.stage = "create"]
<1>1. op[p] \in Operation /\ Shaped(op[p]) /\ op[p].stage = "ensure"
  BY DEF Typed, Shaped, Ensure
<1>2. r \in Operation /\ r.stage = "create" /\ Keeps(r, op[p], {"stage"})
  BY <1>1 DEF Operation, Keeps, Fields
<1>3. \/ Heir(op[p]) \in DOMAIN log /\ Step(p, Ensured(op[p]))
      \/ Heir(op[p]) \notin DOMAIN log /\ Step(p, r)
  BY DEF Ensure
<1> HIDE DEF r
<1>4. CASE Heir(op[p]) \in DOMAIN log /\ Step(p, Ensured(op[p]))
  <2>1. CASE Ensured(op[p]) = NoOp
    BY <1>1, <1>4, <2>1, EnsuredFacts, LastSteps
  <2>2. CASE Ensured(op[p]) # NoOp
    <3> DEFINE e == Ensured(op[p])
    <3>1. Shaped(e) /\ e.stage \in {"push", "inherit"} /\ Keeps(e, op[p], {"stage"})
      BY <1>1, <2>2, EnsuredFacts
    <3> HIDE DEF e
    <3>2. Goes(p, {"stage"}, {}, {}) /\ Keeps(op'[p], e, {"span", "renewed"})
      BY <1>1, <1>4, <3>1, SilentSteps DEF e
    <3> QED
      BY <1>1, <1>4, <3>1, <3>2, EnsuredFacts DEF Keeps, Fields
  <2> QED
    BY <2>1, <2>2
<1>5. CASE Heir(op[p]) \notin DOMAIN log /\ Step(p, r)
  <2>1. Shaped(r)
    BY <1>1, <1>2 DEF Shaped, KindAndStage, Equipped, Keeps, Fields, Saving, Sweeper
  <2>2. Goes(p, {"stage"}, {}, {}) /\ Keeps(op'[p], r, {"span", "renewed"})
    BY <1>1, <1>2, <1>5, <2>1, SilentSteps
  <2> QED
    BY <1>1, <1>2, <1>5, <2>2, EnsuredFacts DEF Keeps, Fields
<1> QED
  BY <1>3, <1>4, <1>5

\* Create rewrites the heir's log.
LEMMA CreateSteps ==
    ASSUME Typed, NEW p \in Proc, Create(p)
    PROVE  /\ op[p].stage = "create" /\ Heir(op[p]) \in Session
           /\ \/ Stops(p, {}, {LogFile(Heir(op[p]))})
              \/ /\ Goes(p, {"stage"}, {}, {LogFile(Heir(op[p]))})
                 /\ op'[p].stage \in {"push", "inherit"}
<1>1. Shaped(op[p]) /\ op[p].stage = "create" /\ StepLogging(p, Ensured(op[p]), Heir(op[p]))
  BY DEF Typed, Create
<1>2. Heir(op[p]) \in Session
  BY <1>1, EnsuredFacts
<1>3. CASE Ensured(op[p]) = NoOp
  BY <1>1, <1>2, <1>3, LastSteps
<1>4. CASE Ensured(op[p]) # NoOp
  <2> DEFINE e == Ensured(op[p])
  <2>1. Shaped(e) /\ e.stage \in {"push", "inherit"} /\ Keeps(e, op[p], {"stage"})
    BY <1>1, <1>4, EnsuredFacts
  <2> HIDE DEF e
  <2>2. /\ Goes(p, {"stage"}, {}, {LogFile(Heir(op[p]))})
        /\ Keeps(op'[p], e, {"span", "renewed"})
    BY <1>1, <1>2, <2>1, LoggingSteps DEF e
  <2> QED
    BY <1>1, <1>2, <2>1, <2>2 DEF Keeps, Fields
<1> QED
  BY <1>3, <1>4

\* A stack that is there is one of no more than MaxUndo records.
LEMMA StackFacts ==
    ASSUME Typed, NEW s \in Session
    PROVE  StackOf(s) \in Seq(Record) /\ Len(StackOf(s)) <= MaxUndo
<1>1. <<>> \in Seq(Record) /\ Len(<<>>) <= MaxUndo
  BY MaxAssumption
<1> QED
  BY <1>1 DEF Typed, TypeOK, StackOf

\* ReadStack takes the owner's stack along.
LEMMA ReadStackSteps ==
    ASSUME Typed, NEW p \in Proc, ReadStack(p)
    PROVE  op[p].stage = "push" /\ Goes(p, {"stage", "stack"}, {}, {}) /\ op'[p].stage = "record"
<1> DEFINE stack == StackOf(op[p].owner)
           r == [op[p] EXCEPT !.stage = "record", !.stack = stack]
<1>1. /\ op[p] \in Operation /\ Shaped(op[p]) /\ op[p].stage = "push"
      /\ op[p].owner \in Session
  BY DEF Typed, Shaped, KindAndStage, Equipped, Operation, ReadStack
<1>2. stack \in Seq(Record) /\ Len(stack) <= MaxUndo
  BY <1>1, StackFacts
<1>3. Step(p, r)
  BY DEF ReadStack
<1> HIDE DEF stack
<1>4. /\ r \in Operation /\ r.stage = "record" /\ r.stack = stack
      /\ Keeps(r, op[p], {"stage", "stack"})
  BY <1>1, <1>2 DEF Operation, Keeps, Fields
<1> HIDE DEF r
<1>5. Shaped(r)
  BY <1>1, <1>2, <1>4 DEF Shaped, KindAndStage, Equipped, Keeps, Fields, Saving, Sweeper
<1>6. Goes(p, {"stage", "stack"}, {}, {}) /\ Keeps(op'[p], r, {"span", "renewed"})
  BY <1>1, <1>3, <1>4, <1>5, SilentSteps
<1> QED
  BY <1>1, <1>4, <1>6 DEF Keeps, Fields

\* Push is a last step.
LEMMA PushSteps ==
    ASSUME Typed, NEW p \in Proc, Push(p)
    PROVE  /\ op[p].stage = "record" /\ op[p].owner \in Session
           /\ op[p].target \in Manifest /\ op[p].manifest \in Manifest
           /\ Stops(p, {UndoFile(op[p].owner)}, {})
<1>1. /\ op[p].stage = "record" /\ op[p].owner \in Session
      /\ op[p].target \in Manifest /\ op[p].manifest \in Manifest
  BY DEF Typed, Shaped, KindAndStage, Equipped, Operation, Push, Saving
<1>2. StepTouching(p, NoOp, UndoFile(op[p].owner)) /\ UndoFile(op[p].owner) \in File
  BY <1>1 DEF Push, Ended, File
<1> QED
  BY <1>1, <1>2, LastSteps

\* ReadRecord ends, or takes a stack of some records along.
LEMMA ReadRecordSteps ==
    ASSUME Typed, NEW p \in Proc, ReadRecord(p)
    PROVE  /\ op[p].stage = "pop" /\ op[p].session \in Session
           /\ \/ Stops(p, {}, {})
              \/ /\ Goes(p, {"stage", "stack"}, {}, {}) /\ op'[p].stage = "spend"
                 /\ op'[p].stack = StackOf(op[p].session)
<1> DEFINE stack == StackOf(op[p].session)
           r == [op[p] EXCEPT !.stage = "spend", !.stack = stack]
<1>1. /\ op[p] \in Operation /\ Shaped(op[p]) /\ op[p].stage = "pop"
      /\ op[p].session \in Session
  BY DEF Typed, Shaped, KindAndStage, Equipped, Saving, ReadRecord
<1>2. stack \in Seq(Record) /\ Len(stack) <= MaxUndo
  BY <1>1, StackFacts
<1>3. CASE stack = <<>>
  BY <1>1, <1>3, LastSteps DEF ReadRecord, Ended
<1>4. CASE stack # <<>>
  <2>1. Step(p, r)
    BY <1>4 DEF ReadRecord
  <2> HIDE DEF stack
  <2>2. /\ r \in Operation /\ r.stage = "spend" /\ r.stack = stack
        /\ Keeps(r, op[p], {"stage", "stack"})
    BY <1>1, <1>2 DEF Operation, Keeps, Fields
  <2> HIDE DEF r
  <2>3. Shaped(r)
    BY <1>1, <1>2, <1>4, <2>2 DEF Shaped, KindAndStage, Equipped, Keeps, Fields, Saving, Sweeper
  <2>4. Goes(p, {"stage", "stack"}, {}, {}) /\ Keeps(op'[p], r, {"span", "renewed"})
    BY <1>1, <2>1, <2>2, <2>3, SilentSteps
  <2> QED
    BY <1>1, <2>2, <2>4 DEF Keeps, Fields, stack
<1> QED
  BY <1>3, <1>4

\* Pop ends, with the stack it read one record shorter.
LEMMA PopSteps ==
    ASSUME Typed, NEW p \in Proc, Pop(p)
    PROVE  /\ op[p].stage = "spend" /\ op[p].session \in Session
           /\ op[p].stack \in Seq(Record) /\ Len(op[p].stack) <= MaxUndo /\ op[p].stack # <<>>
           /\ Stops(p, {UndoFile(op[p].session)}, {})
<1>1. /\ op[p].stage = "spend" /\ op[p].session \in Session
      /\ op[p].stack \in Seq(Record) /\ Len(op[p].stack) <= MaxUndo /\ op[p].stack # <<>>
  BY DEF Typed, Shaped, KindAndStage, Equipped, Saving, Pop, Operation
<1>2. UndoFile(op[p].session) \in File /\ StepTouching(p, NoOp, UndoFile(op[p].session))
  BY <1>1 DEF File, Pop, Ended
<1> QED
  BY <1>1, <1>2, LastSteps

\* Inherit passes to the next entry, if there is one.
LEMMA InheritSteps ==
    ASSUME Typed, NEW p \in Proc, Inherit(p)
    PROVE  /\ op[p].stage = "inherit" /\ op[p].kind = "fork" /\ op[p].session \in Session
           /\ op[p].entries \in Seq(Entry) /\ op[p].entries # <<>>
           /\ \/ Stops(p, {}, {LogFile(op[p].session)})
              \/ /\ Goes(p, {"entries"}, {}, {LogFile(op[p].session)})
                 /\ op'[p].entries = Tail(op[p].entries)
<1> DEFINE rest == Tail(op[p].entries)
           r == [op[p] EXCEPT !.entries = rest]
<1>1. /\ op[p] \in Operation /\ Shaped(op[p]) /\ op[p].stage = "inherit"
      /\ op[p].kind = "fork" /\ op[p].session \in Session
      /\ op[p].entries \in Seq(Entry) /\ op[p].entries # <<>>
  BY DEF Typed, Shaped, KindAndStage, Equipped, Operation, Inherit
<1>2. rest \in Seq(Entry)
  BY <1>1, HeadTailProperties
<1>3. \/ rest = <<>> /\ StepLogging(p, NoOp, op[p].session)
      \/ rest # <<>> /\ StepLogging(p, r, op[p].session)
  BY DEF Inherit, Ended
<1> HIDE DEF rest
<1>4. r \in Operation /\ r.entries = rest /\ Keeps(r, op[p], {"entries"})
  BY <1>1, <1>2 DEF Operation, Keeps, Fields
<1> HIDE DEF r
<1>5. CASE rest = <<>> /\ StepLogging(p, NoOp, op[p].session)
  BY <1>1, <1>5, LastSteps
<1>6. CASE rest # <<>> /\ StepLogging(p, r, op[p].session)
  <2>1. Shaped(r) /\ r.stage = "inherit"
    BY <1>1, <1>4, <1>6 DEF Shaped, KindAndStage, Equipped, Keeps, Fields, Saving, Sweeper
  <2>2. /\ Goes(p, {"entries"}, {}, {LogFile(op[p].session)})
        /\ Keeps(op'[p], r, {"span", "renewed"})
    BY <1>1, <1>4, <1>6, <2>1, LoggingSteps
  <2> QED
    BY <1>1, <1>4, <2>2 DEF Keeps, Fields, rest
<1> QED
  BY <1>3, <1>5, <1>6

-----------------------------------------------------------------------------
(* The steps of a sweep. *)

\* LockDoomed takes the lock of a session nobody holds.
LEMMA LockDoomedSteps ==
    ASSUME Typed, NEW p \in Proc, LockDoomed(p)
    PROVE  /\ op[p].stage = "lock" /\ ~ Held(op[p].session)
           /\ Goes(p, {"stage", "locked"}, {}, {}) /\ op'[p].stage = "unlink undo"
           /\ op'[p].locked
<1> DEFINE r == [op[p] EXCEPT !.stage = "unlink undo", !.locked = TRUE]
<1>1. op[p] \in Operation /\ Shaped(op[p]) /\ op[p].stage = "lock" /\ ~ Held(op[p].session)
  BY DEF Typed, Shaped, LockDoomed
<1>2. /\ r \in Operation /\ r.stage = "unlink undo" /\ r.locked
      /\ Keeps(r, op[p], {"stage", "locked"})
  BY <1>1 DEF Operation, Keeps, Fields
<1>3. Step(p, r)
  BY DEF LockDoomed
<1> HIDE DEF r
<1>4. Shaped(r)
  BY <1>1, <1>2 DEF Shaped, KindAndStage, Equipped, Keeps, Fields, Saving, Sweeper
<1>5. Goes(p, {"stage", "locked"}, {}, {}) /\ Keeps(op'[p], r, {"span", "renewed"})
  BY <1>1, <1>2, <1>3, <1>4, SilentSteps
<1> QED
  BY <1>1, <1>2, <1>5 DEF Keeps, Fields

\* UnlinkUndo goes on to the log.
LEMMA UnlinkUndoSteps ==
    ASSUME Typed, NEW p \in Proc, UnlinkUndo(p)
    PROVE  /\ op[p].stage = "unlink undo" /\ op[p].session \in Session
           /\ Goes(p, {"stage"}, {}, {}) /\ op'[p].stage = "unlink log"
<1> DEFINE r == [op[p] EXCEPT !.stage = "unlink log"]
<1>1. /\ op[p] \in Operation /\ Shaped(op[p]) /\ op[p].stage = "unlink undo"
      /\ op[p].session \in Session
  BY DEF Typed, Shaped, KindAndStage, Equipped, UnlinkUndo
<1>2. r \in Operation /\ r.stage = "unlink log" /\ Keeps(r, op[p], {"stage"})
  BY <1>1 DEF Operation, Keeps, Fields
<1>3. Step(p, r)
  BY DEF UnlinkUndo
<1> HIDE DEF r
<1>4. Shaped(r)
  BY <1>1, <1>2 DEF Shaped, KindAndStage, Equipped, Keeps, Fields, Saving, Sweeper
<1>5. Goes(p, {"stage"}, {}, {}) /\ Keeps(op'[p], r, {"span", "renewed"})
  BY <1>1, <1>2, <1>3, <1>4, SilentSteps
<1> QED
  BY <1>1, <1>2, <1>5 DEF Keeps, Fields

\* UnlinkLog lists the logs that are left.
LEMMA UnlinkLogSteps ==
    ASSUME Typed, NEW p \in Proc, UnlinkLog(p)
    PROVE  /\ op[p].stage = "unlink log" /\ op[p].kind = "delete" /\ op[p].session \in Session
           /\ Goes(p, {"stage", "locked", "unread"}, {}, {})
           /\ op'[p].stage = "roots" /\ op'[p].unread = DOMAIN log' /\ ~ op'[p].locked
<1> DEFINE unread == DOMAIN log'
           r == [op[p] EXCEPT !.stage = "roots", !.locked = FALSE, !.unread = unread]
<1>1. /\ op[p] \in Operation /\ Shaped(op[p]) /\ op[p].stage = "unlink log"
      /\ op[p].kind = "delete" /\ op[p].session \in Session
  BY DEF Typed, Shaped, KindAndStage, Equipped, UnlinkLog
<1>2. unread \in SUBSET Session
  BY DEF Typed, TypeOK, UnlinkLog, Without
<1>3. Step(p, r)
  BY DEF UnlinkLog
<1> HIDE DEF unread
<1>4. /\ r \in Operation /\ r.stage = "roots" /\ r.unread = unread /\ r.locked = FALSE
      /\ Keeps(r, op[p], {"stage", "locked", "unread"})
  BY <1>1, <1>2 DEF Operation, Keeps, Fields
<1> HIDE DEF r
<1>5. Shaped(r)
  BY <1>1, <1>4 DEF Shaped, KindAndStage, Equipped, Keeps, Fields, Saving, Sweeper
<1>6. /\ Goes(p, {"stage", "locked", "unread"}, {}, {})
      /\ Keeps(op'[p], r, {"span", "renewed"})
  BY <1>1, <1>3, <1>4, <1>5, SilentSteps
<1> QED
  BY <1>1, <1>4, <1>6 DEF Keeps, Fields, unread

\* What a log of entries names is manifests and turns.
LEMMA EntriesName ==
    ASSUME NEW entries \in Seq(Entry)
    PROVE  /\ ManifestsIn(entries) \subseteq Manifest
           /\ TurnsIn(entries) \subseteq TurnKey
           /\ \A e \in ToSet(entries) : e \in Entry
<1>1. \A e \in ToSet(entries) : e \in Entry
  BY DEF ToSet
<1>2. \A e \in Entry : e.manifest \in Manifest /\ e.turn \in TurnKey
  BY DEF Entry
<1> QED
  BY <1>1, <1>2 DEF ManifestsIn, TurnsIn

\* A sweep that is not sure ends, or goes on to mark.
LEMMA UnsureSteps ==
    ASSUME Typed, NEW p \in Proc, op[p].stage \in {"roots", "turns"}, op[p].condemned = {},
           Step(p, Unsure(op[p]))
    PROVE  \/ Stops(p, {}, {})
           \/ /\ op[p].kind = "collect"
              /\ Goes(p, {"stage", "unread", "live", "liveTurns"}, {}, {})
              /\ op'[p].stage = "mark"
<1> DEFINE r == [op[p] EXCEPT !.stage = "mark", !.unread = {}, !.live = {}, !.liveTurns = {}]
<1>1. op[p] \in Operation /\ Shaped(op[p]) /\ Sweeper(op[p])
  BY DEF Typed, Shaped, KindAndStage
<1>2. CASE op[p].kind = "delete"
  BY <1>2, LastSteps DEF Unsure, Ended
<1>3. CASE op[p].kind # "delete"
  <2>1. Step(p, r) /\ op[p].kind = "collect"
    BY <1>1, <1>3 DEF Unsure, Sweeper
  <2>2. /\ r \in Operation /\ r.stage = "mark"
        /\ Keeps(r, op[p], {"stage", "unread", "live", "liveTurns"})
    BY <1>1 DEF Operation, Keeps, Fields
  <2> HIDE DEF r
  <2>3. Shaped(r)
    BY <1>1, <2>1, <2>2 DEF Shaped, KindAndStage, Equipped, Keeps, Fields, Saving, Sweeper
  <2>4. /\ Goes(p, {"stage", "unread", "live", "liveTurns"}, {}, {})
        /\ Keeps(op'[p], r, {"span", "renewed"})
    BY <1>1, <2>1, <2>2, <2>3, SilentSteps
  <2> QED
    BY <2>1, <2>2, <2>4 DEF Keeps, Fields
<1> QED
  BY <1>2, <1>3

\* ReadLog takes along what a log names; a sweep that misses one is not sure.
LEMMA ReadLogSteps ==
    ASSUME Typed, NEW p \in Proc, NEW s \in Session, ReadLog(p, s)
    PROVE  /\ op[p].stage = "roots" /\ s \in op[p].unread
           /\ \/ s \notin DOMAIN log /\ Stops(p, {}, {})
              \/ /\ s \notin DOMAIN log /\ op[p].kind = "collect"
                 /\ Goes(p, {"stage", "unread", "live", "liveTurns"}, {}, {})
                 /\ op'[p].stage = "mark"
              \/ /\ s \in DOMAIN log /\ op'[p].stage = "roots"
                 /\ Goes(p, {"unread", "live", "liveTurns"}, {}, {})
                 /\ op'[p].unread = op[p].unread \ {s}
                 /\ op'[p].live = op[p].live \cup ManifestsIn(log[s])
                 /\ op'[p].liveTurns = op[p].liveTurns \cup TurnsIn(log[s])
<1> DEFINE unread == op[p].unread \ {s}
           live == op[p].live \cup ManifestsIn(log[s])
           liveTurns == op[p].liveTurns \cup TurnsIn(log[s])
           r == [op[p] EXCEPT !.unread = unread, !.live = live, !.liveTurns = liveTurns]
<1>1. op[p] \in Operation /\ Shaped(op[p]) /\ op[p].stage = "roots" /\ s \in op[p].unread
  BY DEF Typed, Shaped, ReadLog
<1>2. CASE s \notin DOMAIN log
  <2>1. op[p].condemned = {} /\ Step(p, Unsure(op[p]))
    BY <1>1, <1>2 DEF Shaped, Equipped, ReadLog
  <2> QED
    BY <1>1, <1>2, <2>1, UnsureSteps
<1>3. CASE s \in DOMAIN log
  <2>1. Step(p, r)
    BY <1>3 DEF ReadLog
  <2>2. log[s] \in Seq(Entry)
    BY <1>3 DEF Typed, TypeOK
  <2>3. live \in SUBSET Object /\ liveTurns \in SUBSET TurnKey /\ unread \in SUBSET Session
    BY <1>1, <2>2, EntriesName DEF Operation, Object
  <2> HIDE DEF unread, live, liveTurns
  <2>4. /\ r \in Operation
        /\ r.unread = unread /\ r.live = live /\ r.liveTurns = liveTurns
        /\ Keeps(r, op[p], {"unread", "live", "liveTurns"})
    BY <1>1, <2>3 DEF Operation, Keeps, Fields
  <2> HIDE DEF r
  <2>5. Shaped(r) /\ r.stage = "roots"
    BY <1>1, <2>4 DEF Shaped, KindAndStage, Equipped, Keeps, Fields, Saving, Sweeper
  <2>6. /\ Goes(p, {"unread", "live", "liveTurns"}, {}, {})
        /\ Keeps(op'[p], r, {"span", "renewed"})
    BY <1>1, <2>1, <2>4, <2>5, SilentSteps
  <2> QED
    BY <1>1, <1>3, <2>4, <2>6 DEF Keeps, Fields, unread, live, liveTurns
<1> QED
  BY <1>2, <1>3

\* ListOrphans leads a delete to its turns; collection condemns the settled
\* records of sessions that have no log.
LEMMA ListOrphansSteps ==
    ASSUME Typed, NEW p \in Proc, ListOrphans(p)
    PROVE  /\ op[p].stage = "roots" /\ op[p].unread = {}
           /\ \/ /\ op[p].kind = "delete" /\ Goes(p, {"stage"}, {}, {})
                 /\ op'[p].stage = "turns"
              \/ /\ op[p].kind = "collect" /\ Goes(p, {"stage", "condemned"}, {}, {})
                 /\ op'[p].stage = "orphans"
                 /\ op'[p].condemned = {UndoFile(s) : s \in DOMAIN undo \ DOMAIN log} \ fresh
<1>1. /\ op[p] \in Operation /\ Shaped(op[p]) /\ op[p].stage = "roots" /\ op[p].unread = {}
      /\ Sweeper(op[p])
  BY DEF Typed, Shaped, KindAndStage, ListOrphans
<1>2. CASE op[p].kind = "delete"
  <2> DEFINE r == [op[p] EXCEPT !.stage = "turns"]
  <2>1. r \in Operation /\ r.stage = "turns" /\ Keeps(r, op[p], {"stage"})
    BY <1>1 DEF Operation, Keeps, Fields
  <2>2. Step(p, r)
    BY <1>2 DEF ListOrphans
  <2> HIDE DEF r
  <2>3. Shaped(r)
    BY <1>1, <2>1 DEF Shaped, KindAndStage, Equipped, Keeps, Fields, Saving, Sweeper
  <2>4. Goes(p, {"stage"}, {}, {}) /\ Keeps(op'[p], r, {"span", "renewed"})
    BY <1>1, <2>1, <2>2, <2>3, SilentSteps
  <2> QED
    BY <1>1, <1>2, <2>1, <2>4 DEF Keeps, Fields
<1>3. CASE op[p].kind # "delete"
  <2> DEFINE orphans == {UndoFile(s) : s \in DOMAIN undo \ DOMAIN log} \ fresh
             r == [op[p] EXCEPT !.stage = "orphans", !.condemned = orphans]
  <2>1. Step(p, r)
    BY <1>3 DEF ListOrphans
  <2>2. orphans \in SUBSET File /\ orphans \subseteq {UndoFile(s) : s \in Session}
    BY DEF Typed, TypeOK, File
  <2>3. op[p].kind = "collect"
    BY <1>1, <1>3 DEF Sweeper
  <2> HIDE DEF orphans
  <2>4. /\ r \in Operation /\ r.stage = "orphans" /\ r.condemned = orphans
        /\ Keeps(r, op[p], {"stage", "condemned"})
    BY <1>1, <2>2 DEF Operation, Keeps, Fields
  <2> HIDE DEF r
  <2>5. Shaped(r)
    BY <1>1, <2>2, <2>3, <2>4 DEF Shaped, KindAndStage, Equipped, Keeps, Fields, Saving, Sweeper
  <2>6. /\ Goes(p, {"stage", "condemned"}, {}, {})
        /\ Keeps(op'[p], r, {"span", "renewed"})
    BY <1>1, <2>1, <2>4, <2>5, SilentSteps
  <2> QED
    BY <1>1, <2>3, <2>4, <2>6 DEF Keeps, Fields, orphans
<1> QED
  BY <1>2, <1>3

\* RemoveOrphan is done with one of them.
LEMMA RemoveOrphanSteps ==
    ASSUME Typed, NEW p \in Proc, NEW s \in Session, RemoveOrphan(p, s)
    PROVE  /\ op[p].stage = "orphans" /\ op[p].kind = "collect"
           /\ UndoFile(s) \in op[p].condemned
           /\ Goes(p, {"condemned"}, {}, {})
           /\ op'[p].condemned = op[p].condemned \ {UndoFile(s)}
<1> DEFINE left == op[p].condemned \ {UndoFile(s)}
           r == [op[p] EXCEPT !.condemned = left]
<1>1. /\ op[p] \in Operation /\ Shaped(op[p]) /\ op[p].stage = "orphans"
      /\ op[p].kind = "collect" /\ UndoFile(s) \in op[p].condemned
  BY DEF Typed, Shaped, KindAndStage, RemoveOrphan
<1>2. Step(p, r)
  BY DEF RemoveOrphan
<1>3. left \in SUBSET File /\ left \subseteq op[p].condemned
  BY <1>1 DEF Operation
<1> HIDE DEF left
<1>4. r \in Operation /\ r.condemned = left /\ Keeps(r, op[p], {"condemned"})
  BY <1>1, <1>3 DEF Operation, Keeps, Fields
<1> HIDE DEF r
<1>5. Shaped(r) /\ r.stage = "orphans"
  BY <1>1, <1>3, <1>4 DEF Shaped, KindAndStage, Equipped, Keeps, Fields, Saving, Sweeper
<1>6. Goes(p, {"condemned"}, {}, {}) /\ Keeps(op'[p], r, {"span", "renewed"})
  BY <1>1, <1>2, <1>4, <1>5, SilentSteps
<1> QED
  BY <1>1, <1>4, <1>6 DEF Keeps, Fields, left

\* OrphansGone goes on to the turns.
LEMMA OrphansGoneSteps ==
    ASSUME Typed, NEW p \in Proc, OrphansGone(p)
    PROVE  /\ op[p].stage = "orphans" /\ op[p].kind = "collect" /\ op[p].condemned = {}
           /\ Goes(p, {"stage"}, {}, {}) /\ op'[p].stage = "turns"
<1> DEFINE r == [op[p] EXCEPT !.stage = "turns"]
<1>1. /\ op[p] \in Operation /\ Shaped(op[p]) /\ op[p].stage = "orphans"
      /\ op[p].kind = "collect" /\ op[p].condemned = {}
  BY DEF Typed, Shaped, KindAndStage, OrphansGone
<1>2. r \in Operation /\ r.stage = "turns" /\ Keeps(r, op[p], {"stage"})
  BY <1>1 DEF Operation, Keeps, Fields
<1>3. Step(p, r)
  BY DEF OrphansGone
<1> HIDE DEF r
<1>4. Shaped(r)
  BY <1>1, <1>2 DEF Shaped, KindAndStage, Equipped, Keeps, Fields, Saving, Sweeper
<1>5. Goes(p, {"stage"}, {}, {}) /\ Keeps(op'[p], r, {"span", "renewed"})
  BY <1>1, <1>2, <1>3, <1>4, SilentSteps
<1> QED
  BY <1>1, <1>2, <1>5 DEF Keeps, Fields

\* CondemnTurn picks a dead turn.
LEMMA CondemnTurnSteps ==
    ASSUME Typed, NEW p \in Proc, NEW t \in TurnKey, CondemnTurn(p, t)
    PROVE  /\ op[p].stage = "turns" /\ op[p].condemned = {} /\ DeadTurn(p, t)
           /\ Goes(p, {"condemned", "doomedTurns"}, {}, {})
           /\ op'[p].condemned = {TurnFile(t)}
<1> DEFINE picked == {TurnFile(t)}
           doomed == op[p].doomedTurns \ {t}
           r == [op[p] EXCEPT !.condemned = picked, !.doomedTurns = doomed]
<1>1. /\ op[p] \in Operation /\ Shaped(op[p]) /\ op[p].stage = "turns"
      /\ op[p].condemned = {} /\ DeadTurn(p, t)
  BY DEF Typed, Shaped, CondemnTurn
<1>2. Step(p, r)
  BY DEF CondemnTurn
<1>3. picked \in SUBSET File /\ picked \subseteq {TurnFile(u) : u \in TurnKey}
  BY DEF File
<1> HIDE DEF picked
<1>4. /\ r \in Operation /\ r.condemned = picked
      /\ Keeps(r, op[p], {"condemned", "doomedTurns"})
  BY <1>1, <1>3 DEF Operation, Keeps, Fields
<1> HIDE DEF r
<1>5. Shaped(r) /\ r.stage = "turns"
  BY <1>1, <1>3, <1>4 DEF Shaped, KindAndStage, Equipped, Keeps, Fields, Saving, Sweeper
<1>6. /\ Goes(p, {"condemned", "doomedTurns"}, {}, {})
      /\ Keeps(op'[p], r, {"span", "renewed"})
  BY <1>1, <1>2, <1>4, <1>5, SilentSteps
<1> QED
  BY <1>1, <1>4, <1>6 DEF Keeps, Fields, picked

\* RemoveTurn is done with it, ...
LEMMA RemoveTurnSteps ==
    ASSUME Typed, NEW p \in Proc, NEW t \in TurnKey, RemoveTurn(p, t)
    PROVE  /\ op[p].stage = "turns" /\ TurnFile(t) \in op[p].condemned
           /\ Goes(p, {"condemned"}, {}, {}) /\ op'[p].condemned = {}
<1> DEFINE r == [op[p] EXCEPT !.condemned = {}]
<1>1. /\ op[p] \in Operation /\ Shaped(op[p]) /\ op[p].stage = "turns"
      /\ TurnFile(t) \in op[p].condemned
  BY DEF Typed, Shaped, RemoveTurn
<1>2. Step(p, r)
  BY DEF RemoveTurn
<1>3. r \in Operation /\ r.condemned = {} /\ Keeps(r, op[p], {"condemned"})
  BY <1>1 DEF Operation, Keeps, Fields
<1> HIDE DEF r
<1>4. Shaped(r) /\ r.stage = "turns"
  BY <1>1, <1>3 DEF Shaped, KindAndStage, Equipped, Keeps, Fields, Saving, Sweeper
<1>5. Goes(p, {"condemned"}, {}, {}) /\ Keeps(op'[p], r, {"span", "renewed"})
  BY <1>1, <1>2, <1>3, <1>4, SilentSteps
<1> QED
  BY <1>1, <1>3, <1>5 DEF Keeps, Fields

\* ... and HoldRoots with all of them: it adds what the index and the undo
\* records name.
Roots == {turns[t] : t \in DOMAIN turns} \cup UNION {RecordsOf(undo[s]) : s \in DOMAIN undo}

\* They are manifests.
LEMMA RootsAreManifests ==
    ASSUME Typed
    PROVE  Roots \subseteq Manifest
<1>1. \A s \in DOMAIN undo : RecordsOf(undo[s]) \subseteq Manifest
  <2>1. \A stack \in Seq(Record) : \A r \in ToSet(stack) : r \in Record
    BY DEF ToSet
  <2>2. \A r \in Record : {r.target, r.safety} \subseteq Manifest
    BY DEF Record
  <2> QED
    BY <2>1, <2>2 DEF Typed, TypeOK, RecordsOf
<1>2. \A t \in DOMAIN turns : turns[t] \in Manifest
  BY DEF Typed, TypeOK
<1> QED
  BY <1>1, <1>2 DEF Roots

\* HoldRoots goes on to the manifests, with those in hand.
LEMMA HoldRootsSteps ==
    ASSUME Typed, NEW p \in Proc, HoldRoots(p)
    PROVE  /\ op[p].stage = "turns" /\ op[p].condemned = {}
           /\ \A t \in TurnKey : ~ DeadTurn(p, t)
           /\ Goes(p, {"stage", "live", "doomed"}, {}, {})
           /\ op'[p].stage = "manifests" /\ op'[p].live = op[p].live \cup Roots
           /\ op'[p].doomed = IF op[p].kind = "delete" THEN op[p].doomed
                              ELSE Manifest \cap objects
<1> DEFINE live == op[p].live \cup Roots
           doomed == IF op[p].kind = "delete" THEN op[p].doomed ELSE Manifest \cap objects
           r == [op[p] EXCEPT !.stage = "manifests", !.live = live, !.doomed = doomed]
<1>1. /\ op[p] \in Operation /\ Shaped(op[p]) /\ op[p].stage = "turns"
      /\ op[p].condemned = {} /\ \A t \in TurnKey : ~ DeadTurn(p, t)
  BY DEF Typed, Shaped, HoldRoots
<1>2. Step(p, [op[p] EXCEPT
                 !.stage = "manifests",
                 !.live = @ \cup {turns[t] : t \in DOMAIN turns}
                            \cup UNION {RecordsOf(undo[s]) : s \in DOMAIN undo},
                 !.doomed = IF op[p].kind = "delete" THEN @ ELSE Manifest \cap objects])
  BY DEF HoldRoots
<1>3. live = (op[p].live \cup {turns[t] : t \in DOMAIN turns})
               \cup UNION {RecordsOf(undo[s]) : s \in DOMAIN undo}
  BY DEF Roots
<1>4. Step(p, r)
  BY <1>2, <1>3
<1>5. live \in SUBSET Object /\ doomed \in SUBSET Manifest
  BY <1>1, RootsAreManifests DEF Operation, Object
<1>6. Sweeper(op[p])
  BY <1>1 DEF Shaped, KindAndStage
<1> HIDE DEF live, doomed
<1>7. /\ r \in Operation /\ r.stage = "manifests" /\ r.live = live /\ r.doomed = doomed
      /\ Keeps(r, op[p], {"stage", "live", "doomed"})
  BY <1>1, <1>5 DEF Operation, Keeps, Fields
<1> HIDE DEF r
<1>8. Shaped(r)
  BY <1>1, <1>6, <1>7 DEF Shaped, KindAndStage, Equipped, Keeps, Fields, Saving, Sweeper
<1>9. /\ Goes(p, {"stage", "live", "doomed"}, {}, {})
      /\ Keeps(op'[p], r, {"span", "renewed"})
  BY <1>1, <1>4, <1>7, <1>8, SilentSteps
<1> QED
  BY <1>1, <1>7, <1>9 DEF Keeps, Fields, live, doomed

\* MissRoots goes on without them.
LEMMA MissRootsSteps ==
    ASSUME Typed, NEW p \in Proc, MissRoots(p)
    PROVE  /\ op[p].stage = "turns" /\ op[p].condemned = {} /\ Departing
           /\ \/ Stops(p, {}, {})
              \/ /\ op[p].kind = "collect"
                 /\ Goes(p, {"stage", "unread", "live", "liveTurns"}, {}, {})
                 /\ op'[p].stage = "mark"
<1>1. /\ op[p].stage = "turns" /\ op[p].condemned = {} /\ Departing
      /\ Step(p, Unsure(op[p]))
  BY DEF MissRoots
<1> QED
  BY <1>1, UnsureSteps

\* Condemn judges the next object, ...
LEMMA CondemnSteps ==
    ASSUME Typed, NEW p \in Proc, NEW o \in Object, Condemn(p, o)
    PROVE  /\ op[p].stage \in {"manifests", "blobs"} /\ op[p].condemned = {}
           /\ o \in IF op[p].stage = "manifests" THEN op[p].doomed ELSE op[p].todo
           /\ Goes(p, {"condemned", "doomed", "todo"}, {}, {})
           /\ op'[p].condemned = (IF Dead(p, o) THEN {o} ELSE {})
           /\ op'[p].doomed = op[p].doomed \ {o} /\ op'[p].todo = op[p].todo \ {o}
<1> DEFINE picked == IF Dead(p, o) THEN {o} ELSE {}
           doomed == op[p].doomed \ {o}
           todo == op[p].todo \ {o}
           r == [op[p] EXCEPT !.condemned = picked, !.doomed = doomed, !.todo = todo]
<1>1. /\ op[p] \in Operation /\ Shaped(op[p]) /\ op[p].stage \in {"manifests", "blobs"}
      /\ op[p].condemned = {}
      /\ o \in IF op[p].stage = "manifests" THEN op[p].doomed ELSE op[p].todo
  BY DEF Typed, Shaped, Condemn
<1>2. Step(p, r)
  BY DEF Condemn
<1>3. /\ picked \in SUBSET File
      /\ picked \subseteq (IF op[p].stage = "manifests" THEN Manifest ELSE Blob)
  <2>1. o \in File /\ op[p].doomed \subseteq Manifest
    BY <1>1 DEF File, Operation
  <2>2. op[p].stage = "blobs" => op[p].todo \subseteq Blob
    BY <1>1 DEF Shaped, Equipped
  <2> QED
    BY <1>1, <2>1, <2>2
<1>4. doomed \in SUBSET Manifest /\ todo \in SUBSET Object /\ todo \subseteq op[p].todo
  BY <1>1 DEF Operation
<1> HIDE DEF picked, doomed, todo
<1>5. /\ r \in Operation /\ r.condemned = picked /\ r.doomed = doomed /\ r.todo = todo
      /\ Keeps(r, op[p], {"condemned", "doomed", "todo"})
  BY <1>1, <1>3, <1>4 DEF Operation, Keeps, Fields
<1> HIDE DEF r
<1>6. Shaped(r) /\ r.stage = op[p].stage
  BY <1>1, <1>3, <1>4, <1>5 DEF Shaped, KindAndStage, Equipped, Keeps, Fields, Saving, Sweeper
<1>7. /\ Goes(p, {"condemned", "doomed", "todo"}, {}, {})
      /\ Keeps(op'[p], r, {"span", "renewed"})
  BY <1>1, <1>2, <1>5, <1>6, SilentSteps
<1> QED
  BY <1>1, <1>5, <1>7 DEF Keeps, Fields, picked, doomed, todo

\* ... and Unlink is done with it.
LEMMA UnlinkSteps ==
    ASSUME Typed, NEW p \in Proc, NEW o \in Object, Unlink(p, o)
    PROVE  /\ op[p].stage \in {"manifests", "blobs"} /\ o \in op[p].condemned
           /\ Goes(p, {"condemned"}, {}, {}) /\ op'[p].condemned = {}
<1> DEFINE r == [op[p] EXCEPT !.condemned = {}]
<1>1. /\ op[p] \in Operation /\ Shaped(op[p]) /\ op[p].stage \in {"manifests", "blobs"}
      /\ o \in op[p].condemned
  BY DEF Typed, Shaped, Unlink
<1>2. Step(p, r)
  BY DEF Unlink
<1>3. r \in Operation /\ r.condemned = {} /\ Keeps(r, op[p], {"condemned"})
  BY <1>1 DEF Operation, Keeps, Fields
<1> HIDE DEF r
<1>4. Shaped(r) /\ r.stage = op[p].stage
  BY <1>1, <1>3 DEF Shaped, KindAndStage, Equipped, Keeps, Fields, Saving, Sweeper
<1>5. Goes(p, {"condemned"}, {}, {}) /\ Keeps(op'[p], r, {"span", "renewed"})
  BY <1>1, <1>2, <1>3, <1>4, SilentSteps
<1> QED
  BY <1>1, <1>3, <1>5 DEF Keeps, Fields

\* Mark ends a delete, and leads collection to the blobs.
Named == UNION {Holds[m] : m \in Manifest \cap objects}

\* Mark ends a delete and takes a collection on to the blobs.
LEMMA MarkSteps ==
    ASSUME Typed, NEW p \in Proc, Mark(p)
    PROVE  /\ \/ op[p].stage = "mark" /\ op[p].kind = "collect"
              \/ op[p].stage = "manifests" /\ op[p].doomed = {}
           /\ op[p].condemned = {}
           /\ \/ op[p].kind = "delete" /\ Stops(p, {}, {})
              \/ /\ op[p].kind = "collect" /\ Goes(p, {"stage", "live", "todo"}, {}, {})
                 /\ op'[p].stage = "blobs" /\ op'[p].live = Named
                 /\ op'[p].todo = Blob \cap objects
<1> DEFINE live == Named
           todo == Blob \cap objects
           r == [op[p] EXCEPT !.stage = "blobs", !.live = live, !.todo = todo]
<1>0. /\ \/ op[p].stage = "mark" /\ op[p].kind = "collect"
         \/ op[p].stage = "manifests" /\ op[p].doomed = {}
      /\ op[p].condemned = {}
  BY DEF Typed, Shaped, KindAndStage, Mark
<1>1. /\ op[p] \in Operation /\ Shaped(op[p]) /\ op[p].condemned = {} /\ Sweeper(op[p])
      /\ op[p].stage # "idle"
  BY <1>0 DEF Typed, Shaped, KindAndStage, Sweeper
<1>2. CASE op[p].kind = "delete"
  BY <1>0, <1>2, LastSteps DEF Mark, Ended
<1>3. CASE op[p].kind # "delete"
  <2>1. Step(p, r) /\ op[p].kind = "collect"
    BY <1>1, <1>3 DEF Mark, Named, Sweeper
  <2>2. live \in SUBSET Object /\ todo \in SUBSET Object /\ todo \subseteq Blob
    BY HoldsAssumption DEF Named, Object
  <2> HIDE DEF live, todo
  <2>3. /\ r \in Operation /\ r.stage = "blobs" /\ r.live = live /\ r.todo = todo
        /\ Keeps(r, op[p], {"stage", "live", "todo"})
    BY <1>1, <2>2 DEF Operation, Keeps, Fields
  <2> HIDE DEF r
  <2>4. Shaped(r)
    BY <1>1, <2>1, <2>2, <2>3
       DEF Shaped, KindAndStage, Equipped, Keeps, Fields, Saving, Sweeper
  <2>5. Goes(p, {"stage", "live", "todo"}, {}, {}) /\ Keeps(op'[p], r, {"span", "renewed"})
    BY <1>1, <2>1, <2>3, <2>4, SilentSteps
  <2> QED
    BY <1>0, <2>1, <2>3, <2>5 DEF Keeps, Fields, live, todo
<1> QED
  BY <1>2, <1>3

\* Swept and Crash are last steps.
LEMMA EndSteps ==
    ASSUME Typed, NEW p \in Proc, Swept(p) \/ Crash(p)
    PROVE  Stops(p, {}, {})
BY LastSteps DEF Swept, Crash, Ended

-----------------------------------------------------------------------------
(* The first steps. *)

\* What a log's entries carry along are files.
LEMMA CarriedFiles ==
    ASSUME NEW entries \in Seq(Entry)
    PROVE  Carried(entries) \subseteq File
<1>1. ManifestsIn(entries) \subseteq Manifest /\ TurnsIn(entries) \subseteq TurnKey
  BY EntriesName
<1>2. \A m \in ManifestsIn(entries) : Holds[m] \subseteq Blob
  BY <1>1, HoldsAssumption
<1>3. {TurnFile(t) : t \in TurnsIn(entries)} \subseteq File
  BY <1>1 DEF File
<1> QED
  BY <1>1, <1>2, <1>3 DEF Carried, File, Object

\* p starts with the fields F set, carrying `entries'; the others notice.
Starts(p, F, entries) ==
    /\ op' \in [Proc -> Operation] /\ \A q \in Proc : Shaped(op'[q])
    /\ fresh' = fresh
    /\ op[p].stage = "idle" /\ op'[p].stage # "idle"
    /\ Keeps(op'[p], NoOp, F \cup {"entries", "met", "lent", "quiet"})
    /\ op'[p].entries = entries
    /\ op'[p].met = UNION {op[q].span : q \in Proc \ {p}}
    /\ Sweeper(op'[p]) => \A q \in Proc \ {p} : Carried(op[q].entries) \subseteq op'[p].lent
    /\ op'[p].quiet => /\ op'[p].kind = "collect" /\ fresh = {}
                       /\ \A q \in Proc \ {p} : op[q].stage = "idle"
    /\ \A q \in Proc \ {p} :
         /\ Keeps(op'[q], op[q], {"lent", "quiet"})
         /\ ~ op'[q].quiet
         /\ Sweeper(op[q]) => op'[q].lent = op[q].lent \cup Carried(entries)

\* Begin starts on the operation it is given.
LEMMA BeginSteps ==
    ASSUME Typed, NEW p \in Proc, NEW r, Shaped(r),
           r.stage \in {"store", "ensure", "lock", "roots"},
           NEW F, Keeps(r, NoOp, F),
           NEW entries \in Seq(Entry), r.kind # "fork" => entries = <<>>,
           Begin(p, r, entries)
    PROVE  Starts(p, F, entries) /\ Keeps(op'[p], r, {"entries", "met", "lent", "quiet"})
<1> DEFINE others == {op[q] : q \in Proc \ {p}}
           met == UNION {o.span : o \in others}
           lent == IF Sweeper(r) THEN UNION {Carried(o.entries) : o \in others} ELSE {}
           quiet == /\ r.kind = "collect"
                    /\ fresh = {}
                    /\ \A o \in others : o.stage = "idle"
           Noticing(q) == [op[q] EXCEPT !.quiet = FALSE,
                                        !.lent = IF Sweeper(op[q]) THEN @ \cup Carried(entries)
                                                 ELSE @]
<1> PICK alone \in BOOLEAN : alone = quiet
  OBVIOUS
<1> DEFINE n == [r EXCEPT !.entries = entries, !.met = met, !.lent = lent, !.quiet = alone]
<1>1. /\ op[p].stage = "idle" /\ fresh' = fresh
      /\ op' = [q \in Proc |-> IF q = p THEN n
                               ELSE IF op[q].stage = "idle" THEN NoOp ELSE Noticing(q)]
  BY DEF Begin
<1>2. \A q \in Proc : op[q] \in Operation /\ Shaped(op[q])
  BY DEF Typed, Shaped
<1>3. r \in Operation
  BY DEF Shaped
<1>4. met \in SUBSET File /\ met = UNION {op[q].span : q \in Proc \ {p}}
  <2>1. \A q \in Proc : op[q].span \in SUBSET File
    BY <1>2 DEF Operation
  <2> QED
    BY <2>1
<1>5. lent \in SUBSET File
  <2>1. \A q \in Proc : op[q].entries \in Seq(Entry)
    BY <1>2 DEF Operation
  <2>2. \A q \in Proc : Carried(op[q].entries) \subseteq File
    BY <2>1, CarriedFiles
  <2> QED
    BY <2>2
<1>7. /\ Sweeper(r) => \A q \in Proc \ {p} : Carried(op[q].entries) \subseteq lent
      /\ alone => /\ r.kind = "collect" /\ fresh = {}
                  /\ \A q \in Proc \ {p} : op[q].stage = "idle"
  OBVIOUS
<1> HIDE DEF met, lent, quiet
<1>8. /\ n \in Operation /\ n.entries = entries /\ n.met = met /\ n.lent = lent
      /\ n.quiet = alone /\ Keeps(n, r, {"entries", "met", "lent", "quiet"})
  <2>1. n \in Operation
    <3>1. met \in SUBSET File
      BY <1>4
    <3>2. entries \in Seq(Entry) /\ alone \in BOOLEAN
      OBVIOUS
    <3> QED
      BY ONLY <1>3, <1>5, <3>1, <3>2 DEF Operation
  <2>2. n.entries = entries /\ n.met = met /\ n.lent = lent
    BY <1>3 DEF Operation
  <2>3. n.quiet = alone
    BY <1>3 DEF Operation
  <2>4. Keeps(n, r, {"entries", "met", "lent", "quiet"})
    BY <1>3 DEF Operation, Keeps, Fields
  <2> QED
    BY <2>1, <2>2, <2>3, <2>4
<1> HIDE DEF n
<1>9. Shaped(n)
  BY <1>3, <1>8 DEF Shaped, KindAndStage, Equipped, Keeps, Fields, Saving, Sweeper
<1>10. Keeps(n, NoOp, F \cup {"entries", "met", "lent", "quiet"})
  BY <1>8 DEF Keeps
<1>11. Sweeper(n) = Sweeper(r) /\ n.stage = r.stage /\ n.kind = r.kind
  BY <1>8 DEF Keeps, Fields, Sweeper
<1>12. ASSUME NEW q \in Proc \ {p}
       PROVE  /\ Shaped(op'[q]) /\ Keeps(op'[q], op[q], {"lent", "quiet"})
              /\ op'[q].quiet = FALSE
              /\ Sweeper(op[q]) => op'[q].lent = op[q].lent \cup Carried(entries)
  <2>1. CASE op[q].stage = "idle"
    <3>1. op'[q] = NoOp /\ op[q] = NoOp
      BY <1>1, <1>2, <2>1 DEF Shaped, KindAndStage
    <3> QED
      BY <3>1, NoOpFacts DEF NoOp, Keeps, Fields, Sweeper
  <2>2. CASE op[q].stage # "idle"
    <3> DEFINE l == IF Sweeper(op[q]) THEN op[q].lent \cup Carried(entries) ELSE op[q].lent
               m == [op[q] EXCEPT !.quiet = FALSE, !.lent = l]
    <3>1. op'[q] = m
      BY <1>1, <2>2
    <3>2. op[q] \in Operation
      BY <1>2
    <3>3. l \in SUBSET File
      BY <3>2, CarriedFiles DEF Operation
    <3>4. Sweeper(op[q]) => l = op[q].lent \cup Carried(entries)
      OBVIOUS
    <3> HIDE DEF l
    <3>5. m \in Operation /\ m.quiet = FALSE /\ m.lent = l /\ Keeps(m, op[q], {"lent", "quiet"})
      BY <3>2, <3>3 DEF Operation, Keeps, Fields
    <3> HIDE DEF m
    <3>6. KindAndStage(m)
      BY <1>2, <2>2, <3>5 DEF Shaped, KindAndStage, Keeps, Fields, Saving, Sweeper
    <3>7. Equipped(m)
      BY <1>2, <3>5 DEF Shaped, Equipped, Keeps, Fields, Saving
    <3>8. Shaped(m)
      BY <3>5, <3>6, <3>7 DEF Shaped
    <3> QED
      BY <3>1, <3>4, <3>5, <3>8
  <2> QED
    BY <2>1, <2>2
<1>13. op'[p] = n
  BY <1>1
<1>14. op' \in [Proc -> Operation] /\ \A q \in Proc : Shaped(op'[q])
  <2>1. \A q \in Proc : Shaped(op'[q])
    BY <1>9, <1>12, <1>13
  <2>2. op' \in [Proc -> {op'[q] : q \in Proc}]
    BY <1>1
  <2> QED
    BY <2>1, <2>2 DEF Shaped
<1>15. Starts(p, F, entries)
  BY <1>1, <1>4, <1>7, <1>8, <1>10, <1>11, <1>12, <1>13, <1>14 DEF Starts
<1> QED
  BY <1>8, <1>13, <1>15

\* The fields a capture, a rewind and an undo start with.
SavingFields ==
    {"kind", "stage", "session", "locked", "owner", "turn", "manifest", "target", "todo", "base"}

\* A capture starts with all the content that the latest manifest lacks.
StartsSaving(p, s) ==
    /\ Starts(p, SavingFields, <<>>)
    /\ ~ Held(s)
    /\ Saving(op'[p]) /\ op'[p].stage = "store" /\ op'[p].session = s
    /\ op'[p].base = Latest(s) /\ Latest(s) \subseteq objects
    /\ op'[p].todo \subseteq Holds[op'[p].manifest] \cup {op'[p].manifest}
    /\ \A o \in Holds[op'[p].manifest] \cup {op'[p].manifest} :
         o \in op'[p].todo \/ \E l \in op'[p].base : o \in Holds[l]

\* The latest manifest of a session is a manifest.
LEMMA LatestIsManifest ==
    ASSUME Typed, NEW s \in Session
    PROVE  Latest(s) \in SUBSET Manifest
<1>1. CASE LogOf(s) = <<>>
  BY <1>1 DEF Latest
<1>2. CASE LogOf(s) # <<>>
  <2>1. LogOf(s) \in Seq(Entry) /\ Len(LogOf(s)) \in Nat
    BY <1>2 DEF Typed, TypeOK, LogOf
  <2>2. Last(LogOf(s)) \in Entry
    BY <1>2, <2>1 DEF Last
  <2> QED
    BY <2>2 DEF Latest, Entry
<1> QED
  BY <1>1, <1>2

\* Capturing starts to save.
LEMMA CapturingSteps ==
    ASSUME Typed, NEW p \in Proc, NEW s \in Session, NEW r \in Operation,
           Keeps(r, NoOp, {"kind", "owner", "turn", "target"}), Saving(r),
           r.turn \in TurnKey, r.kind \in {"rewind", "undo"} => r.target \in Manifest,
           Capturing(p, s, r)
    PROVE  StartsSaving(p, s)
<1>0. PICK m \in Manifest :
           \E reused \in SUBSET (Holds[m] \cap UNION {Holds[l] : l \in Latest(s)}) :
              Begin(p, [r EXCEPT !.stage = "store", !.session = s, !.locked = TRUE,
                                 !.manifest = m, !.base = Latest(s),
                                 !.todo = (Holds[m] \ reused) \cup {m}],
                    <<>>)
  BY DEF Capturing
<1>1. PICK reused \in SUBSET (Holds[m] \cap UNION {Holds[l] : l \in Latest(s)}) :
           Begin(p, [r EXCEPT !.stage = "store", !.session = s, !.locked = TRUE,
                              !.manifest = m, !.base = Latest(s),
                              !.todo = (Holds[m] \ reused) \cup {m}],
                 <<>>)
  BY <1>0
<1> DEFINE base == Latest(s)
           todo == (Holds[m] \ reused) \cup {m}
           n == [r EXCEPT !.stage = "store", !.session = s, !.locked = TRUE,
                          !.manifest = m, !.base = base, !.todo = todo]
<1>2. ~ Held(s) /\ base \subseteq objects /\ Begin(p, n, <<>>)
  BY <1>1 DEF Capturing
<1>3. base \in SUBSET Manifest
  BY LatestIsManifest
<1>4. todo \in SUBSET Object
  BY HoldsAssumption DEF Object
<1>5. /\ todo \subseteq Holds[m] \cup {m}
      /\ \A o \in Holds[m] \cup {m} : o \in todo \/ \E l \in base : o \in Holds[l]
  BY <1>1
<1> HIDE DEF base, todo
<1>6. /\ n \in Operation
      /\ n.stage = "store" /\ n.session = s /\ n.locked = TRUE
      /\ n.manifest = m /\ n.base = base /\ n.todo = todo
      /\ Keeps(n, r, {"stage", "session", "locked", "manifest", "base", "todo"})
  BY <1>3, <1>4 DEF Operation, Keeps, Fields
<1> HIDE DEF n
<1>7. Keeps(n, NoOp, SavingFields)
  BY <1>6 DEF Keeps, Fields, SavingFields
<1>8. /\ n.kind = r.kind /\ n.turn = r.turn /\ n.target = r.target
      /\ n.entries = <<>> /\ n.found = {} /\ n.condemned = {} /\ n.stack = <<>>
  BY <1>6, <1>7 DEF Keeps, Fields, SavingFields, NoOp
<1>9. Shaped(n)
  <2>1. Len(<<>>) <= MaxUndo
    BY MaxAssumption
  <2> QED
    BY <1>6, <1>8, <2>1 DEF Shaped, KindAndStage, Equipped, Saving, Sweeper
<1>10. <<>> \in Seq(Entry)
  OBVIOUS
<1>11. Starts(p, SavingFields, <<>>) /\ Keeps(op'[p], n, {"entries", "met", "lent", "quiet"})
  BY <1>2, <1>6, <1>7, <1>9, <1>10, BeginSteps
<1>12. /\ op'[p].kind = r.kind /\ op'[p].stage = "store" /\ op'[p].session = s
       /\ op'[p].manifest = m /\ op'[p].base = base /\ op'[p].todo = todo
  BY <1>6, <1>8, <1>11 DEF Keeps, Fields
<1>13. Saving(op'[p])
  BY <1>12 DEF Saving
<1> QED
  BY <1>2, <1>5, <1>11, <1>12, <1>13 DEF StartsSaving, base

\* That is how Capture, Rewind and Undo start.
LEMMA SavingStarts ==
    ASSUME Typed, NEW p \in Proc, NEW s \in Session
    PROVE  /\ \A t \in Turn : Capture(p, s, t) => StartsSaving(p, s)
           /\ \A t \in Turn, owner \in Session \cup {Nobody} :
                Rewind(p, s, t, owner) => StartsSaving(p, s)
           /\ Undo(p, s) => StartsSaving(p, s)
<1>1. NoOp \in Operation
  BY NoOpFacts DEF Shaped
<1>2. ASSUME NEW t \in Turn, Capture(p, s, t)
      PROVE  StartsSaving(p, s)
  <2> DEFINE r == [NoOp EXCEPT !.kind = "capture", !.turn = t]
  <2>1. t \in TurnKey
    BY DEF TurnKey
  <2>2. /\ r \in Operation /\ r.kind = "capture" /\ r.turn = t
        /\ Keeps(r, NoOp, {"kind", "owner", "turn", "target"})
    BY <1>1, <2>1 DEF Operation, Keeps, Fields
  <2>3. Capturing(p, s, r)
    BY <1>2 DEF Capture
  <2> HIDE DEF r
  <2> QED
    BY <2>1, <2>2, <2>3, CapturingSteps DEF Saving
<1>3. ASSUME NEW t \in Turn, NEW owner \in Session \cup {Nobody}, Rewind(p, s, t, owner)
      PROVE  StartsSaving(p, s)
  <2> DEFINE m == turns[t]
             u == SafetyTurn(m)
             r == [NoOp EXCEPT !.kind = "rewind", !.owner = owner, !.target = m, !.turn = u]
  <2>1. m \in Manifest /\ u \in TurnKey
    BY <1>3 DEF Rewind, Typed, TypeOK, TurnKey, SafetyTurn
  <2>2. Capturing(p, s, r)
    BY <1>3 DEF Rewind
  <2> HIDE DEF m, u
  <2>3. /\ r \in Operation /\ r.kind = "rewind" /\ r.turn = u /\ r.target = m
        /\ Keeps(r, NoOp, {"kind", "owner", "turn", "target"})
    <3>1. r \in Operation
      BY <1>1, <2>1 DEF Operation
    <3>2. r.kind = "rewind" /\ r.turn = u /\ r.target = m
      BY <1>1 DEF Operation
    <3>3. Keeps(r, NoOp, {"kind", "owner", "turn", "target"})
      BY <1>1 DEF Operation, Keeps, Fields
    <3> QED
      BY <3>1, <3>2, <3>3
  <2> HIDE DEF r
  <2> QED
    BY <2>1, <2>2, <2>3, CapturingSteps DEF Saving
<1>4. ASSUME Undo(p, s)
      PROVE  StartsSaving(p, s)
  <2> DEFINE m == Last(StackOf(s)).safety
             u == SafetyTurn(m)
             r == [NoOp EXCEPT !.kind = "undo", !.target = m, !.turn = u]
  <2>1. m \in Manifest /\ u \in TurnKey
    <3>1. StackOf(s) \in Seq(Record) /\ StackOf(s) # <<>>
      BY <1>4, StackFacts DEF Undo
    <3>2. Last(StackOf(s)) \in Record
      BY <3>1 DEF Last
    <3> QED
      BY <3>2 DEF Record, TurnKey, SafetyTurn
  <2>2. Capturing(p, s, r)
    BY <1>4 DEF Undo
  <2> HIDE DEF m, u
  <2>3. /\ r \in Operation /\ r.kind = "undo" /\ r.turn = u /\ r.target = m
        /\ Keeps(r, NoOp, {"kind", "owner", "turn", "target"})
    BY <1>1, <2>1 DEF Operation, Keeps, Fields
  <2> HIDE DEF r
  <2> QED
    BY <2>1, <2>2, <2>3, CapturingSteps DEF Saving
<1> QED
  BY <1>2, <1>3, <1>4

\* A fork starts with a front part of its source's log.
LEMMA ForkStarts ==
    ASSUME Typed, NEW p \in Proc, NEW src \in Session, NEW dst \in Session, NEW t \in Turn,
           Fork(p, src, dst, t)
    PROVE  /\ ~ Held(dst)
           /\ op'[p].kind = "fork" /\ op'[p].stage = "ensure" /\ op'[p].session = dst
           /\ Len(op'[p].entries) <= Len(LogOf(src))
           /\ \A i \in 1 .. Len(op'[p].entries) : op'[p].entries[i] = LogOf(src)[i]
           /\ LogOf(src) \in Seq(Entry)
           /\ Starts(p, {"kind", "stage", "session", "locked"}, op'[p].entries)
<1> DEFINE r == [NoOp EXCEPT !.kind = "fork", !.stage = "ensure",
                             !.session = dst, !.locked = TRUE]
<1>1. PICK n \in 0 .. Len(LogOf(src)) : ~ Held(dst) /\ Begin(p, r, SubSeq(LogOf(src), 1, n))
  BY DEF Fork
<1>2. LogOf(src) \in Seq(Entry)
  BY DEF Typed, TypeOK, LogOf
<1> DEFINE front == SubSeq(LogOf(src), 1, n)
<1>3. n \in Int /\ 0 <= n /\ n <= Len(LogOf(src)) /\ Len(LogOf(src)) \in Nat
  BY <1>2
<1>4. /\ front \in Seq(Entry) /\ Len(front) = n
      /\ \A i \in 1 .. n : front[i] = LogOf(src)[i]
  BY <1>2, <1>3, SubSeqProperties
<1>5. Begin(p, r, front)
  BY <1>1
<1> HIDE DEF front
<1>6. NoOp \in Operation
  BY NoOpFacts DEF Shaped
<1>7. /\ r \in Operation /\ r.kind = "fork" /\ r.stage = "ensure" /\ r.session = dst
      /\ Keeps(r, NoOp, {"kind", "stage", "session", "locked"})
  BY <1>6 DEF Operation, Keeps, Fields
<1> HIDE DEF r
<1>8. /\ r.entries = <<>> /\ r.found = {} /\ r.condemned = {} /\ r.stack = <<>>
  BY <1>7 DEF Keeps, Fields, NoOp
<1>9. Shaped(r)
  <2>1. Len(<<>>) <= MaxUndo
    BY MaxAssumption
  <2> QED
    BY <1>7, <1>8, <2>1 DEF Shaped, KindAndStage, Equipped, Saving, Sweeper
<1>10. /\ Starts(p, {"kind", "stage", "session", "locked"}, front)
       /\ Keeps(op'[p], r, {"entries", "met", "lent", "quiet"})
  BY <1>4, <1>5, <1>7, <1>9, BeginSteps
<1>11. op'[p].kind = "fork" /\ op'[p].stage = "ensure" /\ op'[p].session = dst
  BY <1>7, <1>10 DEF Keeps, Fields
<1>12. op'[p].entries = front
  BY <1>10 DEF Starts
<1> QED
  BY <1>1, <1>2, <1>3, <1>4, <1>10, <1>11, <1>12

\* Delete starts with what its session's log and records name.
LEMMA DeleteStarts ==
    ASSUME Typed, NEW p \in Proc, NEW s \in Session, Delete(p, s)
    PROVE  /\ Starts(p, {"kind", "stage", "session", "doomedTurns", "doomed"}, <<>>)
           /\ op'[p].kind = "delete" /\ op'[p].stage = "lock"
<1> DEFINE doomedTurns == TurnsIn(LogOf(s))
           doomed == ManifestsIn(LogOf(s)) \cup RecordsOf(StackOf(s))
           r == [NoOp EXCEPT !.kind = "delete", !.stage = "lock", !.session = s,
                             !.doomedTurns = doomedTurns, !.doomed = doomed]
<1>1. Begin(p, r, <<>>)
  BY DEF Delete
<1>2. doomedTurns \in SUBSET TurnKey /\ doomed \in SUBSET Manifest
  <2>1. LogOf(s) \in Seq(Entry)
    BY DEF Typed, TypeOK, LogOf
  <2>2. StackOf(s) \in Seq(Record)
    BY StackFacts
  <2>3. \A u \in ToSet(StackOf(s)) : u.target \in Manifest /\ u.safety \in Manifest
    <3>1. \A u \in ToSet(StackOf(s)) : u \in Record
      BY <2>2 DEF ToSet
    <3>2. \A u \in Record : u.target \in Manifest /\ u.safety \in Manifest
      BY DEF Record
    <3> QED
      BY <3>1, <3>2
  <2>4. RecordsOf(StackOf(s)) \subseteq Manifest
    BY <2>3 DEF RecordsOf
  <2>5. ManifestsIn(LogOf(s)) \subseteq Manifest /\ TurnsIn(LogOf(s)) \subseteq TurnKey
    BY <2>1, EntriesName
  <2> QED
    BY <2>4, <2>5
<1>3. NoOp \in Operation
  BY NoOpFacts DEF Shaped
<1> HIDE DEF doomedTurns, doomed
<1>4. /\ r \in Operation /\ r.kind = "delete" /\ r.stage = "lock" /\ r.session = s
      /\ Keeps(r, NoOp, {"kind", "stage", "session", "doomedTurns", "doomed"})
  BY <1>2, <1>3 DEF Operation, Keeps, Fields
<1> HIDE DEF r
<1>5. /\ r.entries = <<>> /\ r.found = {} /\ r.condemned = {} /\ r.stack = <<>>
  BY <1>4 DEF Keeps, Fields, NoOp
<1>6. Shaped(r) /\ <<>> \in Seq(Entry)
  <2>1. Len(<<>>) <= MaxUndo /\ <<>> \in Seq(Entry)
    BY MaxAssumption
  <2> QED
    BY <1>4, <1>5, <2>1 DEF Shaped, KindAndStage, Equipped, Saving, Sweeper
<1>7. /\ Starts(p, {"kind", "stage", "session", "doomedTurns", "doomed"}, <<>>)
      /\ Keeps(op'[p], r, {"entries", "met", "lent", "quiet"})
  BY <1>1, <1>4, <1>6, BeginSteps
<1> QED
  BY <1>4, <1>7 DEF Keeps, Fields

\* Collect starts with the logs there are.
LEMMA CollectStarts ==
    ASSUME Typed, NEW p \in Proc, Collect(p)
    PROVE  /\ Starts(p, {"kind", "stage", "unread"}, <<>>)
           /\ op'[p].kind = "collect" /\ op'[p].stage = "roots"
           /\ op'[p].unread = DOMAIN log
<1> DEFINE unread == DOMAIN log
           r == [NoOp EXCEPT !.kind = "collect", !.stage = "roots", !.unread = unread]
<1>1. Begin(p, r, <<>>)
  BY DEF Collect
<1>2. unread \in SUBSET Session
  BY DEF Typed, TypeOK
<1>3. NoOp \in Operation
  BY NoOpFacts DEF Shaped
<1> HIDE DEF unread
<1>4. /\ r \in Operation /\ r.kind = "collect" /\ r.stage = "roots" /\ r.unread = unread
      /\ Keeps(r, NoOp, {"kind", "stage", "unread"})
  BY <1>2, <1>3 DEF Operation, Keeps, Fields
<1> HIDE DEF r
<1>5. /\ r.entries = <<>> /\ r.found = {} /\ r.condemned = {} /\ r.stack = <<>>
  BY <1>4 DEF Keeps, Fields, NoOp
<1>6. Shaped(r) /\ <<>> \in Seq(Entry)
  <2>1. Len(<<>>) <= MaxUndo /\ <<>> \in Seq(Entry)
    BY MaxAssumption
  <2> QED
    BY <1>4, <1>5, <2>1 DEF Shaped, KindAndStage, Equipped, Saving, Sweeper
<1>7. /\ Starts(p, {"kind", "stage", "unread"}, <<>>)
      /\ Keeps(op'[p], r, {"entries", "met", "lent", "quiet"})
  BY <1>1, <1>4, <1>6, BeginSteps
<1> QED
  BY <1>4, <1>7 DEF Keeps, Fields, unread

-----------------------------------------------------------------------------
(* All the steps, by who takes them. *)

\* A process that publishes goes on publishing, or ends.
Publishes(p, file, record) ==
    /\ file \subseteq File /\ record \subseteq File
    /\ op[p].stage \in {"store", "index", "ensure", "create", "push", "record", "pop", "spend",
                        "inherit"}
    /\ op'[p].stage \in {"idle", "store", "index", "ensure", "create", "push", "record",
                         "pop", "spend", "inherit"}
    /\ \/ Goes(p, {"stage", "stack", "todo", "found", "entries"}, file, record)
       \/ Stops(p, file, record)

\* A process that sweeps goes on sweeping, or ends.  It touches nothing.
Sweeps(p) ==
    /\ Sweeper(op[p])
    /\ op[p].stage \in {"lock", "unlink undo", "unlink log", "roots", "orphans", "turns",
                        "manifests", "mark", "blobs"}
    /\ op'[p].stage \in {"idle", "unlink undo", "unlink log", "roots", "orphans", "turns",
                         "manifests", "mark", "blobs"}
    /\ \/ Goes(p, {"stage", "locked", "todo", "doomedTurns", "doomed", "unread", "liveTurns",
                   "live", "condemned"}, {}, {})
       \/ Stops(p, {}, {})

\* A step that leaves all but F alone leaves all but more alone.
LEMMA Wider ==
    ASSUME NEW p \in Proc, NEW F, NEW G, NEW file, NEW record,
           Goes(p, F, file, record), F \subseteq G
    PROVE  Goes(p, G, file, record)
BY DEF Goes, Keeps

\* Who has ended is idle.
LEMMA StoppedIsIdle ==
    ASSUME NEW p \in Proc, NEW file, NEW record, Stops(p, file, record)
    PROVE  op'[p].stage = "idle"
BY DEF Stops, NoOp

\* Every publishing step is one of those.
LEMMA PublishingSteps ==
    ASSUME Typed, NEW p \in Proc, Publishing(p)
    PROVE  \E file, record \in SUBSET File : Publishes(p, file, record)
<1> DEFINE G == {"stage", "stack", "todo", "found", "entries"}
<1>1. ASSUME NEW o \in Object, Store(p, o)
      PROVE  \E file, record \in SUBSET File : Publishes(p, file, record)
  <2>1. op[p].stage = "store" /\ {o} \in SUBSET File /\ {} \in SUBSET File
    BY <1>1 DEF Store, File
  <2>2. /\ Goes(p, G, {}, {}) \/ Goes(p, G, {o}, {})
        /\ op'[p].stage = "store"
    <3>1. CASE Goes(p, {"found"}, {}, {})
      BY <2>1, <3>1, Wider DEF Goes, Keeps, Fields
    <3>2. CASE Goes(p, {"todo"}, {o}, {})
      BY <2>1, <3>2, Wider DEF Goes, Keeps, Fields
    <3> QED
      BY <1>1, <3>1, <3>2, StoreSteps
  <2> QED
    BY <2>1, <2>2 DEF Publishes
<1>2. ASSUME NEW o \in Object, Freshen(p, o)
      PROVE  \E file, record \in SUBSET File : Publishes(p, file, record)
  <2>1. op[p].stage = "store" /\ {o} \in SUBSET File /\ {} \in SUBSET File
    BY <1>2, FreshenSteps DEF File
  <2>2. /\ Goes(p, G, {}, {}) \/ Goes(p, G, {o}, {})
        /\ op'[p].stage = "store"
    <3>1. CASE Goes(p, {"todo", "found"}, {}, {})
      BY <2>1, <3>1, Wider DEF Goes, Keeps, Fields
    <3>2. CASE Goes(p, {"todo", "found"}, {o}, {})
      BY <2>1, <3>2, Wider DEF Goes, Keeps, Fields
    <3> QED
      BY <1>2, <3>1, <3>2, FreshenSteps
  <2> QED
    BY <2>1, <2>2 DEF Publishes
<1>3. ASSUME AppendEntry(p)
      PROVE  \E file, record \in SUBSET File : Publishes(p, file, record)
  <2>1. {LogFile(op[p].session)} \in SUBSET File /\ op[p].stage = "store"
    BY <1>3, AppendSteps DEF File, AppendEntry
  <2>2. Goes(p, G, {}, {LogFile(op[p].session)}) /\ op'[p].stage = "index"
    BY <1>3, AppendSteps, Wider
  <2> QED
    BY <2>1, <2>2 DEF Publishes
<1>4. ASSUME SetTurn(p)
      PROVE  \E file, record \in SUBSET File : Publishes(p, file, record)
  <2> DEFINE f == {TurnFile(op[p].turn)}
  <2>1. f \in SUBSET File /\ op[p].stage = "index"
    BY <1>4, SetTurnSteps DEF File
  <2>2. \/ Goes(p, G, f, {}) /\ op'[p].stage \in {"pop", "ensure"}
        \/ Stops(p, f, {}) /\ op'[p].stage = "idle"
    BY <1>4, SetTurnSteps, Wider, StoppedIsIdle
  <2> HIDE DEF f
  <2> QED
    BY <2>1, <2>2 DEF Publishes
<1>5. ASSUME Ensure(p)
      PROVE  \E file, record \in SUBSET File : Publishes(p, file, record)
  <2>1. \/ Goes(p, G, {}, {}) /\ op'[p].stage \in {"push", "inherit", "create"}
        \/ Stops(p, {}, {}) /\ op'[p].stage = "idle"
    BY <1>5, EnsureSteps, Wider, StoppedIsIdle
  <2> QED
    BY <1>5, <2>1, EnsureSteps DEF Publishes
<1>6. ASSUME Create(p)
      PROVE  \E file, record \in SUBSET File : Publishes(p, file, record)
  <2> DEFINE f == {LogFile(Heir(op[p]))}
  <2>1. f \in SUBSET File /\ op[p].stage = "create"
    BY <1>6, CreateSteps DEF File
  <2>2. \/ Goes(p, G, {}, f) /\ op'[p].stage \in {"push", "inherit"}
        \/ Stops(p, {}, f) /\ op'[p].stage = "idle"
    BY <1>6, CreateSteps, Wider, StoppedIsIdle
  <2> HIDE DEF f
  <2> QED
    BY <2>1, <2>2 DEF Publishes
<1>7. ASSUME ReadStack(p)
      PROVE  \E file, record \in SUBSET File : Publishes(p, file, record)
  <2>1. Goes(p, G, {}, {}) /\ op'[p].stage = "record" /\ op[p].stage = "push"
    BY <1>7, ReadStackSteps, Wider
  <2> QED
    BY <2>1 DEF Publishes
<1>8. ASSUME Push(p)
      PROVE  \E file, record \in SUBSET File : Publishes(p, file, record)
  <2> DEFINE f == {UndoFile(op[p].owner)}
  <2>1. /\ f \in SUBSET File /\ op[p].stage = "record"
        /\ Stops(p, f, {}) /\ op'[p].stage = "idle"
    BY <1>8, PushSteps, StoppedIsIdle DEF File
  <2> HIDE DEF f
  <2> QED
    BY <2>1 DEF Publishes
<1>9. ASSUME Pop(p)
      PROVE  \E file, record \in SUBSET File : Publishes(p, file, record)
  <2> DEFINE f == {UndoFile(op[p].session)}
  <2>1. /\ f \in SUBSET File /\ op[p].stage = "spend"
        /\ Stops(p, f, {}) /\ op'[p].stage = "idle"
    BY <1>9, PopSteps, StoppedIsIdle DEF File
  <2> HIDE DEF f
  <2> QED
    BY <2>1 DEF Publishes
<1>10. ASSUME Inherit(p)
       PROVE  \E file, record \in SUBSET File : Publishes(p, file, record)
  <2> DEFINE f == {LogFile(op[p].session)}
  <2>1. f \in SUBSET File /\ op[p].stage = "inherit"
    BY <1>10, InheritSteps DEF File
  <2>2. \/ Goes(p, G, {}, f) /\ op'[p].stage = "inherit"
        \/ Stops(p, {}, f) /\ op'[p].stage = "idle"
    <3>1. CASE Goes(p, {"entries"}, {}, f)
      BY <2>1, <3>1, Wider DEF Goes, Keeps, Fields
    <3>2. CASE Stops(p, {}, f)
      BY <3>2, StoppedIsIdle
    <3> QED
      BY <1>10, <3>1, <3>2, InheritSteps
  <2> HIDE DEF f
  <2> QED
    BY <2>1, <2>2 DEF Publishes
<1>11. ASSUME ReadRecord(p)
       PROVE  \E file, record \in SUBSET File : Publishes(p, file, record)
  <2>1. /\ op[p].stage = "pop"
        /\ \/ Goes(p, G, {}, {}) /\ op'[p].stage = "spend"
           \/ Stops(p, {}, {}) /\ op'[p].stage = "idle"
    BY <1>11, ReadRecordSteps, Wider, StoppedIsIdle
  <2> QED
    BY <2>1 DEF Publishes
<1> HIDE DEF G
<1> QED
  BY <1>1, <1>2, <1>3, <1>4, <1>5, <1>6, <1>7, <1>8, <1>9, <1>10, <1>11 DEF Publishing

\* And so is every sweeping one.
LEMMA SweepingSteps ==
    ASSUME Typed, NEW p \in Proc, Sweeping(p)
    PROVE  Sweeps(p)
<1> DEFINE G == {"stage", "locked", "todo", "doomedTurns", "doomed", "unread", "liveTurns",
                 "live", "condemned"}
<1>1. /\ op[p].stage \in {"lock", "unlink undo", "unlink log"} => op[p].kind = "delete"
      /\ op[p].stage \in {"roots", "turns", "manifests"} => Sweeper(op[p])
      /\ op[p].stage \in {"orphans", "mark", "blobs"} => op[p].kind = "collect"
  BY DEF Typed, Shaped, KindAndStage
<1>2. ASSUME LockDoomed(p) PROVE Sweeps(p)
  BY <1>1, <1>2, LockDoomedSteps, Wider DEF Sweeps, Sweeper
<1>3. ASSUME UnlinkUndo(p) PROVE Sweeps(p)
  BY <1>1, <1>3, UnlinkUndoSteps, Wider DEF Sweeps, Sweeper
<1>4. ASSUME UnlinkLog(p) PROVE Sweeps(p)
  BY <1>1, <1>4, UnlinkLogSteps, Wider DEF Sweeps, Sweeper
<1>5. ASSUME NEW s \in Session, ReadLog(p, s) PROVE Sweeps(p)
  <2>1. CASE Stops(p, {}, {})
    BY <1>1, <1>5, <2>1, ReadLogSteps, StoppedIsIdle DEF Sweeps
  <2>2. CASE ~ Stops(p, {}, {})
    <3>1. op[p].stage = "roots" /\ op'[p].stage \in {"roots", "mark"} /\ Goes(p, G, {}, {})
      BY <1>5, <2>2, ReadLogSteps, Wider
    <3> QED
      BY <1>1, <3>1 DEF Sweeps
  <2> QED
    BY <2>1, <2>2
<1>6. ASSUME ListOrphans(p) PROVE Sweeps(p)
  <2>1. CASE Goes(p, {"stage"}, {}, {}) /\ op'[p].stage = "turns"
    BY <1>1, <1>6, <2>1, ListOrphansSteps, Wider DEF Sweeps
  <2>2. CASE Goes(p, {"stage", "condemned"}, {}, {}) /\ op'[p].stage = "orphans"
    BY <1>1, <1>6, <2>2, ListOrphansSteps, Wider DEF Sweeps
  <2> QED
    BY <1>6, <2>1, <2>2, ListOrphansSteps
<1>7. ASSUME NEW s \in Session, RemoveOrphan(p, s) PROVE Sweeps(p)
  <2>1. op[p].stage = "orphans" /\ op'[p].stage = "orphans" /\ Goes(p, G, {}, {})
    BY <1>7, RemoveOrphanSteps, Wider DEF Goes, Keeps, Fields
  <2> QED
    BY <1>1, <2>1 DEF Sweeps, Sweeper
<1>8. ASSUME OrphansGone(p) PROVE Sweeps(p)
  BY <1>1, <1>8, OrphansGoneSteps, Wider DEF Sweeps, Sweeper
<1>9. ASSUME NEW t \in TurnKey, CondemnTurn(p, t) PROVE Sweeps(p)
  <2>1. op[p].stage = "turns" /\ op'[p].stage = "turns" /\ Goes(p, G, {}, {})
    BY <1>9, CondemnTurnSteps, Wider DEF Goes, Keeps, Fields
  <2> QED
    BY <1>1, <2>1 DEF Sweeps
<1>10. ASSUME NEW t \in TurnKey, RemoveTurn(p, t) PROVE Sweeps(p)
  <2>1. op[p].stage = "turns" /\ op'[p].stage = "turns" /\ Goes(p, G, {}, {})
    BY <1>10, RemoveTurnSteps, Wider DEF Goes, Keeps, Fields
  <2> QED
    BY <1>1, <2>1 DEF Sweeps
<1>11. ASSUME HoldRoots(p) PROVE Sweeps(p)
  BY <1>1, <1>11, HoldRootsSteps, Wider DEF Sweeps
<1>12. ASSUME NEW o \in Object, Condemn(p, o) PROVE Sweeps(p)
  <2>1. /\ op[p].stage \in {"manifests", "blobs"} /\ op'[p].stage = op[p].stage
        /\ Goes(p, G, {}, {})
    BY <1>12, CondemnSteps, Wider DEF Goes, Keeps, Fields
  <2> QED
    BY <1>1, <2>1 DEF Sweeps, Sweeper
<1>13. ASSUME NEW o \in Object, Unlink(p, o) PROVE Sweeps(p)
  <2>1. /\ op[p].stage \in {"manifests", "blobs"} /\ op'[p].stage = op[p].stage
        /\ Goes(p, G, {}, {})
    BY <1>13, UnlinkSteps, Wider DEF Goes, Keeps, Fields
  <2> QED
    BY <1>1, <2>1 DEF Sweeps, Sweeper
<1>14. ASSUME Mark(p) PROVE Sweeps(p)
  <2>0. op[p].stage \in {"manifests", "mark"} /\ Sweeper(op[p])
    BY <1>1, <1>14, MarkSteps DEF Sweeper
  <2>1. CASE Stops(p, {}, {})
    BY <2>0, <2>1, StoppedIsIdle DEF Sweeps
  <2>2. CASE Goes(p, {"stage", "live", "todo"}, {}, {}) /\ op'[p].stage = "blobs"
    BY <2>0, <2>2, Wider DEF Sweeps
  <2> QED
    BY <1>14, <2>1, <2>2, MarkSteps
<1>15. ASSUME Swept(p) PROVE Sweeps(p)
  BY <1>1, <1>15, EndSteps, StoppedIsIdle DEF Sweeps, Sweeper, Swept
<1>16. ASSUME MissRoots(p) PROVE Sweeps(p)
  <2>1. CASE Stops(p, {}, {})
    BY <1>1, <1>16, <2>1, MissRootsSteps, StoppedIsIdle DEF Sweeps
  <2>2. CASE Goes(p, {"stage", "unread", "live", "liveTurns"}, {}, {}) /\ op'[p].stage = "mark"
    BY <1>1, <1>16, <2>2, MissRootsSteps, Wider DEF Sweeps
  <2> QED
    BY <1>16, <2>1, <2>2, MissRootsSteps
<1> HIDE DEF G
<1> QED
  BY <1>2, <1>3, <1>4, <1>5, <1>6, <1>7, <1>8, <1>9, <1>10, <1>11, <1>12, <1>13, <1>14, <1>15,
     <1>16
     DEF Sweeping

\* What is on disk, and what of it history has noted.
FilesTyped ==
    /\ objects \subseteq Object
    /\ DOMAIN log \subseteq Session /\ \A s \in DOMAIN log : log[s] \in Seq(Entry)
    /\ DOMAIN turns \subseteq TurnKey /\ \A t \in DOMAIN turns : turns[t] \in Manifest
    /\ DOMAIN undo \subseteq Session
    /\ \A s \in DOMAIN undo : undo[s] \in Seq(Record) /\ Len(undo[s]) <= MaxUndo
    /\ raced \subseteq File /\ cut \subseteq TurnKey /\ hollow \subseteq Manifest

\* g is f with some keys gone.
Within(g, f) == \A x \in DOMAIN g : x \in DOMAIN f /\ g[x] = f[x]

\* Sweeping only takes away; what it notes of that only grows.
LEMMA SweepingFiles ==
    ASSUME Typed, NEW p \in Proc, Sweeping(p)
    PROVE  /\ objects' \subseteq objects
           /\ Within(log', log) /\ Within(turns', turns) /\ Within(undo', undo)
           /\ raced \subseteq raced' /\ raced' \subseteq File
           /\ UNCHANGED <<ops, cut, hollow>>
<1> USE DEF Within
<1>0. /\ raced \subseteq File
      /\ \A s \in Session : {UndoFile(s)} \subseteq File
      /\ \A t \in TurnKey : {TurnFile(t)} \subseteq File
      /\ \A o \in Object : {o} \subseteq File
  BY DEF Typed, TypeOK, File
<1>1. ASSUME \/ LockDoomed(p) \/ ListOrphans(p) \/ OrphansGone(p) \/ HoldRoots(p)
             \/ MissRoots(p) \/ Mark(p) \/ Swept(p)
             \/ (\E s \in Session : ReadLog(p, s)) \/ (\E t \in TurnKey : CondemnTurn(p, t))
             \/ \E o \in Object : Condemn(p, o)
      PROVE  UNCHANGED <<objects, log, turns, undo, ops, raced, cut, hollow>>
  BY <1>1 DEF LockDoomed, ListOrphans, OrphansGone, HoldRoots, MissRoots, Mark, Swept, ReadLog,
       CondemnTurn, Condemn
<1>2. ASSUME UnlinkUndo(p)
      PROVE  /\ Within(undo', undo)
             /\ UNCHANGED <<objects, log, turns, ops, raced, cut, hollow>>
  BY <1>2 DEF UnlinkUndo, Without
<1>3. ASSUME UnlinkLog(p)
      PROVE  /\ Within(log', log) /\ raced \subseteq raced' /\ raced' \subseteq File
             /\ UNCHANGED <<objects, turns, undo, ops, cut, hollow>>
  <2>1. /\ Within(log', log) /\ UNCHANGED <<objects, turns, undo, ops, cut, hollow>>
        /\ raced' \in {raced \cup {}, raced \cup {UndoFile(op[p].session)}}
    BY <1>3 DEF UnlinkLog, Without
  <2>2. op[p].session \in Session
    BY <1>3, UnlinkLogSteps
  <2> QED
    BY <1>0, <2>1, <2>2
<1>4. ASSUME NEW s \in Session, RemoveOrphan(p, s)
      PROVE  /\ Within(undo', undo)
             /\ UNCHANGED <<objects, log, turns, ops, raced, cut, hollow>>
  BY <1>4 DEF RemoveOrphan, Without
<1>5. ASSUME NEW t \in TurnKey, RemoveTurn(p, t)
      PROVE  /\ Within(turns', turns) /\ raced \subseteq raced' /\ raced' \subseteq File
             /\ UNCHANGED <<objects, log, undo, ops, cut, hollow>>
  <2>1. /\ turns' = Without(turns, t) /\ UNCHANGED <<objects, log, undo, ops, cut, hollow>>
        /\ raced' \in {raced \cup {}, raced \cup {TurnFile(t)}}
    BY <1>5 DEF RemoveTurn
  <2>2. Within(turns', turns)
    BY <2>1 DEF Without
  <2>3. {TurnFile(t)} \subseteq File /\ raced \subseteq File
    BY <1>0
  <2> QED
    BY <2>1, <2>2, <2>3
<1>6. ASSUME NEW o \in Object, Unlink(p, o)
      PROVE  /\ objects' \subseteq objects /\ raced \subseteq raced' /\ raced' \subseteq File
             /\ UNCHANGED <<log, turns, undo, ops, cut, hollow>>
  <2>1. /\ objects' = objects \ {o} /\ UNCHANGED <<log, turns, undo, ops, cut, hollow>>
        /\ raced' \in {raced \cup {}, raced \cup {o}}
    BY <1>6 DEF Unlink
  <2>2. {o} \subseteq File /\ raced \subseteq File
    BY <1>0
  <2> QED
    BY <2>1, <2>2
<1> QED
  BY <1>0, <1>1, <1>2, <1>3, <1>4, <1>5, <1>6 DEF Sweeping

\* Publishing only adds, but for the logs and records it replaces.
LEMMA PublishingFiles ==
    ASSUME Typed, NEW p \in Proc, Publishing(p)
    PROVE  /\ objects \subseteq objects' /\ DOMAIN log \subseteq DOMAIN log'
           /\ DOMAIN turns \subseteq DOMAIN turns'
           /\ raced \subseteq raced' /\ hollow \subseteq hollow'
           /\ FilesTyped' /\ UNCHANGED <<ops, cut>>
<1>0. FilesTyped
  BY DEF Typed, TypeOK, FilesTyped
<1>1. ASSUME NEW o \in Object, Store(p, o)
      PROVE  /\ objects \subseteq objects' /\ hollow \subseteq hollow' /\ FilesTyped'
             /\ UNCHANGED <<log, turns, undo, ops, raced, cut>>
  <2>1. UNCHANGED <<log, turns, undo, ops, raced, cut>>
    BY <1>1 DEF Store
  <2>2. objects' \in {objects, objects \cup {o}}
    BY <1>1 DEF Store
  <2>3. hollow \subseteq hollow' /\ hollow' \subseteq Manifest
    BY <1>0, <1>1 DEF Store, FilesTyped
  <2> QED
    BY <1>0, <2>1, <2>2, <2>3 DEF FilesTyped
<1>2. ASSUME \/ Ensure(p) \/ ReadStack(p) \/ ReadRecord(p) \/ \E o \in Object : Freshen(p, o)
      PROVE  FilesTyped' /\ UNCHANGED <<objects, log, turns, undo, ops, raced, cut, hollow>>
  <2>1. UNCHANGED <<objects, log, turns, undo, ops, raced, cut, hollow>>
    BY <1>2 DEF Ensure, ReadStack, ReadRecord, Freshen
  <2> QED
    BY <1>0, <2>1 DEF FilesTyped
<1>3. ASSUME NEW s \in Session, NEW entries \in Seq(Entry), log' = With(log, s, entries),
             UNCHANGED <<objects, turns, undo, ops, cut, hollow>>,
             raced \subseteq raced', raced' \subseteq File
      PROVE  FilesTyped' /\ DOMAIN log \subseteq DOMAIN log'
  <2>1. DOMAIN log' = DOMAIN log \cup {s} /\ log'[s] = entries
        /\ \A x \in DOMAIN log \ {s} : log'[x] = log[x]
    BY <1>3 DEF With
  <2> QED
    BY <1>0, <1>3, <2>1 DEF FilesTyped
<1>4. ASSUME AppendEntry(p)
      PROVE  /\ FilesTyped' /\ DOMAIN log \subseteq DOMAIN log'
             /\ UNCHANGED <<objects, turns, undo, ops, raced, cut, hollow>>
  <2> DEFINE s == op[p].session
             e == [turn |-> op[p].turn, manifest |-> op[p].manifest]
  <2>1. s \in Session /\ e \in Entry
    BY <1>4, AppendSteps DEF Entry
  <2>2. LogOf(s) \in Seq(Entry)
    BY <1>0, <2>1 DEF FilesTyped, LogOf
  <2>3. Append(LogOf(s), e) \in Seq(Entry)
    BY <2>1, <2>2
  <2>4. /\ log' = With(log, s, Append(LogOf(s), e))
        /\ UNCHANGED <<objects, turns, undo, ops, raced, cut, hollow>>
    BY <1>4 DEF AppendEntry
  <2>5. raced \subseteq raced' /\ raced' \subseteq File
    BY <1>0, <2>4 DEF FilesTyped
  <2> QED
    BY <1>3, <2>1, <2>3, <2>4, <2>5
<1>5. ASSUME Inherit(p)
      PROVE  /\ FilesTyped' /\ DOMAIN log \subseteq DOMAIN log'
             /\ UNCHANGED <<objects, turns, undo, ops, raced, cut, hollow>>
  <2> DEFINE s == op[p].session
             e == Head(op[p].entries)
  <2>1. s \in Session /\ e \in Entry
    BY <1>5, InheritSteps, HeadTailProperties
  <2>2. LogOf(s) \in Seq(Entry)
    BY <1>0, <2>1 DEF FilesTyped, LogOf
  <2>3. Append(LogOf(s), e) \in Seq(Entry)
    BY <2>1, <2>2
  <2>4. /\ log' = With(log, s, Append(LogOf(s), e))
        /\ UNCHANGED <<objects, turns, undo, ops, raced, cut, hollow>>
    BY <1>5 DEF Inherit
  <2>5. raced \subseteq raced' /\ raced' \subseteq File
    BY <1>0, <2>4 DEF FilesTyped
  <2> QED
    BY <1>3, <2>1, <2>3, <2>4, <2>5
<1>6. ASSUME Create(p)
      PROVE  /\ FilesTyped' /\ DOMAIN log \subseteq DOMAIN log' /\ raced \subseteq raced'
             /\ UNCHANGED <<objects, turns, undo, ops, cut, hollow>>
  <2>1. Heir(op[p]) \in Session /\ {LogFile(Heir(op[p]))} \subseteq File
    BY <1>6, CreateSteps DEF File
  <2>2. /\ log' = With(log, Heir(op[p]), <<>>) /\ <<>> \in Seq(Entry)
        /\ UNCHANGED <<objects, turns, undo, ops, cut, hollow>>
    BY <1>6 DEF Create
  <2>3. raced \subseteq raced' /\ raced' \subseteq File
    BY <1>0, <1>6, <2>1 DEF FilesTyped, Create
  <2> QED
    BY <1>3, <2>1, <2>2, <2>3
<1>7. ASSUME SetTurn(p)
      PROVE  /\ FilesTyped' /\ DOMAIN turns \subseteq DOMAIN turns'
             /\ UNCHANGED <<objects, log, undo, ops, raced, cut, hollow>>
  <2>1. op[p].turn \in TurnKey /\ op[p].manifest \in Manifest
    BY <1>7, SetTurnSteps
  <2>2. /\ turns' = With(turns, op[p].turn, op[p].manifest)
        /\ UNCHANGED <<objects, log, undo, ops, raced, cut, hollow>>
    BY <1>7 DEF SetTurn
  <2>3. DOMAIN turns' = DOMAIN turns \cup {op[p].turn} /\ turns'[op[p].turn] = op[p].manifest
        /\ \A x \in DOMAIN turns \ {op[p].turn} : turns'[x] = turns[x]
    BY <2>2 DEF With
  <2> QED
    BY <1>0, <2>1, <2>2, <2>3 DEF FilesTyped
<1>8. ASSUME NEW s \in Session, NEW stack \in Seq(Record), Len(stack) <= MaxUndo,
             undo' = With(undo, s, stack),
             UNCHANGED <<objects, log, turns, ops, raced, cut, hollow>>
      PROVE  FilesTyped'
  <2>1. DOMAIN undo' = DOMAIN undo \cup {s} /\ undo'[s] = stack
        /\ \A x \in DOMAIN undo \ {s} : undo'[x] = undo[x]
    BY <1>8 DEF With
  <2> QED
    BY <1>0, <1>8, <2>1 DEF FilesTyped
<1>9. ASSUME Push(p)
      PROVE  FilesTyped' /\ UNCHANGED <<objects, log, turns, ops, raced, cut, hollow>>
  <2> DEFINE s == op[p].owner
             longer == Append(op[p].stack,
                              [target |-> op[p].target, safety |-> op[p].manifest])
             kept == IF Len(longer) > MaxUndo THEN Tail(longer) ELSE longer
  <2>1. s \in Session /\ op[p].target \in Manifest /\ op[p].manifest \in Manifest
    BY <1>9, PushSteps
  <2>2. op[p].stack \in Seq(Record) /\ Len(op[p].stack) <= MaxUndo
    BY DEF Typed, Shaped, Operation, Equipped
  <2>3. /\ longer \in Seq(Record) /\ Len(longer) = Len(op[p].stack) + 1
        /\ Len(op[p].stack) \in Nat /\ longer # <<>>
    BY <2>1, <2>2 DEF Record
  <2>4. /\ undo' = With(undo, s, kept)
        /\ UNCHANGED <<objects, log, turns, ops, raced, cut, hollow>>
    BY <1>9 DEF Push
  <2> HIDE DEF longer
  <2>5. Tail(longer) \in Seq(Record) /\ Len(Tail(longer)) = Len(longer) - 1
    BY <2>3, HeadTailProperties
  <2>6. kept \in Seq(Record) /\ Len(kept) <= MaxUndo
    BY <2>2, <2>3, <2>5, MaxAssumption
  <2> QED
    BY <1>8, <2>1, <2>4, <2>6
<1>10. ASSUME Pop(p)
       PROVE  FilesTyped' /\ UNCHANGED <<objects, log, turns, ops, raced, cut, hollow>>
  <2> DEFINE s == op[p].session
             stack == op[p].stack
  <2>1. /\ UNCHANGED <<objects, log, turns, ops, raced, cut, hollow>>
        /\ undo' = With(undo, s, SubSeq(stack, 1, Len(stack) - 1))
    BY <1>10 DEF Pop
  <2>2. s \in Session /\ stack \in Seq(Record) /\ Len(stack) <= MaxUndo /\ stack # <<>>
    BY <1>10, PopSteps
  <2> HIDE DEF stack
  <2>3. Len(stack) \in Nat /\ Len(stack) # 0
    BY <2>2, EmptySeq
  <2>4. /\ SubSeq(stack, 1, Len(stack) - 1) \in Seq(Record)
        /\ Len(SubSeq(stack, 1, Len(stack) - 1)) = Len(stack) - 1
    <3> DEFINE n == Len(stack) - 1
    <3>1. n \in Int /\ 1 <= n + 1 /\ n <= Len(stack) /\ 1 \in Int
      BY <2>3
    <3>2. n \in 0 .. Len(stack)
      BY <2>3
    <3> HIDE DEF n
    <3>3. SubSeq(stack, 1, n) \in Seq(Record) /\ Len(SubSeq(stack, 1, n)) = n
      BY <2>2, <3>1, <3>2, SubSeqProperties
    <3> QED
      BY <3>3 DEF n
  <2>5. Len(SubSeq(stack, 1, Len(stack) - 1)) <= MaxUndo
    BY <2>2, <2>3, <2>4, MaxAssumption
  <2> QED
    BY <1>8, <2>1, <2>2, <2>4, <2>5
<1> QED
  BY <1>0, <1>1, <1>2, <1>4, <1>5, <1>6, <1>7, <1>9, <1>10 DEF Publishing, FilesTyped

-----------------------------------------------------------------------------
(* Type correctness. *)

\* An operation begins, and no file changes.
Beginning(p) ==
    /\ UNCHANGED <<objects, log, turns, undo, raced, cut, hollow>>
    /\ ops < MaxOps /\ ops' = ops + 1
    /\ \/ \E s \in Session : StartsSaving(p, s)
       \/ \E src, dst \in Session, t \in Turn : Fork(p, src, dst, t)
       \/ \E s \in Session : Delete(p, s)
       \/ Collect(p)

\* All there is to a step.
LEMMA NextSteps ==
    ASSUME Typed, [Next]_vars
    PROVE  \/ \E p \in Proc : Beginning(p) \/ Publishing(p) \/ Sweeping(p) \/ Crash(p)
           \/ \E f \in File : Settle(f)
           \/ UNCHANGED vars
<1>1. ASSUME NEW p \in Proc, NEW s \in Session, NEW r, Capturing(p, s, r), StartsSaving(p, s)
      PROVE  Beginning(p)
  BY <1>1 DEF Capturing, Begin, Beginning
<1>2. ASSUME NEW p \in Proc, NEW s \in Session, NEW t \in Turn, Capture(p, s, t)
      PROVE  Beginning(p)
  BY <1>1, <1>2, SavingStarts DEF Capture
<1>3. ASSUME NEW p \in Proc, NEW s \in Session, NEW t \in Turn,
             NEW owner \in Session \cup {Nobody}, Rewind(p, s, t, owner)
      PROVE  Beginning(p)
  <2>1. StartsSaving(p, s)
    BY <1>3, SavingStarts
  <2> QED
    BY <1>1, <1>3, <2>1 DEF Rewind
<1>4. ASSUME NEW p \in Proc, NEW s \in Session, Undo(p, s)
      PROVE  Beginning(p)
  BY <1>1, <1>4, SavingStarts DEF Undo
<1>5. ASSUME NEW p \in Proc, NEW src \in Session, NEW dst \in Session, NEW t \in Turn,
             Fork(p, src, dst, t)
      PROVE  Beginning(p)
  BY <1>5 DEF Fork, Begin, Beginning
<1>6. ASSUME NEW p \in Proc, NEW s \in Session, Delete(p, s)
      PROVE  Beginning(p)
  BY <1>6 DEF Delete, Begin, Beginning
<1>7. ASSUME NEW p \in Proc, Collect(p)
      PROVE  Beginning(p)
  BY <1>7 DEF Collect, Begin, Beginning
<1> QED
  BY <1>2, <1>3, <1>4, <1>5, <1>6, <1>7 DEF Next

\* Two processes never hold one session's lock.
Apart ==
    \A p, q \in Proc : op[p].locked /\ op[q].locked /\ p # q => op[p].session # op[q].session

\* Whoever comes to hold a lock found it free.
LEMMA StayApart ==
    ASSUME Apart, NEW p \in Proc,
           \A q \in Proc \ {p} : /\ op'[q].locked = op[q].locked
                                 /\ op'[q].session = op[q].session,
           op'[p].locked => \/ op[p].locked /\ op'[p].session = op[p].session
                            \/ ~ Held(op'[p].session)
    PROVE  Apart'
<1>1. ASSUME NEW q \in Proc \ {p}, op'[p].locked, op'[q].locked
      PROVE  op'[p].session # op'[q].session
  BY <1>1 DEF Apart, Held
<1>2. ASSUME NEW q \in Proc \ {p}, NEW r \in Proc \ {p}, q # r, op'[q].locked, op'[r].locked
      PROVE  op'[q].session # op'[r].session
  BY <1>2 DEF Apart
<1> QED
  BY <1>1, <1>2 DEF Apart

\* A sweep takes only a lock that is free.
LEMMA SweepsLocked ==
    ASSUME Typed, NEW p \in Proc, Sweeping(p), op'[p].locked
    PROVE  op'[p].session = op[p].session /\ (op[p].locked \/ ~ Held(op[p].session))
<1>1. Sweeps(p)
  BY SweepingSteps
<1>2. op'[p].session = op[p].session
  <2>1. ~ Stops(p, {}, {})
    BY DEF Stops, NoOp
  <2> QED
    BY <1>1, <2>1 DEF Sweeps, Goes, Keeps, Fields
<1>3. CASE LockDoomed(p)
  BY <1>2, <1>3, LockDoomedSteps
<1>4. CASE UnlinkLog(p)
  BY <1>4, UnlinkLogSteps
<1>5. ~ Stops(p, {}, {})
  BY DEF Stops, NoOp
<1>6. CASE \/ UnlinkUndo(p) \/ ListOrphans(p) \/ OrphansGone(p) \/ HoldRoots(p) \/ MissRoots(p)
           \/ Mark(p) \/ Swept(p)
  <2>1. \/ Goes(p, {"stage"}, {}, {}) \/ Goes(p, {"stage", "condemned"}, {}, {})
        \/ Goes(p, {"stage", "live", "doomed"}, {}, {})
        \/ Goes(p, {"stage", "live", "todo"}, {}, {})
        \/ Goes(p, {"stage", "unread", "live", "liveTurns"}, {}, {})
    BY <1>5, <1>6, UnlinkUndoSteps, ListOrphansSteps, OrphansGoneSteps, HoldRootsSteps,
       MissRootsSteps, MarkSteps, EndSteps
  <2> QED
    BY <1>2, <2>1 DEF Goes, Keeps, Fields
<1>7. CASE \/ \E s \in Session : ReadLog(p, s) \/ RemoveOrphan(p, s)
           \/ \E t \in TurnKey : CondemnTurn(p, t) \/ RemoveTurn(p, t)
           \/ \E o \in Object : Condemn(p, o) \/ Unlink(p, o)
  <2>1. \/ Goes(p, {"condemned"}, {}, {}) \/ Goes(p, {"unread", "live", "liveTurns"}, {}, {})
        \/ Goes(p, {"stage", "unread", "live", "liveTurns"}, {}, {})
        \/ Goes(p, {"condemned", "doomedTurns"}, {}, {})
        \/ Goes(p, {"condemned", "doomed", "todo"}, {}, {})
    BY <1>5, <1>7, ReadLogSteps, RemoveOrphanSteps, CondemnTurnSteps, RemoveTurnSteps,
       CondemnSteps, UnlinkSteps
  <2> QED
    BY <1>2, <2>1 DEF Goes, Keeps, Fields
<1> QED
  BY <1>3, <1>4, <1>6, <1>7 DEF Sweeping

\* The operations: each well shaped, and no two on one lock.
OpsTyped ==
    /\ op \in [Proc -> Operation] /\ \A p \in Proc : Shaped(op[p])
    /\ fresh \subseteq File /\ Apart

\* The types of the operations and those of the files.
LEMMA TypedParts ==
    Typed <=> OpsTyped /\ FilesTyped /\ ops \in 0 .. MaxOps
BY DEF Typed, TypeOK, OpsTyped, FilesTyped, Apart

\* The others keep their locks whatever p does.
LEMMA OthersKeepLocks ==
    ASSUME NEW p \in Proc, NEW file, NEW record, Others(p, file, record)
    PROVE  \A q \in Proc \ {p} : /\ op'[q].locked = op[q].locked
                                 /\ op'[q].session = op[q].session
BY DEF Others, Keeps, Fields

\* Every step of an operation keeps the types of all.
LEMMA OpsStayTyped ==
    ASSUME Typed, NEW p \in Proc,
           Beginning(p) \/ Publishing(p) \/ Sweeping(p) \/ Crash(p)
    PROVE  OpsTyped'
<1>0. Apart /\ fresh \subseteq File
  BY DEF Typed, TypeOK, Apart
<1>1. ASSUME NEW file \in SUBSET File, NEW record, Others(p, file, record), Apart'
      PROVE  OpsTyped'
  BY <1>0, <1>1 DEF Others, OpsTyped
<1>2. CASE Publishing(p)
  <2>1. PICK file \in SUBSET File, record \in SUBSET File : Publishes(p, file, record)
    BY <1>2, PublishingSteps
  <2>2. Others(p, file, record)
    BY <2>1 DEF Publishes, Goes, Stops
  <2>3. op'[p].locked => op[p].locked /\ op'[p].session = op[p].session
    <3>1. CASE Stops(p, file, record)
      BY <3>1 DEF Stops, NoOp
    <3>2. CASE Goes(p, {"stage", "stack", "todo", "found", "entries"}, file, record)
      BY <3>2 DEF Goes, Keeps, Fields
    <3> QED
      BY <2>1, <3>1, <3>2 DEF Publishes
  <2>4. Apart'
    BY <1>0, <2>2, <2>3, OthersKeepLocks, StayApart
  <2> QED
    BY <1>1, <2>2, <2>4
<1>3. CASE Sweeping(p)
  <2>1. Others(p, {}, {})
    BY <1>3, SweepingSteps DEF Sweeps, Goes, Stops
  <2>2. Apart'
    BY <1>0, <1>3, <2>1, SweepsLocked, OthersKeepLocks, StayApart
  <2> QED
    BY <1>1, <2>1, <2>2
<1>4. CASE Crash(p)
  <2>1. Stops(p, {}, {})
    BY <1>4, EndSteps
  <2>2. Others(p, {}, {}) /\ ~ op'[p].locked
    BY <2>1 DEF Stops, NoOp
  <2>3. Apart'
    BY <1>0, <2>2, OthersKeepLocks, StayApart
  <2> QED
    BY <1>1, <2>2, <2>3
<1>5. ASSUME NEW F, NEW entries, Starts(p, F, entries),
             op'[p].locked => ~ Held(op'[p].session)
      PROVE  OpsTyped'
  <2>1. \A q \in Proc \ {p} : /\ op'[q].locked = op[q].locked
                              /\ op'[q].session = op[q].session
    BY <1>5 DEF Starts, Keeps, Fields
  <2>2. Apart'
    BY <1>0, <1>5, <2>1, StayApart
  <2> QED
    BY <1>0, <1>5, <2>2 DEF Starts, OpsTyped
<1>6. ASSUME NEW s \in Session, StartsSaving(p, s)
      PROVE  OpsTyped'
  BY <1>5, <1>6 DEF StartsSaving
<1>7. ASSUME NEW src \in Session, NEW dst \in Session, NEW t \in Turn, Fork(p, src, dst, t)
      PROVE  OpsTyped'
  BY <1>5, <1>7, ForkStarts
<1>8. ASSUME NEW s \in Session, Delete(p, s)
      PROVE  OpsTyped'
  <2>1. Starts(p, {"kind", "stage", "session", "doomedTurns", "doomed"}, <<>>)
    BY <1>8, DeleteStarts
  <2>2. ~ op'[p].locked
    BY <2>1 DEF Starts, Keeps, Fields, NoOp
  <2> QED
    BY <1>5, <2>1, <2>2
<1>9. ASSUME Collect(p)
      PROVE  OpsTyped'
  <2>1. Starts(p, {"kind", "stage", "unread"}, <<>>)
    BY <1>9, CollectStarts
  <2>2. ~ op'[p].locked
    BY <2>1 DEF Starts, Keeps, Fields, NoOp
  <2> QED
    BY <1>5, <2>1, <2>2
<1> QED
  BY <1>2, <1>3, <1>4, <1>6, <1>7, <1>8, <1>9 DEF Beginning

\* The types hold at the start.
LEMMA TypedInit == Init => Typed
<1> SUFFICES ASSUME Init PROVE Typed
  OBVIOUS
<1>1. op \in [Proc -> Operation] /\ \A p \in Proc : Shaped(op[p]) /\ op[p] = NoOp
  BY NoOpFacts DEF Init, Shaped
<1>2. OpsTyped
  <2>1. Apart
    BY <1>1 DEF Apart, NoOp
  <2> QED
    BY <1>1, <2>1 DEF Init, OpsTyped
<1>3. FilesTyped
  <2>1. DOMAIN <<>> = {}
    OBVIOUS
  <2> QED
    BY <2>1 DEF Init, FilesTyped
<1> QED
  BY <1>2, <1>3, TypedParts, MaxAssumption DEF Init

\* Every step keeps them.
LEMMA TypedNext == Typed /\ [Next]_vars => Typed'
<1> SUFFICES ASSUME Typed, [Next]_vars PROVE Typed'
  OBVIOUS
<1>0. OpsTyped /\ FilesTyped /\ ops \in 0 .. MaxOps
  BY TypedParts
<1> SUFFICES OpsTyped' /\ FilesTyped' /\ (ops \in 0 .. MaxOps)'
  BY DEF Typed, TypeOK, OpsTyped, FilesTyped, Apart
<1>1. ASSUME NEW p \in Proc, Beginning(p)
      PROVE  OpsTyped' /\ FilesTyped' /\ (ops \in 0 .. MaxOps)'
  BY <1>0, <1>1, OpsStayTyped, MaxAssumption DEF Beginning, FilesTyped
<1>2. ASSUME NEW p \in Proc, Publishing(p)
      PROVE  OpsTyped' /\ FilesTyped' /\ (ops \in 0 .. MaxOps)'
  BY <1>0, <1>2, OpsStayTyped, PublishingFiles
<1>3. ASSUME NEW p \in Proc, Sweeping(p)
      PROVE  OpsTyped' /\ FilesTyped' /\ (ops \in 0 .. MaxOps)'
  <2>1. OpsTyped' /\ ops' = ops
    BY <1>3, OpsStayTyped, SweepingFiles
  <2>2. FilesTyped'
    BY <1>0, <1>3, SweepingFiles DEF FilesTyped, Within
  <2> QED
    BY <1>0, <2>1, <2>2
<1>4. ASSUME NEW p \in Proc, Crash(p)
      PROVE  OpsTyped' /\ FilesTyped' /\ (ops \in 0 .. MaxOps)'
  <2>1. OpsTyped' /\ UNCHANGED <<objects, log, turns, undo, ops, raced, hollow>>
    BY <1>4, OpsStayTyped DEF Crash
  <2>2. cut' \subseteq TurnKey
    <3>1. op[p].stage = "index" => op[p].turn \in TurnKey
      BY DEF Typed, Shaped, KindAndStage, Equipped
    <3> QED
      BY <1>0, <1>4, <3>1 DEF Crash, FilesTyped
  <2> QED
    BY <1>0, <2>1, <2>2 DEF FilesTyped
<1>5. ASSUME NEW f \in File, Settle(f)
      PROVE  OpsTyped' /\ FilesTyped' /\ (ops \in 0 .. MaxOps)'
  BY <1>0, <1>5 DEF Settle, OpsTyped, FilesTyped, Apart
<1>6. ASSUME UNCHANGED vars
      PROVE  OpsTyped' /\ FilesTyped' /\ (ops \in 0 .. MaxOps)'
  BY <1>0, <1>6 DEF vars, OpsTyped, FilesTyped, Apart
<1> QED
  BY <1>1, <1>2, <1>3, <1>4, <1>5, <1>6, NextSteps

\* TypeOK holds in every reachable state: among the rest, no two processes ever
\* hold one session's lock (SessionLock::acquire), and no undo stack is longer
\* than MAX_RESTORE_HISTORY (push_restore).
THEOREM TypeCorrect == Spec => []TypeOK
<1>1. Typed => TypeOK
  BY DEF Typed
<1> QED
  BY <1>1, TypedInit, TypedNext, PTL DEF Spec

=============================================================================
