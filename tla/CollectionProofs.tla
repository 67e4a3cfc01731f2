---------------------------- MODULE CollectionProofs ----------------------------
(***************************************************************************)
(* Proofs about Collection, for every number of sessions, workspaces,        *)
(* manifests and blobs and every bound on captures and faults: a collection   *)
(* takes nothing a log leads to and nothing a writer is writing.              *)
(***************************************************************************)
EXTENDS Collection, SequenceTheorems, TLAPS

-----------------------------------------------------------------------------
(* Files *)

\* What the names of files tell apart.
LEMMA FileFacts ==
    /\ \A b \in Blob : /\ BlobFile(b) \in Content
                       /\ BlobFile(b).kind = "blob"
    /\ \A w \in Workspace, m \in Manifest :
         /\ ManifestFile(w, m) \in Record /\ ManifestFile(w, m).kind = "manifest"
         /\ TurnFile(w, m) \in Record /\ TurnFile(w, m).kind = "turn"
    /\ \A s \in Session : /\ LogFile(s) \in Record /\ LogFile(s).kind = "log"
                          /\ UndoFile(s) \in Record /\ UndoFile(s).kind = "undo"
    /\ \A f \in Record \cup Content :
         /\ f \in File /\ f.tmp = FALSE
         /\ f.kind \in {"blob", "manifest", "turn", "log", "undo"}
         /\ f.kind = "log" => \E s \in Session : f = LogFile(s)
    /\ \A f \in Record \cup Content, s \in Session :
         Tmp(f, s) \in Residue /\ Tmp(f, s) \in File /\ Tmp(f, s).tmp = s
    /\ \A f \in Residue : f.tmp \in Session /\ f.tmp # FALSE
    /\ \A s \in Session : Home[s] \in Workspace
<1>1. \A s \in Session : LogFile(s) \in Record /\ UndoFile(s) \in Record
  BY DEF Record
<1>2. \A b \in Blob : BlobFile(b) \in Content
  BY DEF Content
<1>3. \A w \in Workspace, m \in Manifest : ManifestFile(w, m) \in Record /\ TurnFile(w, m) \in Record
  BY DEF Record
<1>4. Record \cup Content \cup Residue = File
  BY DEF File
<1> USE DEF BlobFile, ManifestFile, TurnFile, LogFile, UndoFile, FileOf
<1>5. \A s \in Session : Home[s] \in Workspace
  BY HomeAssumption
<1>6. \A f \in Content : f.tmp = FALSE /\ f.kind = "blob"
  BY DEF Content
<1>7. \A f \in Record :
        /\ f.tmp = FALSE /\ f.kind \in {"manifest", "turn", "log", "undo"}
        /\ f.kind = "log" => \E s \in Session : f = LogFile(s)
  BY DEF Record
<1>8. \A f \in Record \cup Content, s \in Session : Tmp(f, s).tmp = s /\ Tmp(f, s) \in Residue
  <2> SUFFICES ASSUME NEW f \in Record \cup Content, NEW s \in Session
               PROVE  Tmp(f, s).tmp = s /\ Tmp(f, s) \in Residue
    OBVIOUS
  <2>1. Tmp(f, s) \in Residue
    BY DEF Residue
  <2>2. \E d, k, o, t : f = [dir |-> d, kind |-> k, of |-> o, tmp |-> t]
    BY DEF Record, Content
  <2> QED
    BY <2>1, <2>2 DEF Tmp
<1>9. \A f \in Residue : \E g \in Record \cup Content, s \in Session : f = Tmp(g, s)
  BY DEF Residue
<1>10. \A f \in Residue : f.tmp \in Session /\ f.tmp # FALSE
  BY <1>8, <1>9, ResidueAssumption
<1> QED
  BY <1>1, <1>2, <1>3, <1>4, <1>5, <1>6, <1>7, <1>8, <1>10

\* No two things share a file.
LEMMA NamesAreDistinct ==
    /\ \A b, c \in Blob : BlobFile(b) = BlobFile(c) => b = c
    /\ \A v, w \in Workspace, m, n \in Manifest :
         ManifestFile(v, m) = ManifestFile(w, n) => v = w /\ m = n
    /\ \A s, t \in Session : LogFile(s) = LogFile(t) => s = t
    /\ \A s, t \in Session : UndoFile(s) = UndoFile(t) => s = t
BY DEF BlobFile, ManifestFile, LogFile, UndoFile, FileOf

\* A log names manifests.
LEMMA NamedAreManifests ==
    ASSUME log \in [Session -> Seq(Manifest)], NEW s \in Session
    PROVE  Named(s) \subseteq Manifest
BY ElementOfSeq DEF Named

-----------------------------------------------------------------------------
(* Steps *)

\* An operation begins that captures m: a capture, or a rewind.
Begins(s, m) ==
    \E target \in Manifest \cup {None}, heir \in Heirs[s] \cup {None} :
      /\ heir # None => target \in Manifest
      /\ Begin(s, m, target, heir)

\* The steps there are.
LEMMA Steps ==
    ASSUME writer \in [Session -> Writer], [Next]_vars
    PROVE  \/ \E s \in Session, m \in Manifest : Begins(s, m)
           \/ \E s \in Session :
                \/ \E f \in Record \cup Content : Freshen(s, f) \/ WriteTmp(s, f)
                \/ Ensure(s) \/ Rename(s) \/ Fail(s) \/ Delete(s) \/ Kill(s)
           \/ \E f \in disk : Damage(f) \/ Mend(f) \/ Settle(f)
           \/ KillGc
           \/ Collecting
           \/ UNCHANGED vars
<1>1. ASSUME NEW s \in Session, NEW m \in Manifest, Capture(s, m) PROVE Begins(s, m)
  BY <1>1 DEF Capture, Begins
<1>2. ASSUME NEW s \in Session, NEW m \in Manifest, NEW target \in Manifest, NEW heir \in Heirs[s],
             Rewind(s, m, target, heir)
      PROVE  Begins(s, m)
  BY <1>2 DEF Rewind, Begins
<1>3. ASSUME NEW s \in Session PROVE writer[s].todo \subseteq Record \cup Content
  BY DEF Writer
<1> QED
  BY <1>1, <1>2, <1>3 DEF Next, Write, Faulting

-----------------------------------------------------------------------------
(* The shape of the state *)

\* What a capture hands its workspace to, if anything, and what it then files.
Handing(s) ==
    /\ writer[s].heir # None => writer[s].heir \in Heirs[s] /\ writer[s].target \in Manifest
    /\ \A f \in writer[s].todo :
         f.kind = "undo" => writer[s].heir # None /\ f = UndoFile(writer[s].heir)

\* With it: nothing half-written is damaged, and who writes nothing has nothing
\* to write.
TypeInv ==
    /\ TypeOK
    /\ damaged \cap Residue = {}
    /\ \A s \in Session : ~ Writing(s) => writer[s].todo = {}
    /\ \A s \in Session : Handing(s)

\* It holds at first.
LEMMA TypeInit == Init => TypeInv
<1> SUFFICES ASSUME Init PROVE TypeInv
  OBVIOUS
<1>1. NotWriting \in Writer
  BY DEF NotWriting, Writer
<1>2. NoGc \in Gc
  BY DEF NoGc, Gc
<1>3. <<>> \in Seq(Manifest)
  BY EmptySeq
<1> QED
  BY <1>1, <1>2, <1>3, BoundsAreNumbers DEF Init, TypeInv, TypeOK, Writing, NotWriting, NoGc, Handing

\* A collection that shields more files is a collection still.
LEMMA ShieldingGc ==
    ASSUME NEW g \in Gc, NEW files \in SUBSET File
    PROVE  /\ Shielding(g, files) \in Gc
           /\ Shielding(g, files).left = g.left
           /\ Shielding(g, files).at = g.at
           /\ Shielding(g, files).stage = g.stage
           /\ Shielding(g, files).live = g.live
           /\ Shielding(g, files).marked = g.marked
           /\ Shielding(g, files).complete = g.complete
           /\ Shielding(g, files).todo = g.todo
           /\ g.stage # "idle" => Shielding(g, files).shield = g.shield \cup files
BY DEF Shielding, Gc

\* Taking files away leaves what is left well shaped.
LEMMA RemovingKeepsShape ==
    ASSUME NEW files, Removing(files), TypeInv
    PROVE  /\ disk' \subseteq File
           /\ fresh' \subseteq disk' /\ damaged' \subseteq disk'
           /\ damaged' \cap Residue = {}
BY DEF Removing, TypeInv, TypeOK

\* Every step keeps it.
LEMMA TypeNext == TypeInv /\ [Next]_vars => TypeInv'
<1> SUFFICES ASSUME TypeInv, [Next]_vars PROVE TypeInv'
  OBVIOUS
<1> USE BoundsAreNumbers DEF TypeInv
<1>0. CASE UNCHANGED vars
  BY <1>0 DEF vars, TypeOK, Writing, Handing
<1>u. ASSUME UNCHANGED writer
      PROVE  /\ writer' \in [Session -> Writer]
             /\ \A s \in Session : writer'[s].writing \in writer'[s].todo \cup {None}
             /\ \A s \in Session : (~ Writing(s) => writer[s].todo = {})'
             /\ \A s \in Session : Handing(s)'
  BY <1>u DEF TypeOK, Writing, Handing
<1>w. ASSUME NEW s \in Session, NEW new \in Writer, writer' = [writer EXCEPT ![s] = new],
             new.writing \in new.todo \cup {None},
             new.manifest = None => new.todo = {},
             new.heir # None => new.heir \in Heirs[s] /\ new.target \in Manifest,
             \A f \in new.todo : f.kind = "undo" => new.heir # None /\ f = UndoFile(new.heir)
      PROVE  /\ writer' \in [Session -> Writer]
             /\ \A t \in Session : writer'[t].writing \in writer'[t].todo \cup {None}
             /\ \A t \in Session : (~ Writing(t) => writer[t].todo = {})'
             /\ \A t \in Session : Handing(t)'
  <2>1. \A t \in Session : writer'[t] = IF t = s THEN new ELSE writer[t]
    BY <1>w DEF TypeOK
  <2>2. writer' \in [Session -> Writer]
    BY <1>w DEF TypeOK
  <2>3. ASSUME NEW t \in Session
        PROVE  /\ writer'[t].writing \in writer'[t].todo \cup {None}
               /\ (~ Writing(t) => writer[t].todo = {})'
               /\ Handing(t)'
    <3>1. CASE t = s
      BY <1>w, <2>1, <3>1 DEF Writing, Handing
    <3>2. CASE t # s
      BY <2>1, <3>2 DEF TypeOK, Writing, Handing
    <3> QED
      BY <3>1, <3>2
  <2> QED
    BY <2>2, <2>3
<1>1. ASSUME NEW s \in Session, NEW m \in Manifest, Begins(s, m) PROVE TypeInv'
  <2> DEFINE w == Home[s]
  <2>1. w \in Workspace
    BY FileFacts
  <2>2. PICK target \in Manifest \cup {None}, heir \in Heirs[s] \cup {None} :
          (heir # None => target \in Manifest) /\ Begin(s, m, target, heir)
    BY <1>1 DEF Begins
  <2>3. PICK reused \in SUBSET (Holds[m] \cap UNION {Holds[l] : l \in Latest(s)}) :
          writer' = [writer EXCEPT ![s] =
            [manifest |-> m, target |-> target, heir |-> heir,
             writing |-> None, touched |-> {},
             todo |-> {BlobFile(b) : b \in Holds[m] \ reused}
                       \cup {ManifestFile(w, m), LogFile(s), TurnFile(w, m)}
                       \cup {UndoFile(o) : o \in {heir} \ {None}}]]
    BY <2>2 DEF Begin
  <2> DEFINE goods == {BlobFile(b) : b \in Holds[m] \ reused}
                       \cup {ManifestFile(w, m), LogFile(s), TurnFile(w, m)}
                       \cup {UndoFile(o) : o \in {heir} \ {None}}
             new == [manifest |-> m, target |-> target, heir |-> heir,
                     writing |-> None, touched |-> {}, todo |-> goods]
  <2>4. Holds[m] \subseteq Blob /\ Heirs[s] \subseteq Session
    BY HoldsFunction, HeirsAssumption
  <2>5. goods \subseteq Record \cup Content
    BY <2>1, <2>4, FileFacts
  <2>6. \A f \in goods : f.kind = "undo" => heir # None /\ f = UndoFile(heir)
    BY <2>1, <2>4, FileFacts
  <2>7. writer' = [writer EXCEPT ![s] = new]
    BY <2>3
  <2> HIDE DEF goods
  <2>8. new \in Writer /\ new.writing = None /\ new.manifest # None /\ new.todo = goods
          /\ new.heir = heir /\ new.target = target
    BY <2>4, <2>5, NoneAssumption DEF Writer
  <2> HIDE DEF new
  <2>9. /\ writer' \in [Session -> Writer]
        /\ \A t \in Session : writer'[t].writing \in writer'[t].todo \cup {None}
        /\ \A t \in Session : (~ Writing(t) => writer[t].todo = {})'
        /\ \A t \in Session : Handing(t)'
    BY <1>w, <2>2, <2>6, <2>7, <2>8
  <2>10. /\ ops' \in 0 .. MaxOps /\ partitions' = partitions \cup {w}
         /\ UNCHANGED <<disk, log, undo, fresh, damaged, gc, faults>>
    BY <2>2 DEF Begin, TypeOK
  <2> QED
    BY <2>1, <2>9, <2>10 DEF TypeOK
<1>2. ASSUME NEW s \in Session, NEW f \in Record \cup Content, Freshen(s, f) PROVE TypeInv'
  <2>1. f \in File
    BY FileFacts
  <2> DEFINE new == [writer[s] EXCEPT !.todo = @ \ {f}, !.touched = @ \cup {f}]
  <2>2. /\ new \in Writer /\ new.writing = None /\ new.todo \subseteq writer[s].todo
        /\ new.manifest = writer[s].manifest
        /\ new.heir = writer[s].heir /\ new.target = writer[s].target
    <3>1. writer[s] \in Writer /\ writer[s].writing = None
      BY <1>2 DEF TypeOK, Freshen, Due
    <3> QED
      BY <2>1, <3>1 DEF Writer
  <2>3. writer' = [writer EXCEPT ![s] = new]
    BY <1>2 DEF Freshen, TypeOK, Writer
  <2> HIDE DEF new
  <2>4. /\ writer' \in [Session -> Writer]
        /\ \A t \in Session : writer'[t].writing \in writer'[t].todo \cup {None}
        /\ \A t \in Session : (~ Writing(t) => writer[t].todo = {})'
        /\ \A t \in Session : Handing(t)'
    BY <1>w, <2>2, <2>3 DEF Writing, Handing
  <2>6. gc' \in Gc /\ gc'.left = gc.left /\ gc'.at = gc.at
    BY <1>2, <2>1, ShieldingGc DEF Freshen, TypeOK
  <2>7. /\ f \in disk /\ fresh' = fresh \cup {f}
        /\ UNCHANGED <<disk, log, undo, damaged, partitions, ops, faults>>
    BY <1>2 DEF Freshen, Adopts
  <2> QED
    BY <2>4, <2>6, <2>7 DEF TypeOK
<1>3. ASSUME NEW s \in Session, NEW f \in Record \cup Content, WriteTmp(s, f) PROVE TypeInv'
  <2>1. f \in File /\ Tmp(f, s) \in File /\ Tmp(f, s) \in Residue
    BY FileFacts
  <2> DEFINE new == [writer[s] EXCEPT !.writing = f, !.touched = @ \cup {f, Tmp(f, s)}]
  <2>2. /\ new \in Writer /\ new.writing = f /\ f \in new.todo
        /\ new.todo = writer[s].todo
        /\ new.manifest = writer[s].manifest
        /\ new.heir = writer[s].heir /\ new.target = writer[s].target
    <3>1. writer[s] \in Writer /\ f \in writer[s].todo
      BY <1>3 DEF TypeOK, WriteTmp, Due
    <3> QED
      BY <2>1, <3>1 DEF Writer
  <2>3. writer' = [writer EXCEPT ![s] = new]
    BY <1>3 DEF WriteTmp, TypeOK, Writer
  <2> HIDE DEF new
  <2>4. /\ writer' \in [Session -> Writer]
        /\ \A t \in Session : writer'[t].writing \in writer'[t].todo \cup {None}
        /\ \A t \in Session : (~ Writing(t) => writer[t].todo = {})'
        /\ \A t \in Session : Handing(t)'
    BY <1>w, <2>2, <2>3 DEF Writing, Handing
  <2>6. gc' \in Gc /\ gc'.left = gc.left /\ gc'.at = gc.at
    <3>1. gc' = Shielding(gc, {f, Tmp(f, s)}) /\ gc \in Gc
      BY <1>3 DEF WriteTmp, TypeOK
    <3>2. {f, Tmp(f, s)} \in SUBSET File
      BY <2>1
    <3> QED
      BY <3>1, <3>2, ShieldingGc
  <2>7. /\ disk' = disk \cup {Tmp(f, s)} /\ fresh' = fresh \cup {Tmp(f, s)}
        /\ UNCHANGED <<log, undo, damaged, partitions, ops, faults>>
    BY <1>3 DEF WriteTmp
  <2> QED
    BY <2>1, <2>4, <2>6, <2>7 DEF TypeOK
<1>4. ASSUME NEW s \in Session, Rename(s) PROVE TypeInv'
  <2> DEFINE f == writer[s].writing
             left == writer[s].todo \ {f}
             new == IF left = {} THEN NotWriting ELSE [writer[s] EXCEPT !.todo = left, !.writing = None]
  <2>1. /\ f \in Record \cup Content /\ f \in writer[s].todo
        /\ writer[s].manifest \in Manifest
    BY <1>4 DEF Rename, TypeOK, Writer, Writing
  <2>2. f \in File /\ Tmp(f, s) \in File /\ Tmp(f, s) \in Residue /\ f \notin Residue
    BY <2>1, FileFacts
  <2>3. /\ new \in Writer /\ new.writing = None
        /\ new.manifest = None => new.todo = {}
        /\ new.todo \subseteq writer[s].todo
        /\ new.heir # None => new.heir = writer[s].heir /\ new.target = writer[s].target
        /\ new.todo # {} => new.heir = writer[s].heir
    <3>1. writer[s] \in Writer /\ writer[s].manifest # None
      BY <2>1, NoneAssumption DEF TypeOK
    <3>2. CASE left = {}
      BY <3>2 DEF Writer, NotWriting
    <3>3. CASE left # {}
      BY <3>1, <3>3 DEF Writer
    <3> QED
      BY <3>2, <3>3
  <2>4. writer' = [writer EXCEPT ![s] = new]
    BY <1>4 DEF Rename, TypeOK, Writer
  <2>5. log' \in [Session -> Seq(Manifest)]
    <3>1. \A q \in Seq(Manifest) : Append(q, writer[s].manifest) \in Seq(Manifest)
      BY <2>1, AppendProperties
    <3>2. <<>> \in Seq(Manifest)
      BY EmptySeq
    <3> DEFINE old == IF f \in disk THEN log[s] ELSE <<>>
               longer == Append(old, writer[s].manifest)
    <3>3. log' = log \/ log' = [log EXCEPT ![s] = longer]
      BY <1>4 DEF Rename, TypeOK
    <3>4. log[s] \in Seq(Manifest) /\ log \in [Session -> Seq(Manifest)]
      BY DEF TypeOK
    <3>5. longer \in Seq(Manifest)
      BY <3>1, <3>2, <3>4
    <3> HIDE DEF longer
    <3> QED
      BY <3>3, <3>4, <3>5
  <2>6. undo' \in [Session -> SUBSET UndoRecord]
    <3>1. CASE f.kind # "undo"
      BY <1>4, <3>1 DEF Rename, TypeOK
    <3>2. CASE f.kind = "undo"
      <4>1. writer[s].heir # None /\ writer[s].heir \in Heirs[s] /\ writer[s].target \in Manifest
        BY <2>1, <3>2 DEF Handing
      <4>2. writer[s].heir \in Session
        BY <4>1, HeirsAssumption
      <4> DEFINE r == [target |-> writer[s].target, safety |-> writer[s].manifest]
      <4>3. r \in UndoRecord
        BY <2>1, <4>1 DEF UndoRecord
      <4>4. undo' = [undo EXCEPT ![writer[s].heir] = @ \cup {r}]
        BY <1>4, <3>2 DEF Rename
      <4> HIDE DEF r
      <4> QED
        BY <4>2, <4>3, <4>4 DEF TypeOK
    <3> QED
      BY <3>1, <3>2
  <2>7. /\ disk' = (disk \ {Tmp(f, s)}) \cup {f}
        /\ fresh' = (fresh \ {Tmp(f, s)}) \cup ({f} \ {LogFile(s)})
        /\ damaged' = damaged \ {f}
        /\ UNCHANGED <<partitions, ops, faults>>
    BY <1>4 DEF Rename
  <2>8. gc' \in Gc /\ gc'.left = gc.left /\ gc'.at = gc.at
    BY <1>4, <2>2, ShieldingGc DEF Rename, TypeOK
  <2> HIDE DEF new, f, left
  <2>9. /\ writer' \in [Session -> Writer]
        /\ \A t \in Session : writer'[t].writing \in writer'[t].todo \cup {None}
        /\ \A t \in Session : (~ Writing(t) => writer[t].todo = {})'
        /\ \A t \in Session : Handing(t)'
    <3>1. new.heir # None => new.heir \in Heirs[s] /\ new.target \in Manifest
      BY <2>3 DEF Handing
    <3>2. \A g \in new.todo : g.kind = "undo" => new.heir # None /\ g = UndoFile(new.heir)
      BY <2>3 DEF Handing
    <3> QED
      BY <1>w, <2>3, <2>4, <3>1, <3>2
  <2>10. disk' \subseteq File /\ fresh' \subseteq disk' /\ damaged' \subseteq disk' /\ damaged' \cap Residue = {}
    BY <2>2, <2>7 DEF TypeOK
  <2> QED
    BY <2>5, <2>6, <2>7, <2>8, <2>9, <2>10 DEF TypeOK
<1>5. ASSUME NEW s \in Session, Fail(s) \/ Kill(s) PROVE TypeInv'
  <2>1. NotWriting \in Writer /\ NotWriting.todo = {} /\ NotWriting.writing = None /\ NotWriting.heir = None
    BY DEF NotWriting, Writer
  <2>2. writer' = [writer EXCEPT ![s] = NotWriting]
    BY <1>5 DEF Fail, Kill
  <2>3. /\ writer' \in [Session -> Writer]
        /\ \A t \in Session : writer'[t].writing \in writer'[t].todo \cup {None}
        /\ \A t \in Session : (~ Writing(t) => writer[t].todo = {})'
        /\ \A t \in Session : Handing(t)'
    BY <1>w, <2>1, <2>2
  <2>4. faults' \in 0 .. MaxFaults /\ UNCHANGED <<disk, log, undo, fresh, damaged, partitions, gc, ops>>
    BY <1>5 DEF Fail, Kill, TypeOK
  <2> QED
    BY <2>3, <2>4 DEF TypeOK
<1>e. ASSUME NEW s \in Session, Ensure(s) PROVE TypeInv'
  <2> DEFINE o == writer[s].heir
  <2>1. o \in Session
    BY <1>e, HeirsAssumption DEF Ensure, Handing
  <2>2. LogFile(o) \in File
    BY <2>1, FileFacts
  <2>3. log' \in [Session -> Seq(Manifest)]
    BY <1>e, <2>1, EmptySeq DEF Ensure, TypeOK
  <2>4. disk' = disk \cup {LogFile(o)} /\ UNCHANGED <<undo, fresh, damaged, partitions, writer, gc, ops, faults>>
    BY <1>e DEF Ensure
  <2> QED
    BY <1>u, <2>2, <2>3, <2>4 DEF TypeOK
<1>6. ASSUME NEW s \in Session, Delete(s) PROVE TypeInv'
  <2>1. log' \in [Session -> Seq(Manifest)]
    BY <1>6, EmptySeq DEF Delete, TypeOK
  <2>2. undo' \in [Session -> SUBSET UndoRecord]
    BY <1>6 DEF Delete, TypeOK
  <2>3. ops' \in 0 .. MaxOps /\ UNCHANGED <<damaged, partitions, writer, gc, faults>>
    BY <1>6 DEF Delete, TypeOK
  <2>4. /\ disk' = disk \ {LogFile(s), UndoFile(s)} /\ fresh' = fresh \ {LogFile(s), UndoFile(s)}
        /\ LogFile(s) \notin damaged /\ UndoFile(s) \notin damaged
    BY <1>6 DEF Delete
  <2> QED
    BY <1>u, <2>1, <2>2, <2>3, <2>4 DEF TypeOK
<1>7. ASSUME NEW f \in disk, Damage(f) \/ Mend(f) PROVE TypeInv'
  <2>1. f \in Record => f \notin Residue
    BY FileFacts
  <2> QED
    BY <1>u, <1>7, <2>1, FragileAssumption DEF Damage, Mend, TypeOK
<1>8. ASSUME NEW f \in disk, Settle(f) PROVE TypeInv'
  BY <1>u, <1>8 DEF Settle, TypeOK
<1>9. CASE KillGc \/ Finish
  <2>1. NoGc \in Gc /\ NoGc.left = {} /\ NoGc.at = None
    BY DEF NoGc, Gc
  <2>2. faults' \in 0 .. MaxFaults
    BY <1>9 DEF KillGc, Finish, TypeOK
  <2> QED
    BY <1>u, <1>9, <2>1, <2>2 DEF KillGc, Finish, TypeOK
<1>10. CASE Start
  <2> DEFINE shield == UNION {writer[s].touched : s \in Session}
  <2>1. shield \subseteq File
    BY DEF TypeOK, Writer
  <2>2. gc' = [NoGc EXCEPT !.stage = "next", !.left = partitions, !.shield = shield]
    BY <1>10 DEF Start
  <2> HIDE DEF shield
  <2>3. gc' \in Gc /\ gc'.left = partitions /\ gc'.at = None
    BY <2>1, <2>2 DEF NoGc, Gc, TypeOK
  <2> QED
    BY <1>u, <1>10, <2>3 DEF Start, TypeOK
<1>11. ASSUME NEW w \in Workspace, CollectPartition(w) PROVE TypeInv'
  <2> DEFINE names == UNION {Named(s) : s \in Logs(w)}
             stage == IF \E s \in Logs(w) : LogFile(s) \in damaged THEN "residue" ELSE "orphans"
  <2>1. names \subseteq Manifest
    BY NamedAreManifests DEF TypeOK, Logs
  <2>2. gc' = [gc EXCEPT !.at = w, !.left = @ \ {w}, !.stage = stage, !.live = names]
    BY <1>11 DEF CollectPartition
  <2>3. stage \in {"residue", "orphans"} /\ w \in gc.left
    BY <1>11 DEF CollectPartition
  <2> HIDE DEF names, stage
  <2>4. gc' \in Gc /\ gc'.left = gc.left \ {w} /\ gc'.at = w
    BY <2>1, <2>2, <2>3 DEF Gc, TypeOK
  <2> QED
    BY <1>u, <1>11, <2>3, <2>4 DEF CollectPartition, TypeOK
<1>d. CASE DropOrphans
  <2> DEFINE orphans == Orphans(gc.at)
             files == {UndoFile(s) : s \in orphans}
  <2>1. Removing(files) /\ gc' = [gc EXCEPT !.stage = "turns"]
          /\ UNCHANGED <<log, partitions, writer, ops, faults>>
    BY <1>d DEF DropOrphans
  <2>2. undo' = [s \in Session |-> IF s \in orphans THEN {} ELSE undo[s]]
    BY <1>d DEF DropOrphans
  <2> HIDE DEF orphans
  <2>3. undo' \in [Session -> SUBSET UndoRecord]
    BY <2>2 DEF TypeOK
  <2> HIDE DEF files
  <2>4. gc' \in Gc /\ gc'.left = gc.left /\ gc'.at = gc.at
    BY <2>1 DEF Gc, TypeOK
  <2> QED
    BY <1>u, <2>1, <2>3, <2>4, RemovingKeepsShape DEF TypeOK
<1>12. CASE RetainTurns
  <2> DEFINE w == gc.at
             stale == {TurnFile(w, m) : m \in Turns(w) \ gc.live} \ fresh
             kept == {m \in Turns(w) : TurnFile(w, m) \notin stale}
             undoable == UNION {Held(s) : s \in Undos(w)}
             held == {TurnFile(w, m) : m \in kept} \cup {UndoFile(s) : s \in Undos(w)}
             stage == IF held \cap damaged # {} THEN "residue" ELSE "manifests"
  <2>1. kept \subseteq Manifest /\ stage \in {"residue", "manifests"}
    BY DEF Turns
  <2>2. undoable \subseteq Manifest
    BY DEF TypeOK, UndoRecord, Held, Undos
  <2>3. gc' = [gc EXCEPT !.live = @ \cup kept \cup undoable, !.stage = stage]
    BY <1>12 DEF RetainTurns
  <2>4. Removing(stale)
    BY <1>12 DEF RetainTurns
  <2> HIDE DEF stale, kept, stage, undoable
  <2>5. gc' \in Gc /\ gc'.left = gc.left /\ gc'.at = gc.at
    BY <2>1, <2>2, <2>3 DEF Gc, TypeOK
  <2>6. UNCHANGED <<log, undo, partitions, writer, ops, faults>>
    BY <1>12 DEF RetainTurns
  <2> QED
    BY <1>u, <2>4, <2>5, <2>6, RemovingKeepsShape DEF TypeOK
<1>13. CASE SweepManifests \/ SweepResidue
  <2>1. PICK files : Removing(files)
    BY <1>13 DEF SweepManifests, SweepResidue
  <2>2. \E stage \in {"residue", "mark"} : gc' = [gc EXCEPT !.stage = stage]
    BY <1>13 DEF SweepManifests, SweepResidue
  <2>3. gc' \in Gc /\ gc'.left = gc.left /\ gc'.at = gc.at
    BY <2>2 DEF Gc, TypeOK
  <2>4. UNCHANGED <<log, undo, partitions, writer, ops, faults>>
    BY <1>13 DEF SweepManifests, SweepResidue
  <2> QED
    BY <1>u, <2>1, <2>3, <2>4, RemovingKeepsShape DEF TypeOK
<1>14. CASE Mark
  <2> DEFINE read == {m \in Manifests(gc.at) : ManifestFile(gc.at, m) \notin damaged}
             marks == UNION {Holds[m] : m \in read}
             all == read = Manifests(gc.at)
  <2>1. marks \subseteq Blob /\ all \in BOOLEAN
    BY HoldsFunction DEF Manifests
  <2>2. gc' = [gc EXCEPT !.stage = "next", !.at = None, !.live = {},
                 !.marked = @ \cup marks, !.complete = @ /\ all]
    BY <1>14 DEF Mark
  <2> HIDE DEF marks, all
  <2>3. gc' \in Gc /\ gc'.left = gc.left /\ gc'.at = None
    BY <2>1, <2>2 DEF Gc, TypeOK
  <2> QED
    BY <1>u, <1>14, <2>3 DEF Mark, TypeOK
<1>15. CASE ListBlobs
  <2> DEFINE todo == {b \in Blob : BlobFile(b) \in disk}
  <2>1. Removing(SettledResidue(Shared)) /\ UNCHANGED <<log, undo, partitions, writer, ops, faults>>
    BY <1>15 DEF ListBlobs
  <2>2. gc' = [gc EXCEPT !.stage = "blobs", !.todo = todo] \/ gc' = NoGc
    BY <1>15 DEF ListBlobs
  <2>3. todo \subseteq Blob
    OBVIOUS
  <2> HIDE DEF todo
  <2>4. gc' \in Gc /\ gc'.left \subseteq gc.left /\ gc'.at \in {gc.at, None}
    <3>1. NoGc \in Gc /\ NoGc.left = {} /\ NoGc.at = None
      BY DEF NoGc, Gc
    <3>2. CASE gc' = NoGc
      BY <3>1, <3>2
    <3>3. CASE gc' = [gc EXCEPT !.stage = "blobs", !.todo = todo]
      BY <2>3, <3>3 DEF Gc, TypeOK
    <3> QED
      BY <2>2, <3>2, <3>3
  <2> QED
    BY <1>u, <2>1, <2>4, RemovingKeepsShape DEF TypeOK
<1>16. ASSUME NEW b \in Blob, SweepBlob(b) PROVE TypeInv'
  <2>1. PICK files : Removing(files)
    BY <1>16 DEF SweepBlob
  <2>2. gc' = [gc EXCEPT !.todo = @ \ {b}] /\ UNCHANGED <<log, undo, partitions, writer, ops, faults>>
    BY <1>16 DEF SweepBlob
  <2>3. gc' \in Gc /\ gc'.left = gc.left /\ gc'.at = gc.at
    BY <2>2 DEF Gc, TypeOK
  <2> QED
    BY <1>u, <2>1, <2>2, <2>3, RemovingKeepsShape DEF TypeOK
<1>17. writer \in [Session -> Writer]
  BY DEF TypeOK
<1> QED
  BY <1>0, <1>1, <1>2, <1>3, <1>4, <1>5, <1>e, <1>6, <1>7, <1>8, <1>9, <1>10, <1>11, <1>d, <1>12,
     <1>13, <1>14, <1>15, <1>16, <1>17, Steps DEF Collecting

\* The state is always well shaped, whatever is damaged and whoever dies
\* (store.rs, checkpoint_internal; collect.rs, collect_garbage).
THEOREM CollectionTypes == Spec => []TypeOK
<1>1. TypeInv => TypeOK
  BY DEF TypeInv
<1> QED
  BY TypeInit, TypeNext, <1>1, PTL DEF Spec

-----------------------------------------------------------------------------
(* What a step does to files *)

\* Files a sweep may take.
Sweepable(f) == f.tmp # FALSE \/ f.kind \in {"blob", "manifest"}

\* A collection takes settled files only, manifests that its logs and its index
\* do not name, and blobs it has not marked.
LEMMA SweptFiles ==
    ASSUME TypeInv, Collecting
    PROVE  /\ disk' \subseteq disk /\ fresh' \subseteq fresh
           /\ \A f \in disk : f \in fresh => f \in fresh' /\ f \in disk'
           /\ \A f \in disk \ disk' :
                \/ f \in Residue
                \/ f.kind \in {"turn", "undo"}
                \/ /\ gc.stage = "manifests"
                   /\ \E m \in Manifest \ gc.live : f = ManifestFile(gc.at, m)
                \/ /\ gc.stage = "blobs"
                   /\ \E b \in Blob \ gc.marked : f = BlobFile(b)
<1> USE DEF Removing
<1>1. CASE UNCHANGED <<disk, fresh>>
  BY <1>1
<1>2. CASE RetainTurns
  <2>1. gc.at \in Workspace \cup {None}
    BY DEF TypeInv, TypeOK, Gc
  <2>2. \A m : TurnFile(gc.at, m).kind = "turn"
    BY DEF TurnFile, FileOf
  <2> QED
    BY <1>2, <2>2 DEF RetainTurns
<1>d. CASE DropOrphans
  <2>1. \A s \in Session : UndoFile(s).kind = "undo"
    BY FileFacts
  <2>2. Orphans(gc.at) \subseteq Session /\ \A s \in Orphans(gc.at) : UndoFile(s) \notin fresh
    BY DEF Orphans, Undos
  <2> QED
    BY <1>d, <2>1, <2>2 DEF DropOrphans
<1>3. CASE SweepManifests
  BY <1>3 DEF SweepManifests, Manifests
<1>4. CASE SweepResidue
  BY <1>4 DEF SweepResidue, SettledResidue
<1>5. CASE ListBlobs
  BY <1>5 DEF ListBlobs, SettledResidue
<1>6. ASSUME NEW b \in Blob, SweepBlob(b)
      PROVE  /\ disk' \subseteq disk /\ fresh' \subseteq fresh
             /\ \A f \in disk : f \in fresh => f \in fresh' /\ f \in disk'
             /\ \A f \in disk \ disk' :
                  /\ gc.stage = "blobs"
                  /\ \E c \in Blob \ gc.marked : f = BlobFile(c)
  BY <1>6 DEF SweepBlob
<1>7. CASE Start \/ Mark \/ Finish \/ \E w \in Workspace : CollectPartition(w)
  BY <1>1, <1>7 DEF Start, Mark, Finish, CollectPartition
<1> QED
  BY <1>2, <1>d, <1>3, <1>4, <1>5, <1>6, <1>7 DEF Collecting

\* A file goes when it is swept, deleted or renamed.
LEMMA GoneFiles ==
    ASSUME TypeInv, [Next]_vars, NEW f \in disk, f \notin disk'
    PROVE  \/ Collecting /\ f \notin fresh
           \/ \E s \in Session : Delete(s) /\ f \in {LogFile(s), UndoFile(s)}
           \/ \E s \in Session : /\ Rename(s) /\ writer[s].writing # None
                                /\ f = Tmp(writer[s].writing, s)
<1>1. ASSUME NEW s \in Session, NEW m \in Manifest, Begins(s, m) PROVE FALSE
  BY <1>1 DEF Begins, Begin
<1>2. ASSUME NEW s \in Session, NEW g \in Record \cup Content, Freshen(s, g) \/ WriteTmp(s, g) PROVE FALSE
  BY <1>2 DEF Freshen, WriteTmp
<1>3. ASSUME NEW s \in Session, Rename(s)
      PROVE  writer[s].writing # None /\ f = Tmp(writer[s].writing, s)
  BY <1>3 DEF Rename
<1>4. ASSUME NEW s \in Session, Fail(s) \/ Kill(s) PROVE FALSE
  BY <1>4 DEF Fail, Kill
<1>5. ASSUME NEW s \in Session, Delete(s) PROVE f \in {LogFile(s), UndoFile(s)}
  BY <1>5 DEF Delete
<1>e. ASSUME NEW s \in Session, Ensure(s) PROVE FALSE
  BY <1>e DEF Ensure
<1>6. ASSUME NEW g \in disk, Damage(g) \/ Mend(g) \/ Settle(g) PROVE FALSE
  BY <1>6 DEF Damage, Mend, Settle
<1>7. CASE KillGc \/ UNCHANGED vars
  BY <1>7 DEF KillGc, vars
<1>8. CASE Collecting
  BY <1>8, SweptFiles
<1>t. writer \in [Session -> Writer]
  BY DEF TypeInv, TypeOK
<1> QED
  BY <1>t, <1>1, <1>2, <1>3, <1>4, <1>5, <1>e, <1>6, <1>7, <1>8, Steps

\* A file a sweep may take that is not young was there and not young before, or has settled.
LEMMA AgedFiles ==
    ASSUME TypeInv, [Next]_vars, NEW f \in disk', f \notin fresh', Sweepable(f)
    PROVE  f \in disk /\ (f \notin fresh \/ Settle(f))
<1>k. \A s \in Session : f # LogFile(s)
  BY FileFacts DEF Sweepable
<1>1. ASSUME NEW s \in Session, NEW m \in Manifest, Begins(s, m) PROVE f \in disk /\ f \notin fresh
  BY <1>1 DEF Begins, Begin
<1>2. ASSUME NEW s \in Session, NEW g \in Record \cup Content, Freshen(s, g) \/ WriteTmp(s, g)
      PROVE  f \in disk /\ f \notin fresh
  BY <1>2 DEF Freshen, WriteTmp
<1>3. ASSUME NEW s \in Session, Rename(s) PROVE f \in disk /\ f \notin fresh
  BY <1>k, <1>3 DEF Rename
<1>4. ASSUME NEW s \in Session, Fail(s) \/ Kill(s) PROVE f \in disk /\ f \notin fresh
  BY <1>4 DEF Fail, Kill
<1>5. ASSUME NEW s \in Session, Delete(s) PROVE f \in disk /\ f \notin fresh
  BY <1>5 DEF Delete
<1>e. ASSUME NEW s \in Session, Ensure(s) PROVE f \in disk /\ f \notin fresh
  <2>1. writer[s].heir \in Session
    BY <1>e DEF Ensure, TypeInv, TypeOK, Writer
  <2> QED
    BY <1>k, <1>e, <2>1 DEF Ensure
<1>6. ASSUME NEW g \in disk, Damage(g) \/ Mend(g) PROVE f \in disk /\ f \notin fresh
  BY <1>6 DEF Damage, Mend
<1>7. ASSUME NEW g \in disk, Settle(g) PROVE f \in disk /\ (f \notin fresh \/ Settle(f))
  BY <1>7 DEF Settle
<1>8. CASE KillGc \/ UNCHANGED vars
  BY <1>8 DEF KillGc, vars
<1>9. CASE Collecting
  BY <1>9, SweptFiles
<1>t. writer \in [Session -> Writer]
  BY DEF TypeInv, TypeOK
<1> QED
  BY <1>t, <1>1, <1>2, <1>3, <1>4, <1>5, <1>e, <1>6, <1>7, <1>8, <1>9, Steps

-----------------------------------------------------------------------------
(* What a step does to captures *)

\* Each step leaves a capture alone, is one of its own, or ends it.
LEMMA WriterStep ==
    ASSUME TypeInv, [Next]_vars, NEW s \in Session
    PROVE  \/ writer'[s] = writer[s]
           \/ \E m \in Manifest : Begins(s, m)
           \/ \E f \in Record \cup Content : Freshen(s, f) \/ WriteTmp(s, f)
           \/ Rename(s)
           \/ writer'[s] = NotWriting
<1>1. writer \in [Session -> Writer]
  BY DEF TypeInv, TypeOK
<1>2. ASSUME NEW t \in Session, NEW m \in Manifest, Begins(t, m), t # s PROVE writer'[s] = writer[s]
  BY <1>1, <1>2 DEF Begins, Begin
<1>3. ASSUME NEW t \in Session, NEW f \in Record \cup Content, Freshen(t, f) \/ WriteTmp(t, f), t # s
      PROVE  writer'[s] = writer[s]
  BY <1>1, <1>3 DEF Freshen, WriteTmp
<1>4. ASSUME NEW t \in Session, Rename(t), t # s PROVE writer'[s] = writer[s]
  BY <1>1, <1>4 DEF Rename
<1>5. ASSUME NEW t \in Session, Fail(t) \/ Kill(t) PROVE writer'[s] \in {writer[s], NotWriting}
  BY <1>1, <1>5 DEF Fail, Kill
<1>6. ASSUME NEW t \in Session, Delete(t) \/ Ensure(t) PROVE writer'[s] = writer[s]
  BY <1>6 DEF Delete, Ensure
<1>7. ASSUME NEW g \in disk, Damage(g) \/ Mend(g) \/ Settle(g) PROVE writer'[s] = writer[s]
  BY <1>7 DEF Damage, Mend, Settle
<1>8. CASE KillGc \/ UNCHANGED vars
  BY <1>8 DEF KillGc, vars
<1>9. CASE Collecting
  BY <1>9 DEF Collecting, Start, CollectPartition, DropOrphans, RetainTurns, SweepManifests, SweepResidue, Mark,
              ListBlobs, SweepBlob, Finish
<1> QED
  BY <1>1, <1>2, <1>3, <1>4, <1>5, <1>6, <1>7, <1>8, <1>9, Steps

\* What a capture has newly touched is young, or no sweep may take it.
LEMMA NewlyTouched ==
    ASSUME TypeInv, [Next]_vars, NEW s \in Session, NEW f \in writer'[s].touched,
           f \notin writer[s].touched, f \in disk', Sweepable(f)
    PROVE  f \in fresh'
<1>1. writer \in [Session -> Writer]
  BY DEF TypeInv, TypeOK
<1>2. CASE writer'[s] = NotWriting
  BY <1>2 DEF NotWriting
<1>3. ASSUME NEW m \in Manifest, Begins(s, m) PROVE FALSE
  <2>1. writer'[s].touched = {}
    BY <1>1, <1>3 DEF Begins, Begin
  <2> QED
    BY <2>1
<1>4. ASSUME NEW g \in Record \cup Content, Freshen(s, g) PROVE f \in fresh'
  <2>1. writer'[s].touched = writer[s].touched \cup {g}
    BY <1>1, <1>4 DEF Freshen, Writer
  <2> QED
    BY <1>4, <2>1 DEF Freshen
<1>5. ASSUME NEW g \in Record \cup Content, WriteTmp(s, g) PROVE f \in fresh'
  <2>1. writer'[s].touched = writer[s].touched \cup {g, Tmp(g, s)}
    BY <1>1, <1>5 DEF WriteTmp, Writer
  <2>2. CASE f = Tmp(g, s)
    BY <1>5, <2>2 DEF WriteTmp
  <2>3. CASE f = g
    <3>1. g.tmp = FALSE
      BY FileFacts
    <3>2. g \notin disk
      BY <1>5, <2>3, <3>1 DEF WriteTmp, Adopts, Sweepable
    <3>3. g = Tmp(g, s)
      BY <1>5, <2>3, <3>2 DEF WriteTmp
    <3> QED
      BY <2>2, <2>3, <3>3
  <2> QED
    BY <2>1, <2>2, <2>3
<1>6. CASE Rename(s)
  <2>1. writer'[s] = NotWriting \/ writer'[s].touched = writer[s].touched
    BY <1>1, <1>6 DEF Rename, Writer
  <2> QED
    BY <1>2, <2>1
<1> QED
  BY <1>2, <1>3, <1>4, <1>5, <1>6, WriterStep

-----------------------------------------------------------------------------
(* What is young *)

\* What a capture has put in place, or found there, it keeps young; and so does
\* a collection what it shields, which is all that.
TouchedIsYoung ==
    \A s \in Session : \A f \in writer[s].touched : f \in disk /\ Sweepable(f) => f \in fresh

ShieldIsYoung ==
    gc.stage # "idle" =>
      /\ \A s \in Session : writer[s].touched \subseteq gc.shield
      /\ \A f \in gc.shield : f \in disk /\ Sweepable(f) => f \in fresh

YoungInv == TouchedIsYoung /\ ShieldIsYoung

\* It holds at first: nothing is touched or shielded.
LEMMA YoungInit == Init => YoungInv
BY DEF Init, YoungInv, TouchedIsYoung, ShieldIsYoung, NoGc, NotWriting

\* What is touched stays young: only what nobody has in hand settles.
LEMMA TouchedStaysYoung == TypeInv /\ TouchedIsYoung /\ [Next]_vars => TouchedIsYoung'
<1> SUFFICES ASSUME TypeInv, TouchedIsYoung, [Next]_vars,
                    NEW s \in Session, NEW f \in writer'[s].touched, f \in disk', Sweepable(f)
             PROVE  f \in fresh'
  BY DEF TouchedIsYoung, Sweepable
<1>1. CASE f \notin writer[s].touched
  BY <1>1, NewlyTouched
<1>2. CASE f \in writer[s].touched
  <2> SUFFICES ASSUME f \notin fresh' PROVE FALSE
    OBVIOUS
  <2>1. f \in disk /\ (f \notin fresh \/ Settle(f))
    BY AgedFiles DEF Sweepable
  <2> QED
    BY <1>2, <2>1 DEF TouchedIsYoung, Settle
<1> QED
  BY <1>1, <1>2

\* Outside its own steps a collection is left alone, shields more, or ends.
LEMMA GcStep ==
    ASSUME TypeInv, [Next]_vars
    PROVE  \/ Collecting
           \/ gc' = gc
           \/ gc' = NoGc
           \/ \E s \in Session :
                \/ \E f \in Record \cup Content :
                     \/ Freshen(s, f) /\ gc' = Shielding(gc, {f})
                     \/ WriteTmp(s, f) /\ gc' = Shielding(gc, {f, Tmp(f, s)})
                \/ /\ Rename(s) /\ writer[s].writing # None
                   /\ gc' = Shielding(gc, {writer[s].writing})
<1>1. ASSUME NEW s \in Session, NEW m \in Manifest, Begins(s, m) PROVE gc' = gc
  BY <1>1 DEF Begins, Begin
<1>2. ASSUME NEW s \in Session, NEW f \in Record \cup Content, Freshen(s, f) PROVE gc' = Shielding(gc, {f})
  BY <1>2 DEF Freshen
<1>3. ASSUME NEW s \in Session, NEW f \in Record \cup Content, WriteTmp(s, f)
      PROVE  gc' = Shielding(gc, {f, Tmp(f, s)})
  BY <1>3 DEF WriteTmp
<1>4. ASSUME NEW s \in Session, Rename(s)
      PROVE  writer[s].writing # None /\ gc' = Shielding(gc, {writer[s].writing})
  BY <1>4 DEF Rename
<1>5. ASSUME NEW s \in Session, Fail(s) \/ Kill(s) \/ Delete(s) \/ Ensure(s) PROVE gc' = gc
  BY <1>5 DEF Fail, Kill, Delete, Ensure
<1>6. ASSUME NEW g \in disk, Damage(g) \/ Mend(g) \/ Settle(g) PROVE gc' = gc
  BY <1>6 DEF Damage, Mend, Settle
<1>7. CASE KillGc \/ UNCHANGED vars
  BY <1>7 DEF KillGc, vars
<1>t. writer \in [Session -> Writer]
  BY DEF TypeInv, TypeOK
<1> QED
  BY <1>t, <1>1, <1>2, <1>3, <1>4, <1>5, <1>6, <1>7, Steps

\* A step of a collection shields what is being written when it starts, and
\* changes nothing it shields otherwise.
LEMMA CollectingShield ==
    ASSUME TypeInv, Collecting
    PROVE  \/ gc' = NoGc
           \/ /\ gc.stage = "idle"
              /\ gc'.shield = UNION {writer[s].touched : s \in Session}
           \/ gc.stage # "idle" /\ gc'.shield = gc.shield
<1>1. gc \in Gc
  BY DEF TypeInv, TypeOK
<1>2. CASE Start
  BY <1>2 DEF Start, NoGc
<1>3. ASSUME NEW w \in Workspace, CollectPartition(w) PROVE gc.stage # "idle" /\ gc'.shield = gc.shield
  BY <1>1, <1>3 DEF CollectPartition, Gc
<1>4. CASE DropOrphans \/ RetainTurns
  BY <1>1, <1>4 DEF DropOrphans, RetainTurns, Gc
<1>5. CASE SweepManifests \/ SweepResidue
  BY <1>1, <1>5 DEF SweepManifests, SweepResidue, Gc
<1>6. CASE Mark
  BY <1>1, <1>6 DEF Mark, Gc
<1>7. CASE ListBlobs
  BY <1>1, <1>7 DEF ListBlobs, Gc
<1>8. ASSUME NEW b \in Blob, SweepBlob(b) PROVE gc.stage # "idle" /\ gc'.shield = gc.shield
  BY <1>1, <1>8 DEF SweepBlob, Gc
<1>9. CASE Finish
  BY <1>9 DEF Finish
<1> QED
  BY <1>2, <1>3, <1>4, <1>5, <1>6, <1>7, <1>8, <1>9 DEF Collecting

\* A collection under way keeps what it shields, and shields all that is touched.
LEMMA ShieldStep ==
    ASSUME TypeInv, ShieldIsYoung, [Next]_vars, gc'.stage # "idle"
    PROVE  /\ \A s \in Session : writer'[s].touched \subseteq gc'.shield
           /\ gc.stage # "idle" => gc.shield \subseteq gc'.shield
           /\ \A f \in gc'.shield :
                \/ gc.stage # "idle" /\ f \in gc.shield
                \/ \E s \in Session : f \in writer[s].touched
                \/ f \in disk' /\ Sweepable(f) => f \in fresh'
<1> DEFINE Goal ==
      /\ \A s \in Session : writer'[s].touched \subseteq gc'.shield
      /\ gc.stage # "idle" => gc.shield \subseteq gc'.shield
      /\ \A f \in gc'.shield :
           \/ gc.stage # "idle" /\ f \in gc.shield
           \/ \E s \in Session : f \in writer[s].touched
           \/ f \in disk' /\ Sweepable(f) => f \in fresh'
<1> SUFFICES Goal
  OBVIOUS
<1>1. gc \in Gc /\ writer \in [Session -> Writer]
  BY DEF TypeInv, TypeOK
<1>2. gc' # NoGc
  BY DEF NoGc
<1>3. CASE Collecting
  <2>1. writer' = writer
    BY <1>3 DEF Collecting, Start, CollectPartition, DropOrphans, RetainTurns, SweepManifests, SweepResidue, Mark,
                ListBlobs, SweepBlob, Finish
  <2>2. CASE gc.stage = "idle" /\ gc'.shield = UNION {writer[s].touched : s \in Session}
    BY <2>1, <2>2
  <2>3. CASE gc.stage # "idle" /\ gc'.shield = gc.shield
    BY <2>1, <2>3 DEF ShieldIsYoung
  <2> QED
    BY <1>2, <1>3, <2>2, <2>3, CollectingShield
<1>4. ASSUME NEW s \in Session, NEW f \in Record \cup Content, Freshen(s, f) PROVE Goal
  <2>1. gc' = Shielding(gc, {f}) /\ f \in fresh'
    BY <1>4 DEF Freshen
  <2>2. gc.stage # "idle" /\ gc'.shield = gc.shield \cup {f}
    BY <1>1, <2>1, FileFacts, ShieldingGc
  <2>3. \A t \in Session : writer'[t].touched \subseteq writer[t].touched \cup {f}
    BY <1>1, <1>4 DEF Freshen, Writer
  <2> QED
    BY <2>1, <2>2, <2>3 DEF ShieldIsYoung
<1>5. ASSUME NEW s \in Session, NEW f \in Record \cup Content, WriteTmp(s, f) PROVE Goal
  <2> DEFINE files == {f, Tmp(f, s)}
  <2>1. gc' = Shielding(gc, files)
    BY <1>5 DEF WriteTmp
  <2>2. files \in SUBSET File /\ f.tmp = FALSE
    BY FileFacts
  <2>3. gc.stage # "idle" /\ gc'.shield = gc.shield \cup files
    BY <1>1, <2>1, <2>2, ShieldingGc
  <2>4. \A t \in Session : writer'[t].touched \subseteq writer[t].touched \cup files
    BY <1>1, <1>5 DEF WriteTmp, Writer
  <2>5. \A g \in files : g \in disk' /\ Sweepable(g) => g \in fresh'
    BY <1>5, <2>2 DEF WriteTmp, Adopts, Sweepable
  <2> HIDE DEF files
  <2> QED
    BY <2>3, <2>4, <2>5 DEF ShieldIsYoung
<1>6. ASSUME NEW s \in Session, Rename(s) PROVE Goal
  <2> DEFINE f == writer[s].writing
  <2>1. f # None /\ gc' = Shielding(gc, {f}) /\ (f # LogFile(s) => f \in fresh')
    BY <1>6 DEF Rename
  <2>2. f \in File /\ (Sweepable(f) => f # LogFile(s))
    BY <1>1, <2>1, FileFacts DEF Writer, Sweepable
  <2>3. gc.stage # "idle" /\ gc'.shield = gc.shield \cup {f}
    BY <1>1, <2>1, <2>2, ShieldingGc
  <2>4. \A t \in Session : writer'[t].touched \subseteq writer[t].touched
    BY <1>1, <1>6 DEF Rename, Writer, NotWriting
  <2> HIDE DEF f
  <2> QED
    BY <2>1, <2>2, <2>3, <2>4 DEF ShieldIsYoung
<1>7. CASE gc' = gc /\ ~ \E s \in Session :
             \/ \E f \in Record \cup Content : Freshen(s, f) \/ WriteTmp(s, f)
             \/ Rename(s)
  <2>1. \A s \in Session : writer'[s].touched \subseteq writer[s].touched
    <3> SUFFICES ASSUME NEW s \in Session PROVE writer'[s].touched \subseteq writer[s].touched
      OBVIOUS
    <3>1. ASSUME NEW m \in Manifest, Begins(s, m) PROVE writer'[s].touched = {}
      BY <1>1, <3>1 DEF Begins, Begin
    <3>2. NotWriting.touched = {}
      BY DEF NotWriting
    <3> QED
      BY <1>7, <3>1, <3>2, WriterStep
  <2> QED
    BY <1>7, <2>1 DEF ShieldIsYoung
<1> QED
  BY <1>2, <1>3, <1>4, <1>5, <1>6, <1>7, GcStep

\* Every step keeps it.
LEMMA YoungNext == TypeInv /\ YoungInv /\ [Next]_vars => YoungInv'
<1> SUFFICES ASSUME TypeInv, YoungInv, [Next]_vars PROVE YoungInv'
  OBVIOUS
<1>1. TouchedIsYoung /\ ShieldIsYoung /\ TouchedIsYoung'
  BY TouchedStaysYoung DEF YoungInv
<1>2. ASSUME gc'.stage # "idle", NEW f \in gc'.shield, f \in disk', Sweepable(f), f \notin fresh'
      PROVE  FALSE
  <2>1. f \in disk /\ (f \notin fresh \/ Settle(f))
    BY <1>2, AgedFiles
  <2>2. \/ gc.stage # "idle" /\ f \in gc.shield
        \/ \E s \in Session : f \in writer[s].touched
    BY <1>1, <1>2, ShieldStep
  <2> QED
    BY <1>1, <1>2, <2>1, <2>2 DEF TouchedIsYoung, ShieldIsYoung, Settle
<1>3. gc'.stage # "idle" => \A s \in Session : writer'[s].touched \subseteq gc'.shield
  BY <1>1, ShieldStep
<1> QED
  BY <1>1, <1>2, <1>3 DEF YoungInv, ShieldIsYoung, Sweepable

-----------------------------------------------------------------------------
(* How far a capture has come *)

\* What a capture is there to put in place.
Goods(s) ==
    LET w == Home[s]
        m == writer[s].manifest
    IN {BlobFile(b) : b \in Holds[m]} \cup {ManifestFile(w, m), LogFile(s), TurnFile(w, m)}
         \cup {UndoFile(o) : o \in {writer[s].heir} \ {None}}

Kept(s, f) == f \in writer[s].touched /\ f \in disk

\* What it need not put in place any more is there and kept young, but for blobs
\* that a manifest of the session's log accounts for; and once the log is put in
\* place, it names what was captured.
Progress(s) ==
    LET w == Home[s]
        m == writer[s].manifest
    IN Writing(s) =>
       /\ w \in partitions
       /\ writer[s].todo \subseteq Goods(s)
       /\ LogFile(s) \in writer[s].todo \/ m \in Named(s)
       /\ ManifestFile(w, m) \in writer[s].todo \/ Kept(s, ManifestFile(w, m))
       /\ \A b \in Holds[m] :
            \/ BlobFile(b) \in writer[s].todo
            \/ Kept(s, BlobFile(b))
            \/ \E l \in Named(s) : b \in Holds[l]

\* What it is writing is half-written, and comes before all the rest.
InHand(s) ==
    LET f == writer[s].writing IN
    f # None =>
      /\ f \in writer[s].touched
      /\ Kept(s, Tmp(f, s))
      /\ \A g \in writer[s].todo : Rank(f) <= Rank(g)

WriterInv == \A s \in Session : Progress(s) /\ InHand(s)

\* It holds at first: nobody writes.
LEMMA WriterInit == Init => WriterInv
BY DEF Init, WriterInv, Progress, InHand, Writing, NotWriting

\* What is to be written are goods of a capture under way.
LEMMA Wanted ==
    ASSUME TypeInv, WriterInv, NEW s \in Session, writer[s].writing # None
    PROVE  /\ writer[s].writing \in writer[s].todo
           /\ Writing(s) /\ writer[s].manifest \in Manifest
           /\ writer[s].writing \in Goods(s)
           /\ writer[s].writing \in Record \cup Content
<1>1. writer[s] \in Writer /\ writer[s].writing \in writer[s].todo
  BY DEF TypeInv, TypeOK
<1>2. Writing(s)
  BY <1>1 DEF TypeInv
<1> QED
  BY <1>1, <1>2 DEF WriterInv, Progress, Writing, Writer

\* It is written beside its place.
LEMMA HalfWritten ==
    ASSUME TypeInv, WriterInv, NEW s \in Session, writer[s].writing # None
    PROVE  LET f == Tmp(writer[s].writing, s) IN f \in Residue /\ f.tmp = s /\ f.tmp # FALSE
<1>1. writer[s].writing \in Record \cup Content
  BY Wanted
<1> QED
  BY <1>1, FileFacts

\* Only its own session's capture brings a log file into being.
LEMMA OwnLog ==
    ASSUME TypeInv, WriterInv, NEW s \in Session, NEW t \in Session,
           writer[t].writing = LogFile(s)
    PROVE  t = s
<1>1. LogFile(s) \in Record /\ LogFile(s).kind = "log" /\ LogFile(s) # None
  BY FileFacts, NoneAssumption
<1>2. LogFile(s) \in Goods(t) /\ writer[t].manifest \in Manifest
  BY <1>1, Wanted
<1>3. /\ Holds[writer[t].manifest] \subseteq Blob /\ Home[t] \in Workspace
      /\ {writer[t].heir} \ {None} \subseteq Session
  BY <1>2, HoldsFunction, FileFacts DEF TypeInv, TypeOK, Writer
<1>4. LogFile(s) = LogFile(t)
  BY <1>1, <1>2, <1>3, FileFacts DEF Goods
<1> QED
  BY <1>4, NamesAreDistinct

\* The rename of a log, as against that of another file.
RenameLog(s) == Rename(s) /\ writer[s].writing = LogFile(s)

\* An empty log for who is handed a workspace and has none.
EnsureLog(s) ==
    /\ \E t \in Session : Ensure(t) /\ writer[t].heir = s
    /\ LogFile(s) \notin disk /\ log'[s] = <<>>

\* A log comes with its capture or a workspace handed over, goes with its session,
\* and else stays.
LEMMA LogStep ==
    ASSUME TypeInv, WriterInv, [Next]_vars, NEW s \in Session
    PROVE  \/ RenameLog(s)
           \/ Delete(s) /\ LogFile(s) \notin disk'
           \/ EnsureLog(s)
           \/ log'[s] = log[s] /\ (LogFile(s) \in disk' <=> LogFile(s) \in disk)
<1> SUFFICES ASSUME ~ RenameLog(s), ~ (Delete(s) /\ LogFile(s) \notin disk'), ~ EnsureLog(s)
             PROVE  log'[s] = log[s] /\ (LogFile(s) \in disk' <=> LogFile(s) \in disk)
  OBVIOUS
<1>1. log \in [Session -> Seq(Manifest)] /\ writer \in [Session -> Writer]
  BY DEF TypeInv, TypeOK
<1>2. LogFile(s) \in Record /\ LogFile(s).kind = "log" /\ LogFile(s).tmp = FALSE /\ LogFile(s) \notin Residue
  BY FileFacts
<1>3. ASSUME NEW t \in Session, NEW m \in Manifest, Begins(t, m) PROVE log' = log /\ disk' = disk
  BY <1>3 DEF Begins, Begin
<1>4. ASSUME NEW t \in Session, NEW f \in Record \cup Content, Freshen(t, f) PROVE log' = log /\ disk' = disk
  BY <1>4 DEF Freshen
<1>5. ASSUME NEW t \in Session, NEW f \in Record \cup Content, WriteTmp(t, f)
      PROVE  log' = log /\ disk' = disk \cup {Tmp(f, t)} /\ Tmp(f, t) # LogFile(s)
  BY <1>2, <1>5, FileFacts DEF WriteTmp
<1>6. ASSUME NEW t \in Session, Rename(t)
      PROVE  log'[s] = log[s] /\ (LogFile(s) \in disk' <=> LogFile(s) \in disk)
  <2> DEFINE f == writer[t].writing
  <2>1. f # None /\ disk' = (disk \ {Tmp(f, t)}) \cup {f}
    BY <1>6 DEF Rename
  <2>2. Tmp(f, t) # LogFile(s)
    BY <1>2, <2>1, Wanted, FileFacts
  <2>3. f # LogFile(s)
    BY <1>6, OwnLog DEF RenameLog
  <2>4. t = s => log' = log
    BY <1>6, <2>3 DEF Rename
  <2>5. t # s => log'[s] = log[s]
    BY <1>1, <1>6 DEF Rename
  <2> HIDE DEF f
  <2> QED
    BY <2>1, <2>2, <2>3, <2>4, <2>5
<1>7. ASSUME NEW t \in Session, Fail(t) \/ Kill(t) PROVE log' = log /\ disk' = disk
  BY <1>7 DEF Fail, Kill
<1>8. ASSUME NEW t \in Session, Delete(t)
      PROVE  log'[s] = log[s] /\ (LogFile(s) \in disk' <=> LogFile(s) \in disk)
  <2>1. t # s
    BY <1>8 DEF Delete
  <2>2. LogFile(t) # LogFile(s) /\ UndoFile(t) # LogFile(s)
    BY <1>2, <2>1, NamesAreDistinct, FileFacts
  <2>3. log' = [log EXCEPT ![t] = <<>>] /\ disk' = disk \ {LogFile(t), UndoFile(t)}
    BY <1>8 DEF Delete
  <2> QED
    BY <1>1, <2>1, <2>2, <2>3
<1>e. ASSUME NEW t \in Session, Ensure(t)
      PROVE  log'[s] = log[s] /\ (LogFile(s) \in disk' <=> LogFile(s) \in disk)
  <2> DEFINE o == writer[t].heir
  <2>1. o \in Session
    BY <1>1, <1>e DEF Ensure, Writer
  <2>2. LogFile(o) \notin disk /\ log' = [log EXCEPT ![o] = <<>>] /\ disk' = disk \cup {LogFile(o)}
    BY <1>e DEF Ensure
  <2>3. o # s
    BY <1>1, <1>e, <2>2 DEF EnsureLog
  <2>4. LogFile(o) # LogFile(s)
    BY <2>1, <2>3, NamesAreDistinct
  <2> HIDE DEF o
  <2> QED
    BY <1>1, <2>2, <2>3, <2>4
<1>9. ASSUME NEW g \in disk, Damage(g) \/ Mend(g) \/ Settle(g) PROVE log' = log /\ disk' = disk
  BY <1>9 DEF Damage, Mend, Settle
<1>10. CASE KillGc \/ UNCHANGED vars
  BY <1>10 DEF KillGc, vars
<1>11. CASE Collecting
  <2>1. log' = log
    BY <1>11 DEF Collecting, Start, CollectPartition, DropOrphans, RetainTurns, SweepManifests, SweepResidue, Mark,
                 ListBlobs, SweepBlob, Finish
  <2>2. \A w, m : ManifestFile(w, m).kind = "manifest"
    BY DEF ManifestFile, FileOf
  <2>3. \A b \in Blob : BlobFile(b).kind = "blob"
    BY FileFacts
  <2> QED
    BY <1>2, <1>11, <2>1, <2>2, <2>3, SweptFiles
<1> QED
  BY <1>1, <1>3, <1>4, <1>5, <1>6, <1>7, <1>8, <1>e, <1>9, <1>10, <1>11, Steps

\* The renamed log names what it named and what was captured.
LEMMA RenamedLog ==
    ASSUME TypeInv, WriterInv, NEW s \in Session, RenameLog(s)
    PROVE  Named(s)' = Named(s) \cup {writer[s].manifest}
<1> DEFINE m == writer[s].manifest
           old == IF LogFile(s) \in disk THEN log[s] ELSE <<>>
<1>1. log \in [Session -> Seq(Manifest)] /\ LogFile(s) # None
  BY FileFacts, NoneAssumption DEF TypeInv, TypeOK
<1>2. m \in Manifest
  BY <1>1, Wanted DEF RenameLog
<1>3. old \in Seq(Manifest)
  BY <1>1, EmptySeq
<1>4. log'[s] = Append(old, m)
  BY <1>1 DEF RenameLog, Rename
<1>5. LogFile(s) \in disk'
  BY DEF RenameLog, Rename
<1>6. Named(s) = {old[i] : i \in DOMAIN old}
  <2>1. DOMAIN <<>> = {}
    OBVIOUS
  <2> QED
    BY <2>1 DEF Named
<1>7. Named(s)' = {Append(old, m)[i] : i \in DOMAIN Append(old, m)}
  BY <1>4, <1>5 DEF Named, LogFile
<1> HIDE DEF old
<1>8. DOMAIN Append(old, m) = DOMAIN old \cup {Len(old) + 1} /\ DOMAIN old = 1 .. Len(old) /\ Len(old) \in Nat
  BY <1>2, <1>3, LenProperties, AppendProperties
<1>9. Append(old, m)[Len(old) + 1] = m /\ \A i \in DOMAIN old : Append(old, m)[i] = old[i]
  BY <1>2, <1>3, <1>8, AppendProperties
<1> HIDE DEF m
<1>10. \A x \in Named(s)' : x \in Named(s) \cup {m}
  BY <1>6, <1>7, <1>8, <1>9
<1>11. \A x \in Named(s) \cup {m} : x \in Named(s)'
  BY <1>6, <1>7, <1>8, <1>9
<1> QED
  BY <1>10, <1>11 DEF m

\* What a log names afterwards it named before, or was just captured; and what
\* it named it goes on to name until it is deleted.
LEMMA NamedStep ==
    ASSUME TypeInv, WriterInv, [Next]_vars, NEW s \in Session
    PROVE  /\ \A m \in Named(s)' : m \in Named(s) \/ (RenameLog(s) /\ m = writer[s].manifest)
           /\ Named(s) \subseteq Named(s)' \/ Delete(s)
<1>1. CASE RenameLog(s)
  BY <1>1, RenamedLog
<1>2. CASE Delete(s) /\ LogFile(s) \notin disk'
  <2>1. Named(s)' = {}
    BY <1>2 DEF Named, LogFile
  <2> QED
    BY <1>2, <2>1
<1>e. CASE EnsureLog(s)
  <2>1. Named(s) = {}
    BY <1>e DEF EnsureLog, Named
  <2>2. DOMAIN <<>> = {}
    OBVIOUS
  <2>3. Named(s)' = {}
    BY <1>e, <2>2 DEF EnsureLog, Named, LogFile
  <2> QED
    BY <2>1, <2>3
<1>3. CASE log'[s] = log[s] /\ (LogFile(s) \in disk' <=> LogFile(s) \in disk)
  <2>1. Named(s)' = Named(s)
    BY <1>3 DEF Named, LogFile
  <2> QED
    BY <2>1
<1> QED
  BY <1>1, <1>2, <1>e, <1>3, LogStep

\* What a capture keeps stays while it goes on.
LEMMA KeptStep ==
    ASSUME TypeInv, WriterInv, YoungInv, [Next]_vars, NEW s \in Session, NEW f \in Record \cup Content,
           Kept(s, f), f.kind \in {"blob", "manifest"}, f \in writer'[s].touched
    PROVE  Kept(s, f)'
<1>1. f.tmp = FALSE /\ Sweepable(f) /\ f \in disk
  BY FileFacts DEF Sweepable, Kept
<1>2. f \in fresh
  BY <1>1 DEF YoungInv, TouchedIsYoung, Kept
<1>3. ASSUME NEW t \in Session PROVE f \notin {LogFile(t), UndoFile(t)}
  BY FileFacts
<1>4. ASSUME NEW t \in Session, writer[t].writing # None PROVE f # Tmp(writer[t].writing, t)
  BY <1>1, <1>4, HalfWritten
<1>5. f \in disk'
  BY <1>1, <1>2, <1>3, <1>4, GoneFiles
<1> QED
  BY <1>5 DEF Kept

\* A half-written file stays until it is renamed.
LEMMA TmpStep ==
    ASSUME TypeInv, WriterInv, YoungInv, [Next]_vars, NEW s \in Session, writer[s].writing # None, ~ Rename(s)
    PROVE  Tmp(writer[s].writing, s) \in disk'
<1> DEFINE f == Tmp(writer[s].writing, s)
<1>1. f \in Residue /\ f.tmp = s /\ f.tmp # FALSE
  BY HalfWritten
<1>2. f \in writer[s].touched /\ f \in disk
  BY DEF WriterInv, InHand, Kept
<1>3. Sweepable(f)
  BY <1>1 DEF Sweepable
<1>4. f \in fresh
  BY <1>2, <1>3 DEF YoungInv, TouchedIsYoung
<1>5. ASSUME NEW t \in Session PROVE f \notin {LogFile(t), UndoFile(t)}
  <2>1. LogFile(t).tmp = FALSE /\ UndoFile(t).tmp = FALSE
    BY FileFacts
  <2> HIDE DEF f
  <2> QED
    BY <1>1, <2>1
<1>6. ASSUME NEW t \in Session, Rename(t), writer[t].writing # None PROVE f # Tmp(writer[t].writing, t)
  BY <1>1, <1>6, HalfWritten
<1> HIDE DEF f
<1>7. f \in disk'
  BY <1>2, <1>4, <1>5, <1>6, GoneFiles
<1> QED
  BY <1>7 DEF f

\* Directories of workspaces stay.
LEMMA PartitionsStay ==
    ASSUME TypeInv, [Next]_vars PROVE partitions \subseteq partitions'
<1>1. writer \in [Session -> Writer]
  BY DEF TypeInv, TypeOK
<1>2. ASSUME NEW s \in Session, NEW m \in Manifest, Begins(s, m) PROVE partitions \subseteq partitions'
  BY <1>2 DEF Begins, Begin
<1>3. ASSUME NEW s \in Session,
             \/ \E f \in Record \cup Content : Freshen(s, f) \/ WriteTmp(s, f)
             \/ Ensure(s) \/ Rename(s) \/ Fail(s) \/ Delete(s) \/ Kill(s)
      PROVE  partitions' = partitions
  BY <1>3 DEF Freshen, WriteTmp, Ensure, Rename, Fail, Delete, Kill
<1>4. CASE \/ \E f \in disk : Damage(f) \/ Mend(f) \/ Settle(f)
           \/ KillGc \/ UNCHANGED vars
  BY <1>4 DEF Damage, Mend, Settle, KillGc, vars
<1>5. CASE Collecting
  BY <1>5 DEF Collecting, Start, CollectPartition, DropOrphans, RetainTurns, SweepManifests, SweepResidue,
              Mark, ListBlobs, SweepBlob, Finish
<1> QED
  BY <1>1, <1>2, <1>3, <1>4, <1>5, Steps

\* A capture, as it starts, goes on or stands by, has what it need not do any more.
LEMMA ProgressStep ==
    ASSUME TypeInv, WriterInv, YoungInv, [Next]_vars, NEW s \in Session
    PROVE  Progress(s)'
<1> DEFINE w == Home[s]
           m == writer[s].manifest
           n == writer'[s].manifest
           h == writer'[s].heir
           \* The capture goes on: what is not to do any more is in place.
           Advances ==
             /\ n = m /\ h = writer[s].heir /\ Named(s) \subseteq Named(s)'
             /\ LogFile(s) \in writer[s].todo \ writer'[s].todo => n \in Named(s)'
             /\ writer'[s].todo \subseteq writer[s].todo
             /\ writer[s].touched \subseteq writer'[s].touched
             /\ \A f \in writer[s].todo \ writer'[s].todo : f \in writer'[s].touched /\ f \in disk'
<1> SUFFICES ASSUME n # None
             PROVE  /\ w \in partitions'
                    /\ writer'[s].todo \subseteq
                         {BlobFile(b) : b \in Holds[n]} \cup {ManifestFile(w, n), LogFile(s), TurnFile(w, n)}
                           \cup {UndoFile(o) : o \in {h} \ {None}}
                    /\ LogFile(s) \in writer'[s].todo \/ n \in Named(s)'
                    /\ \/ ManifestFile(w, n) \in writer'[s].todo
                       \/ ManifestFile(w, n) \in writer'[s].touched /\ ManifestFile(w, n) \in disk'
                    /\ \A b \in Holds[n] :
                         \/ BlobFile(b) \in writer'[s].todo
                         \/ BlobFile(b) \in writer'[s].touched /\ BlobFile(b) \in disk'
                         \/ \E l \in Named(s)' : b \in Holds[l]
  BY DEF Progress, Writing, Goods, Kept, LogFile, UndoFile, BlobFile, ManifestFile, TurnFile
<1>1. writer \in [Session -> Writer]
  BY DEF TypeInv, TypeOK
<1>2. \A f \in Record \cup Content :
        Kept(s, f) /\ f.kind \in {"blob", "manifest"} /\ f \in writer'[s].touched => f \in disk'
  BY KeptStep DEF Kept
<1>3. CASE \E k \in Manifest : Begins(s, k)
  <2>1. PICK k \in Manifest : Begins(s, k)
    BY <1>3
  <2>8. PICK target \in Manifest \cup {None}, heir \in Heirs[s] \cup {None} : Begin(s, k, target, heir)
    BY <2>1 DEF Begins
  <2>2. PICK reused \in SUBSET (Holds[k] \cap UNION {Holds[l] : l \in Latest(s)}) :
          writer' = [writer EXCEPT ![s] =
            [manifest |-> k, target |-> target, heir |-> heir,
             writing |-> None, touched |-> {},
             todo |-> {BlobFile(b) : b \in Holds[k] \ reused}
                       \cup {ManifestFile(w, k), LogFile(s), TurnFile(w, k)}
                       \cup {UndoFile(o) : o \in {heir} \ {None}}]]
    BY <2>8 DEF Begin
  <2>3. /\ n = k /\ h = heir
        /\ writer'[s].todo = {BlobFile(b) : b \in Holds[k] \ reused}
                               \cup {ManifestFile(w, k), LogFile(s), TurnFile(w, k)}
                               \cup {UndoFile(o) : o \in {heir} \ {None}}
    BY <1>1, <2>2
  <2>4. w \in partitions' /\ log' = log /\ disk' = disk
    BY <2>1 DEF Begins, Begin
  <2>5. Named(s)' = Named(s)
    BY <2>4 DEF Named, LogFile
  <2>6. Latest(s) \subseteq Named(s)
    <3>1. ASSUME LogFile(s) \in disk, log[s] # <<>> PROVE log[s][Len(log[s])] \in Named(s)
      <4>1. log[s] \in Seq(Manifest)
        BY DEF TypeInv, TypeOK
      <4>2. Len(log[s]) \in DOMAIN log[s]
        BY <3>1, <4>1, EmptySeq, LenProperties
      <4> QED
        BY <3>1, <4>2 DEF Named
    <3> QED
      BY <3>1 DEF Latest
  <2>7. \A b \in Holds[k] : BlobFile(b) \in writer'[s].todo \/ \E l \in Named(s)' : b \in Holds[l]
    BY <2>2, <2>3, <2>5, <2>6
  <2> QED
    BY <2>3, <2>4, <2>7
<1>4. CASE Advances
  <2>1. Writing(s) /\ m \in Manifest
    BY <1>1, <1>4 DEF Writing, Writer
  <2>2. Holds[m] \subseteq Blob /\ w \in Workspace
    BY <2>1, HoldsFunction, FileFacts
  <2>3. /\ w \in partitions
        /\ writer[s].todo \subseteq Goods(s)
        /\ LogFile(s) \in writer[s].todo \/ m \in Named(s)
        /\ ManifestFile(w, m) \in writer[s].todo \/ Kept(s, ManifestFile(w, m))
        /\ \A b \in Holds[m] :
             \/ BlobFile(b) \in writer[s].todo
             \/ Kept(s, BlobFile(b))
             \/ \E l \in Named(s) : b \in Holds[l]
    BY <2>1 DEF WriterInv, Progress
  <2>4. w \in partitions'
    BY <2>3, PartitionsStay
  <2>5. \/ ManifestFile(w, m) \in writer'[s].todo
        \/ ManifestFile(w, m) \in writer'[s].touched /\ ManifestFile(w, m) \in disk'
    BY <1>2, <1>4, <2>1, <2>2, <2>3, FileFacts DEF Kept
  <2>6. ASSUME NEW b \in Holds[m]
        PROVE  \/ BlobFile(b) \in writer'[s].todo
               \/ BlobFile(b) \in writer'[s].touched /\ BlobFile(b) \in disk'
               \/ \E l \in Named(s)' : b \in Holds[l]
    <3>1. BlobFile(b) \in Record \cup Content /\ BlobFile(b).kind = "blob"
      BY <2>2, FileFacts
    <3> QED
      BY <1>2, <1>4, <2>3, <3>1 DEF Kept
  <2>7. writer'[s].todo \subseteq
          {BlobFile(b) : b \in Holds[m]} \cup {ManifestFile(w, m), LogFile(s), TurnFile(w, m)}
            \cup {UndoFile(o) : o \in {h} \ {None}}
    BY <1>4, <2>3 DEF Goods
  <2>8. LogFile(s) \in writer'[s].todo \/ n \in Named(s)'
    BY <1>4, <2>3
  <2> HIDE DEF w, m, n, h
  <2> QED
    BY <1>4, <2>4, <2>5, <2>6, <2>7, <2>8
<1>5. CASE writer'[s] = writer[s]
  <2>1. ~ Delete(s)
    BY <1>5 DEF Delete, Writing
  <2> QED
    BY <1>4, <1>5, <2>1, NamedStep
<1>6. ASSUME NEW f \in Record \cup Content, Freshen(s, f) PROVE Advances
  <2>1. /\ writer'[s].todo = writer[s].todo \ {f}
        /\ writer'[s].touched = writer[s].touched \cup {f}
        /\ n = m /\ h = writer[s].heir
    BY <1>1, <1>6 DEF Freshen, Writer
  <2>2. f \in disk' /\ Named(s)' = Named(s) /\ f.kind \in {"blob", "manifest"}
    BY <1>6 DEF Freshen, Adopts, Named, LogFile
  <2>3. f # LogFile(s)
    BY <2>2, FileFacts
  <2> QED
    BY <2>1, <2>2, <2>3
<1>7. ASSUME NEW f \in Record \cup Content, WriteTmp(s, f) PROVE Advances
  <2>1. /\ writer'[s].todo = writer[s].todo
        /\ writer'[s].touched = writer[s].touched \cup {f, Tmp(f, s)}
        /\ n = m /\ h = writer[s].heir
    BY <1>1, <1>7 DEF WriteTmp, Writer
  <2>2. log' = log /\ disk \subseteq disk'
    BY <1>7 DEF WriteTmp
  <2>3. ~ Delete(s)
    BY <2>2 DEF Delete
  <2> QED
    BY <2>1, <2>3, NamedStep
<1>8. CASE Rename(s)
  <2> DEFINE f == writer[s].writing
  <2>1. /\ writer'[s].todo = writer[s].todo \ {f}
        /\ writer'[s].touched = writer[s].touched
        /\ n = m /\ h = writer[s].heir
    BY <1>1, <1>8 DEF Rename, Writer, NotWriting
  <2>2. f \in disk' /\ f # None
    BY <1>8 DEF Rename
  <2>3. f \in writer[s].touched
    BY <2>2 DEF WriterInv, InHand
  <2>4. ~ Delete(s)
    BY <2>2, Wanted DEF Delete
  <2>5. f = LogFile(s) => m \in Named(s)'
    BY <1>8, RenamedLog DEF RenameLog
  <2> HIDE DEF f
  <2> QED
    BY <1>4, <2>1, <2>2, <2>3, <2>4, <2>5, NamedStep
<1>9. CASE writer'[s] = NotWriting
  BY <1>9 DEF NotWriting
<1> QED
  BY <1>3, <1>4, <1>5, <1>6, <1>7, <1>8, <1>9, WriterStep

\* What a capture is writing stays half-written until it renames it.
LEMMA InHandStep ==
    ASSUME TypeInv, WriterInv, YoungInv, [Next]_vars, NEW s \in Session
    PROVE  InHand(s)'
<1> SUFFICES ASSUME writer'[s].writing # None
             PROVE  /\ writer'[s].writing \in writer'[s].touched
                    /\ Tmp(writer'[s].writing, s) \in writer'[s].touched
                    /\ Tmp(writer'[s].writing, s) \in disk'
                    /\ \A g \in writer'[s].todo : Rank(writer'[s].writing) <= Rank(g)
  BY DEF InHand, Kept, Tmp, Rank
<1>1. writer \in [Session -> Writer]
  BY DEF TypeInv, TypeOK
<1>2. CASE writer'[s] = writer[s]
  <2>1. ~ Rename(s)
    <3>1. ASSUME Rename(s) PROVE writer'[s].writing = None
      BY <1>1, <3>1 DEF Rename, NotWriting, Writer
    <3> QED
      BY <3>1
  <2>2. Tmp(writer[s].writing, s) \in disk'
    BY <1>2, <2>1, TmpStep
  <2> QED
    BY <1>2, <2>2 DEF WriterInv, InHand, Kept
<1>3. ASSUME NEW m \in Manifest, Begins(s, m) PROVE FALSE
  <2>1. writer'[s].writing = None
    BY <1>1, <1>3 DEF Begins, Begin
  <2> QED
    BY <2>1
<1>4. ASSUME NEW f \in Record \cup Content, Freshen(s, f) PROVE FALSE
  <2>1. writer'[s].writing = None
    BY <1>1, <1>4 DEF Freshen, Due, Writer
  <2> QED
    BY <2>1
<1>5. ASSUME NEW f \in Record \cup Content, WriteTmp(s, f)
      PROVE  /\ writer'[s].writing = f
             /\ writer'[s].touched = writer[s].touched \cup {f, Tmp(f, s)}
             /\ writer'[s].todo = writer[s].todo
             /\ Tmp(f, s) \in disk'
             /\ \A g \in writer[s].todo : Rank(f) <= Rank(g)
  BY <1>1, <1>5 DEF WriteTmp, Due, Writer
<1>6. CASE Rename(s)
  <2>1. writer'[s].writing = None
    BY <1>1, <1>6 DEF Rename, NotWriting, Writer
  <2> QED
    BY <2>1
<1>7. CASE writer'[s] = NotWriting
  BY <1>7 DEF NotWriting
<1> QED
  BY <1>2, <1>3, <1>4, <1>5, <1>6, <1>7, WriterStep

\* Every step keeps both.
LEMMA WriterNext == TypeInv /\ YoungInv /\ WriterInv /\ [Next]_vars => WriterInv'
BY ProgressStep, InHandStep DEF WriterInv

\* Whatever collections, faults and other writers come in between, a writer finds
\* what it has half written when it renames it (sweep.rs, sweep_residue).
THEOREM TemporariesAreKept == Spec => []WritersKeepTheirFiles
<1>1. WriterInv => WritersKeepTheirFiles
  BY DEF WriterInv, InHand, Kept, WritersKeepTheirFiles
<1> QED
  BY TypeInit, TypeNext, YoungInit, YoungNext, WriterInit, WriterNext, <1>1, PTL DEF Spec

-----------------------------------------------------------------------------
(* What a collection knows *)

\* A manifest of the session's workspace is there with its content.
There(s, m) ==
    /\ ManifestFile(Home[s], m) \in disk
    /\ \A b \in Holds[m] : BlobFile(b) \in disk

\* It is live, or was written since the collection started.
Live(s, m) == m \in gc.live \/ ManifestFile(Home[s], m) \in gc.shield

\* The workspace of the session is still to be marked.
Ahead(s) ==
    \/ Home[s] \in gc.left
    \/ gc.at = Home[s] /\ gc.stage \in {"orphans", "turns", "manifests", "residue", "mark"}

\* Once it is, what the manifest names is marked or was written since, unless
\* something could not be read.
Marked(s, m) ==
    gc.stage # "idle" /\ gc.complete /\ ~ Ahead(s) =>
      \A b \in Holds[m] : b \in gc.marked \/ BlobFile(b) \in gc.shield

\* Neither the sweep of manifests nor that of blobs takes anything of it.
Safe(s, m) ==
    /\ There(s, m)
    /\ gc.stage = "manifests" /\ gc.at = Home[s] => Live(s, m)
    /\ Marked(s, m)

\* Blobs are swept when no workspace is left and everything was read.
BlobsLast == gc.stage = "blobs" => gc.left = {} /\ gc.complete

\* What a log names is safe, and live once the logs of its workspace are read.
GcInv ==
    /\ BlobsLast
    /\ \A s \in Session : LogFile(s) \in disk => Home[s] \in partitions
    /\ \A s \in Session : \A m \in Named(s) :
         /\ Safe(s, m)
         /\ gc.stage \in {"orphans", "turns"} /\ gc.at = Home[s] => Live(s, m)

\* What an undo would go back to is safe.
UndoInv ==
    /\ \A s \in Session : undo[s] # {} => UndoFile(s) \in disk /\ Home[s] \in partitions
    /\ \A s \in Session : \A r \in undo[s] : Safe(s, r.safety)

\* They hold at first: there are no logs, and no undo records.
LEMMA GcInit == Init => GcInv /\ UndoInv
BY DEF Init, GcInv, UndoInv, BlobsLast, Named, NoGc

\* Content and manifests go when they are swept, and were not young.
LEMMA OnlySweptGo ==
    ASSUME TypeInv, WriterInv, [Next]_vars, NEW f \in Record \cup Content,
           f.kind \in {"blob", "manifest"}, f \in disk, f \notin disk'
    PROVE  Collecting /\ f \notin fresh
<1>1. f.tmp = FALSE
  BY FileFacts
<1>2. ASSUME NEW t \in Session PROVE f \notin {LogFile(t), UndoFile(t)}
  BY FileFacts
<1>3. ASSUME NEW t \in Session, writer[t].writing # None PROVE f # Tmp(writer[t].writing, t)
  BY <1>1, <1>3, HalfWritten
<1> QED
  BY <1>2, <1>3, GoneFiles

\* What is safe stays there.
LEMMA SafeStaysThere ==
    ASSUME TypeInv, YoungInv, WriterInv, BlobsLast, [Next]_vars,
           NEW s \in Session, NEW m \in Manifest, Safe(s, m)
    PROVE  There(s, m)'
<1>1. Holds[m] \subseteq Blob /\ Home[s] \in Workspace
  BY HoldsFunction, FileFacts
<1>2. ManifestFile(Home[s], m) \in disk /\ \A b \in Holds[m] : BlobFile(b) \in disk
  BY DEF Safe, There
<1>3. ManifestFile(Home[s], m) \in disk'
  <2> DEFINE f == ManifestFile(Home[s], m)
  <2> SUFFICES ASSUME f \notin disk' PROVE FALSE
    OBVIOUS
  <2>1. f \in Record /\ f.kind = "manifest" /\ f.tmp = FALSE /\ f \notin Residue
    BY <1>1, FileFacts
  <2>2. Collecting /\ f \notin fresh
    BY <1>2, <2>1, OnlySweptGo
  <2>3. \A b \in Blob : BlobFile(b).kind = "blob"
    BY FileFacts
  <2>4. gc.stage = "manifests" /\ \E n \in Manifest \ gc.live : f = ManifestFile(gc.at, n)
    BY <1>2, <2>1, <2>2, <2>3, SweptFiles
  <2>5. PICK n \in Manifest \ gc.live : f = ManifestFile(gc.at, n)
    BY <2>4
  <2>6. gc.at = Home[s] /\ n = m
    BY <2>5 DEF ManifestFile, FileOf
  <2>7. f \in gc.shield
    BY <2>4, <2>5, <2>6 DEF Safe, Live
  <2> QED
    BY <1>2, <2>1, <2>2, <2>4, <2>7 DEF YoungInv, ShieldIsYoung, Sweepable
<1>4. ASSUME NEW b \in Holds[m] PROVE BlobFile(b) \in disk'
  <2> DEFINE f == BlobFile(b)
  <2> SUFFICES ASSUME f \notin disk' PROVE FALSE
    OBVIOUS
  <2>1. b \in Blob /\ f \in Content /\ f.kind = "blob" /\ f.tmp = FALSE /\ f \notin Residue
    BY <1>1, FileFacts
  <2>2. Collecting /\ f \notin fresh
    BY <1>2, <2>1, OnlySweptGo
  <2>3. \A w, n : ManifestFile(w, n).kind = "manifest"
    BY DEF ManifestFile, FileOf
  <2>4. gc.stage = "blobs" /\ \E c \in Blob \ gc.marked : f = BlobFile(c)
    BY <1>2, <2>1, <2>2, <2>3, SweptFiles
  <2>5. b \notin gc.marked
    BY <2>1, <2>4, NamesAreDistinct
  <2>6. gc.complete /\ ~ Ahead(s)
    BY <2>4 DEF BlobsLast, Ahead
  <2>7. f \in gc.shield
    BY <2>4, <2>5, <2>6 DEF Safe, Marked
  <2> QED
    BY <1>2, <2>1, <2>2, <2>4, <2>7 DEF YoungInv, ShieldIsYoung, Sweepable
<1> QED
  BY <1>3, <1>4 DEF There, ManifestFile, BlobFile

\* Nobody but the collection changes what it knows.
LEMMA OthersShield ==
    ASSUME TypeInv, [Next]_vars, ~ Collecting, gc'.stage # "idle"
    PROVE  /\ gc.stage # "idle"
           /\ gc'.stage = gc.stage /\ gc'.left = gc.left /\ gc'.at = gc.at /\ gc'.complete = gc.complete
           /\ gc.live \subseteq gc'.live /\ gc.marked \subseteq gc'.marked /\ gc.shield \subseteq gc'.shield
<1> DEFINE Goal ==
      /\ gc.stage # "idle"
      /\ gc'.stage = gc.stage /\ gc'.left = gc.left /\ gc'.at = gc.at /\ gc'.complete = gc.complete
      /\ gc.live \subseteq gc'.live /\ gc.marked \subseteq gc'.marked /\ gc.shield \subseteq gc'.shield
<1> SUFFICES Goal
  OBVIOUS
<1>1. gc \in Gc
  BY DEF TypeInv, TypeOK
<1>2. ASSUME NEW files \in SUBSET File, gc' = Shielding(gc, files) PROVE Goal
  BY <1>1, <1>2, ShieldingGc
<1>3. gc' # NoGc
  BY DEF NoGc
<1>4. ASSUME NEW s \in Session, NEW f \in Record \cup Content
      PROVE  {f} \in SUBSET File /\ {f, Tmp(f, s)} \in SUBSET File
  BY FileFacts
<1>5. ASSUME NEW s \in Session, writer[s].writing # None PROVE writer[s].writing \in Record \cup Content
  BY <1>5 DEF TypeInv, TypeOK, Writer
<1>6. CASE gc' = gc
  BY <1>6
<1> HIDE DEF Goal
<1>7. CASE \E s \in Session :
             \/ \E f \in Record \cup Content : gc' = Shielding(gc, {f}) \/ gc' = Shielding(gc, {f, Tmp(f, s)})
             \/ writer[s].writing # None /\ gc' = Shielding(gc, {writer[s].writing})
  BY <1>2, <1>4, <1>5, <1>7
<1> QED
  BY <1>3, <1>6, <1>7, GcStep

\* What a step of the collection comes to: it goes on to the next stage, and
\* forgets what is live only between workspaces.
LEMMA StageStep ==
    ASSUME TypeInv, Collecting, gc'.stage # "idle", gc.stage # "idle"
    PROVE  /\ gc'.complete => gc.complete
           /\ gc.marked \subseteq gc'.marked /\ gc'.shield = gc.shield
           /\ \/ \E w \in Workspace : CollectPartition(w)
              \/ gc'.left = gc.left /\ gc'.at = gc.at /\ gc.live \subseteq gc'.live
                   /\ \/ DropOrphans /\ gc.stage = "orphans" /\ gc'.stage = "turns"
                      \/ RetainTurns /\ gc.stage = "turns" /\ gc'.stage \in {"manifests", "residue"}
                      \/ gc.stage = "manifests" /\ gc'.stage = "residue"
                      \/ gc.stage = "residue" /\ gc'.stage = "mark"
                      \/ gc.stage = "next" /\ gc.left = {} /\ gc'.stage = "blobs" /\ gc'.complete
                      \/ gc.stage = "blobs" /\ gc'.stage = "blobs" /\ gc'.complete = gc.complete
              \/ Mark
<1>1. gc \in Gc
  BY DEF TypeInv, TypeOK
<1>2. gc' # NoGc
  BY DEF NoGc
<1>3. CASE Start
  BY <1>3 DEF Start
<1>4. ASSUME NEW w \in Workspace, CollectPartition(w)
      PROVE  gc'.complete = gc.complete /\ gc'.marked = gc.marked /\ gc'.shield = gc.shield
  BY <1>1, <1>4 DEF CollectPartition, Gc
<1>5. CASE DropOrphans
  BY <1>1, <1>5 DEF DropOrphans, Gc
<1>6. CASE RetainTurns
  BY <1>1, <1>6 DEF RetainTurns, Gc
<1>7. CASE SweepManifests \/ SweepResidue
  BY <1>1, <1>7 DEF SweepManifests, SweepResidue, Gc
<1>8. CASE Mark
  <2>1. (gc'.complete => gc.complete) /\ gc.marked \subseteq gc'.marked /\ gc'.shield = gc.shield
    BY <1>1, <1>8 DEF Mark, Gc
  <2> QED
    BY <1>8, <2>1
<1>9. CASE ListBlobs
  BY <1>1, <1>2, <1>9 DEF ListBlobs, Gc
<1>10. ASSUME NEW b \in Blob, SweepBlob(b)
       PROVE  /\ gc'.left = gc.left /\ gc'.at = gc.at /\ gc'.live = gc.live
              /\ gc'.complete = gc.complete /\ gc'.marked = gc.marked /\ gc'.shield = gc.shield
              /\ gc.stage = "blobs" /\ gc'.stage = "blobs"
  BY <1>1, <1>10 DEF SweepBlob, Gc
<1>11. CASE Finish
  BY <1>2, <1>11 DEF Finish
<1> QED
  BY <1>3, <1>4, <1>5, <1>6, <1>7, <1>8, <1>9, <1>10, <1>11 DEF Collecting

\* What was marked stays so, and a workspace is marked with all that is there.
LEMMA MarkedStep ==
    ASSUME TypeInv, [Next]_vars, NEW s \in Session, NEW m \in Manifest,
           Home[s] \in partitions, There(s, m), Marked(s, m)
    PROVE  Marked(s, m)'
<1> SUFFICES ASSUME gc'.stage # "idle", gc'.complete, ~ Ahead(s)', NEW b \in Holds[m]
             PROVE  b \in gc'.marked \/ BlobFile(b) \in gc'.shield
  BY DEF Marked, Ahead, BlobFile
<1>1. gc \in Gc
  BY DEF TypeInv, TypeOK
<1>2. ASSUME gc.stage # "idle", gc.complete, ~ Ahead(s),
             gc.marked \subseteq gc'.marked, gc.shield \subseteq gc'.shield
      PROVE  b \in gc'.marked \/ BlobFile(b) \in gc'.shield
  BY <1>2 DEF Marked
<1>3. CASE ~ Collecting
  <2>1. /\ gc.stage # "idle"
        /\ gc'.stage = gc.stage /\ gc'.left = gc.left /\ gc'.at = gc.at /\ gc'.complete = gc.complete
        /\ gc.marked \subseteq gc'.marked /\ gc.shield \subseteq gc'.shield
    BY <1>3, OthersShield
  <2> QED
    BY <1>2, <2>1 DEF Ahead
<1>4. CASE Collecting /\ gc.stage = "idle"
  <2>1. Start
    BY <1>4 DEF Collecting, CollectPartition, DropOrphans, RetainTurns, SweepManifests, SweepResidue,
                Mark, ListBlobs, SweepBlob, Finish
  <2> QED
    BY <2>1 DEF Start, NoGc, Ahead
<1>5. CASE Collecting /\ gc.stage # "idle"
  <2>1. gc.complete /\ gc.marked \subseteq gc'.marked /\ gc'.shield = gc.shield
    BY <1>5, StageStep
  <2>2. ASSUME NEW w \in Workspace, CollectPartition(w) PROVE ~ Ahead(s)
    <3>1. /\ gc.stage = "next" /\ gc'.stage \in {"orphans", "residue"}
          /\ gc'.at = w /\ gc'.left = gc.left \ {w}
      BY <1>1, <2>2 DEF CollectPartition, Gc
    <3> QED
      BY <3>1 DEF Ahead
  <2>3. CASE Mark
    <3> DEFINE read == {n \in Manifests(gc.at) : ManifestFile(gc.at, n) \notin damaged}
               marks == UNION {Holds[n] : n \in read}
    <3>1. gc' = [gc EXCEPT !.stage = "next", !.at = None, !.live = {}, !.marked = @ \cup marks,
                   !.complete = @ /\ read = Manifests(gc.at)]
      BY <2>3 DEF Mark
    <3>2. gc.stage = "mark"
      BY <2>3 DEF Mark
    <3>3. gc'.left = gc.left /\ gc'.marked = gc.marked \cup marks /\ read = Manifests(gc.at)
      BY <1>1, <3>1 DEF Gc
    <3>4. CASE Home[s] # gc.at
      <4>1. ~ Ahead(s)
        BY <3>3, <3>4 DEF Ahead
      <4> QED
        BY <1>2, <1>5, <2>1, <4>1
    <3>5. CASE Home[s] = gc.at
      <4>1. m \in Manifests(gc.at)
        BY <3>5 DEF There, Manifests
      <4>2. b \in marks
        BY <3>3, <4>1
      <4> QED
        BY <3>3, <4>2
    <3> QED
      BY <3>4, <3>5
  <2>4. CASE gc'.left = gc.left /\ gc'.at = gc.at
             /\ \/ gc.stage \in {"orphans", "turns", "manifests", "residue", "mark"}
                     /\ gc'.stage \in {"orphans", "turns", "manifests", "residue", "mark"}
                \/ gc.stage \in {"next", "blobs"}
    BY <1>2, <1>5, <2>1, <2>4 DEF Ahead
  <2> QED
    BY <1>2, <1>5, <2>1, <2>2, <2>3, <2>4, StageStep
<1> QED
  BY <1>3, <1>4, <1>5

\* Records of one workspace are judged at a time.
LEMMA ManifestsInHand ==
    ASSUME TypeInv, [Next]_vars,
           gc.stage \in {"orphans", "turns", "manifests"},
           gc'.stage \in {"orphans", "turns", "manifests"}
    PROVE  gc'.at = gc.at
<1>1. CASE ~ Collecting
  BY <1>1, OthersShield
<1>2. CASE Collecting
  <2>1. ~ Mark /\ \A w \in Workspace : ~ CollectPartition(w)
    BY DEF Mark, CollectPartition
  <2> QED
    BY <1>2, <2>1, StageStep
<1> QED
  BY <1>1, <1>2

\* What is live stays so while its workspace is in hand.
LEMMA LiveStep ==
    ASSUME TypeInv, [Next]_vars, NEW s \in Session, NEW m \in Manifest, Live(s, m),
           gc.stage \in {"orphans", "turns", "manifests"},
           gc'.stage \in {"orphans", "turns", "manifests"}
    PROVE  Live(s, m)'
<1>1. gc.live \subseteq gc'.live /\ gc.shield \subseteq gc'.shield
  <2>1. CASE ~ Collecting
    BY <2>1, OthersShield
  <2>2. CASE Collecting
    <3>1. ~ Mark /\ \A w \in Workspace : ~ CollectPartition(w)
      BY DEF Mark, CollectPartition
    <3> QED
      BY <2>2, <3>1, StageStep
  <2> QED
    BY <2>1, <2>2
<1> QED
  BY <1>1 DEF Live, ManifestFile

\* What is safe stays so, if it is found live when manifests come to be swept.
LEMMA SafeStep ==
    ASSUME TypeInv, YoungInv, WriterInv, BlobsLast, [Next]_vars,
           NEW s \in Session, NEW m \in Manifest, Home[s] \in partitions, Safe(s, m),
           gc.stage # "manifests" /\ gc'.stage = "manifests" /\ gc'.at = Home[s] => Live(s, m)'
    PROVE  Safe(s, m)'
<1>1. There(s, m)'
  BY SafeStaysThere
<1>2. Marked(s, m)'
  BY MarkedStep DEF Safe
<1>3. ASSUME gc'.stage = "manifests", gc'.at = Home[s] PROVE Live(s, m)'
  <2>1. CASE gc.stage = "manifests" /\ gc.at = Home[s]
    BY <1>3, <2>1, LiveStep DEF Safe
  <2>2. CASE gc.stage = "manifests" /\ gc.at # Home[s]
    BY <1>3, <2>2, ManifestsInHand
  <2> QED
    BY <1>3, <2>1, <2>2
<1> QED
  BY <1>1, <1>2, <1>3 DEF Safe

-----------------------------------------------------------------------------
(* What logs name *)

\* By the time a capture writes its log, the rest it names is in place.
LEMMA LogComesLast ==
    ASSUME TypeInv, WriterInv, NEW s \in Session, RenameLog(s)
    PROVE  LET m == writer[s].manifest IN
           /\ m \in Manifest /\ Home[s] \in partitions
           /\ Kept(s, ManifestFile(Home[s], m))
           /\ \A b \in Holds[m] : Kept(s, BlobFile(b)) \/ \E l \in Named(s) : b \in Holds[l]
<1> DEFINE m == writer[s].manifest
           f == writer[s].writing
<1>1. f = LogFile(s) /\ f # None /\ f.kind = "log"
  BY FileFacts DEF RenameLog, Rename
<1>2. m \in Manifest /\ Writing(s)
  BY <1>1, Wanted
<1>3. Holds[m] \subseteq Blob /\ Home[s] \in Workspace
  BY <1>2, HoldsFunction, FileFacts
<1>4. \A g \in writer[s].todo : Rank(f) <= Rank(g)
  BY <1>1 DEF WriterInv, InHand
<1>5. Rank(f) = 3
  BY <1>1 DEF Rank
<1>6. ManifestFile(Home[s], m) \notin writer[s].todo
  <2>1. ManifestFile(Home[s], m).kind = "manifest"
    BY <1>2, <1>3, FileFacts
  <2>2. Rank(ManifestFile(Home[s], m)) = 2
    BY <2>1 DEF Rank
  <2> QED
    BY <1>4, <1>5, <2>2
<1>7. ASSUME NEW b \in Holds[m] PROVE BlobFile(b) \notin writer[s].todo
  <2>1. BlobFile(b).kind = "blob"
    BY <1>3, FileFacts
  <2>2. Rank(BlobFile(b)) = 1
    BY <2>1 DEF Rank
  <2> QED
    BY <1>4, <1>5, <2>2
<1> HIDE DEF f
<1> QED
  BY <1>2, <1>6, <1>7 DEF WriterInv, Progress

\* So what a log comes to name is safe, and shielded from a collection under way.
LEMMA FiledIsSafe ==
    ASSUME TypeInv, YoungInv, WriterInv, GcInv, [Next]_vars, NEW s \in Session, RenameLog(s),
           NEW m, m = writer[s].manifest
    PROVE  m \in Manifest /\ Safe(s, m)' /\ (gc'.stage # "idle" => Live(s, m)')
<1>1. /\ m \in Manifest /\ Home[s] \in partitions
      /\ Kept(s, ManifestFile(Home[s], m))
      /\ \A b \in Holds[m] : Kept(s, BlobFile(b)) \/ \E l \in Named(s) : b \in Holds[l]
  BY LogComesLast
<1>2. Named(s) \subseteq Manifest
  BY NamedAreManifests DEF TypeInv, TypeOK
<1>3. \A l \in Named(s) : Safe(s, l)
  BY DEF GcInv
<1>4. There(s, m)
  BY <1>1, <1>3 DEF Kept, Safe, There
<1>5. ASSUME gc.stage # "idle" PROVE writer[s].touched \subseteq gc.shield
  BY <1>5 DEF YoungInv, ShieldIsYoung
<1>6. gc.stage # "idle" => Live(s, m)
  BY <1>1, <1>5 DEF Kept, Live
<1>7. Marked(s, m)
  BY <1>1, <1>3, <1>5 DEF Kept, Safe, Marked
<1>8. Safe(s, m)
  BY <1>4, <1>6, <1>7 DEF Safe
<1>9. gc'.stage # "idle" => Live(s, m)'
  <2> SUFFICES ASSUME gc'.stage # "idle" PROVE Live(s, m)'
    OBVIOUS
  <2>1. ~ Collecting
    <3>1. ASSUME Collecting PROVE writer' = writer
      BY <3>1 DEF Collecting, Start, CollectPartition, DropOrphans, RetainTurns, SweepManifests, SweepResidue,
                  Mark, ListBlobs, SweepBlob, Finish
    <3>2. LogFile(s) # None
      BY FileFacts, NoneAssumption
    <3>3. writer'[s].writing = None
      <4>1. writer[s] \in Writer /\ writer \in [Session -> Writer]
        BY DEF TypeInv, TypeOK
      <4> QED
        BY <4>1 DEF RenameLog, Rename, NotWriting, Writer
    <3> QED
      BY <3>1, <3>2, <3>3 DEF RenameLog
  <2> QED
    BY <1>6, <2>1, OthersShield DEF Live, ManifestFile
<1> QED
  BY <1>1, <1>8, <1>9, SafeStep DEF GcInv

\* Blobs are swept last.
LEMMA BlobsStayLast ==
    ASSUME TypeInv, BlobsLast, [Next]_vars PROVE BlobsLast'
<1> SUFFICES ASSUME gc'.stage = "blobs" PROVE gc'.left = {} /\ gc'.complete
  BY DEF BlobsLast
<1>1. CASE ~ Collecting
  BY <1>1, OthersShield DEF BlobsLast
<1>2. CASE Collecting
  <2>1. gc.stage # "idle"
    BY <1>2 DEF Collecting, Start, CollectPartition, DropOrphans, RetainTurns, SweepManifests, SweepResidue,
                Mark, ListBlobs, SweepBlob, Finish, NoGc
  <2>2. gc \in Gc
    BY DEF TypeInv, TypeOK
  <2>3. ~ Mark /\ \A w \in Workspace : ~ CollectPartition(w)
    BY <2>2 DEF Mark, CollectPartition, Gc
  <2> QED
    BY <1>2, <2>1, <2>3, StageStep DEF BlobsLast
<1> QED
  BY <1>1, <1>2

\* A workspace handed over is the heir's too.
LEMMA HeirsHome ==
    ASSUME TypeInv, WriterInv, NEW s \in Session, writer[s].heir # None, Writing(s)
    PROVE  /\ writer[s].heir \in Session /\ Home[writer[s].heir] = Home[s]
           /\ Home[s] \in partitions
<1>1. writer[s].heir \in Heirs[s]
  BY DEF TypeInv, Handing
<1> QED
  BY <1>1, HeirsAssumption DEF WriterInv, Progress

\* A log's workspace has a directory.
LEMMA HomesStay ==
    ASSUME TypeInv, WriterInv, GcInv, [Next]_vars, NEW s \in Session, LogFile(s) \in disk'
    PROVE  Home[s] \in partitions'
<1>1. CASE LogFile(s) \in disk
  BY <1>1, PartitionsStay DEF GcInv
<1>2. CASE RenameLog(s)
  BY <1>2, LogComesLast, PartitionsStay
<1>3. CASE EnsureLog(s)
  <2>1. PICK t \in Session : Ensure(t) /\ writer[t].heir = s
    BY <1>3 DEF EnsureLog
  <2>2. Writing(t) /\ writer[t].heir # None
    BY <2>1 DEF Ensure, Due, TypeInv
  <2>3. Home[s] \in partitions
    BY <2>1, <2>2, HeirsHome
  <2> QED
    BY <2>3, PartitionsStay
<1> QED
  BY <1>1, <1>2, <1>3, LogStep

\* What a step of the collection takes for live when it has read the logs of a
\* workspace, and when it has read its undo records.
LEMMA ReadIsLive ==
    ASSUME TypeInv, [Next]_vars, NEW s \in Session, gc'.at = Home[s]
    PROVE  /\ gc'.stage \in {"orphans", "turns"} /\ gc.stage \notin {"orphans", "turns"} =>
                Named(s) \subseteq gc'.live /\ log' = log /\ disk' = disk
           /\ gc'.stage = "manifests" /\ gc.stage # "manifests" =>
                /\ gc.stage = "turns" /\ gc.at = Home[s] /\ undo' = undo
                /\ UndoFile(s) \in disk => \A r \in undo[s] : r.safety \in gc'.live
<1>1. gc \in Gc
  BY DEF TypeInv, TypeOK
<1>2. CASE ~ Collecting
  <2>1. CASE gc'.stage = "idle"
    BY <2>1
  <2>2. CASE gc'.stage # "idle"
    BY <1>2, <2>2, OthersShield
  <2> QED
    BY <2>1, <2>2
<1>3. CASE Start
  BY <1>3 DEF Start, NoGc
<1>4. ASSUME NEW w \in Workspace, CollectPartition(w)
      PROVE  /\ gc'.stage \in {"orphans", "residue"} /\ log' = log /\ disk' = disk
             /\ Named(s) \subseteq gc'.live
  <2>1. /\ gc'.stage \in {"orphans", "residue"} /\ gc'.at = w
        /\ gc'.live = UNION {Named(t) : t \in Logs(w)}
    BY <1>1, <1>4 DEF CollectPartition, Gc
  <2>2. ASSUME NEW m \in Named(s) PROVE s \in Logs(w)
    BY <2>1, <2>2 DEF Named, Logs
  <2> QED
    BY <1>4, <2>1, <2>2 DEF CollectPartition
<1>5. CASE RetainTurns
  <2>1. /\ gc.stage = "turns" /\ gc'.at = gc.at /\ gc'.stage \in {"manifests", "residue"}
        /\ UNION {Held(t) : t \in Undos(gc.at)} \subseteq gc'.live
        /\ undo' = undo
    BY <1>1, <1>5 DEF RetainTurns, Gc
  <2>2. ASSUME UndoFile(s) \in disk, NEW r \in undo[s] PROVE r.safety \in gc'.live
    <3>1. s \in Undos(gc.at) /\ r.safety \in Held(s)
      BY <2>1, <2>2 DEF Undos, Held
    <3> QED
      BY <2>1, <3>1
  <2> QED
    BY <2>1, <2>2
<1>6. CASE DropOrphans
  BY <1>1, <1>6 DEF DropOrphans, Gc
<1>7. CASE SweepManifests \/ SweepResidue \/ Mark
  <2>1. gc'.stage \notin {"orphans", "turns", "manifests"}
    BY <1>1, <1>7 DEF SweepManifests, SweepResidue, Mark, Gc
  <2> QED
    BY <2>1
<1>8. CASE ListBlobs \/ Finish \/ \E b \in Blob : SweepBlob(b)
  <2>1. gc'.stage \notin {"orphans", "turns", "manifests"}
    <3>1. CASE ListBlobs
      <4> DEFINE todo == {b \in Blob : BlobFile(b) \in disk}
      <4>1. gc' = [gc EXCEPT !.stage = "blobs", !.todo = todo] \/ gc' = NoGc
        BY <3>1 DEF ListBlobs
      <4> HIDE DEF todo
      <4>2. NoGc.stage = "idle" /\ [gc EXCEPT !.stage = "blobs", !.todo = todo].stage = "blobs"
        BY <1>1 DEF NoGc, Gc
      <4>3. gc'.stage \in {"blobs", "idle"}
        BY <4>1, <4>2
      <4> QED
        BY <4>3
    <3>2. CASE Finish
      BY <3>2 DEF Finish, NoGc
    <3>3. ASSUME NEW b \in Blob, SweepBlob(b) PROVE gc'.stage = "blobs"
      BY <1>1, <3>3 DEF SweepBlob, Gc
    <3> QED
      BY <1>8, <3>1, <3>2, <3>3
  <2> QED
    BY <2>1
<1> QED
  BY <1>2, <1>3, <1>4, <1>5, <1>6, <1>7, <1>8 DEF Collecting

\* Every step keeps it, one of the collection's own or of others.
LEMMA GcNext == TypeInv /\ YoungInv /\ WriterInv /\ GcInv /\ [Next]_vars => GcInv'
<1> SUFFICES ASSUME TypeInv, YoungInv, WriterInv, GcInv, [Next]_vars PROVE GcInv'
  OBVIOUS
<1>1. BlobsLast'
  BY BlobsStayLast DEF GcInv
<1>2. \A s \in Session : LogFile(s) \in disk' => Home[s] \in partitions'
  BY HomesStay
<1>3. ASSUME NEW s \in Session, NEW m \in Named(s)'
      PROVE  /\ Safe(s, m)'
             /\ (gc.stage \in {"orphans", "turns"} /\ gc.at = Home[s] => Live(s, m))'
  <2>1. CASE RenameLog(s) /\ m = writer[s].manifest
    <3>1. m \in Manifest /\ Safe(s, m)' /\ (gc'.stage # "idle" => Live(s, m)')
      BY <2>1, FiledIsSafe
    <3> QED
      BY <3>1
  <2>2. CASE m \in Named(s)
    <3>1. m \in Manifest /\ Home[s] \in partitions /\ BlobsLast
      BY <2>2, NamedAreManifests DEF TypeInv, TypeOK, GcInv, Named
    <3>2. /\ Safe(s, m)
          /\ gc.stage \in {"orphans", "turns"} /\ gc.at = Home[s] => Live(s, m)
      BY <2>2 DEF GcInv
    <3>3. ASSUME gc'.stage \in {"orphans", "turns"}, gc'.at = Home[s] PROVE Live(s, m)'
      <4>1. CASE gc.stage \notin {"orphans", "turns"}
        BY <2>2, <3>3, <4>1, ReadIsLive DEF Live
      <4>2. CASE gc.stage \in {"orphans", "turns"} /\ gc.at = Home[s]
        BY <3>1, <3>2, <3>3, <4>2, LiveStep
      <4>3. CASE gc.stage \in {"orphans", "turns"} /\ gc.at # Home[s]
        <5>1. gc'.at = gc.at
          BY <3>3, <4>3, ManifestsInHand
        <5> QED
          BY <3>3, <4>3, <5>1
      <4> QED
        BY <4>1, <4>2, <4>3
    <3>4. ASSUME gc.stage # "manifests", gc'.stage = "manifests", gc'.at = Home[s] PROVE Live(s, m)'
      <4>1. gc.stage = "turns" /\ gc.at = Home[s]
        BY <3>4, ReadIsLive
      <4> QED
        BY <3>1, <3>2, <3>4, <4>1, LiveStep
    <3> QED
      BY <3>1, <3>2, <3>3, <3>4, SafeStep
  <2> QED
    BY <2>1, <2>2, NamedStep
<1> QED
  BY <1>1, <1>2, <1>3 DEF GcInv, LogFile

\* Whatever cannot be read just then, in whichever workspace, and whoever was
\* killed halfway: what a log names is there, with its content (collect.rs,
\* collect_garbage; sweep.rs, collect_partition).
THEOREM CollectionIsSafe == Spec => []WhatLogsNameIsThere
<1>1. GcInv => WhatLogsNameIsThere
  BY DEF GcInv, Safe, There, WhatLogsNameIsThere
<1> QED
  BY TypeInit, TypeNext, YoungInit, YoungNext, WriterInit, WriterNext, GcInit, GcNext, <1>1, PTL DEF Spec

-----------------------------------------------------------------------------
(* What undos need *)

\* The rename of the undo record of a session, by the rewind that hands over to it.
FileUndo(s, o) == Rename(s) /\ writer[s].heir = o /\ writer[s].writing = UndoFile(o)

\* Undo records come with rewinds, go with their session or as orphans, and else
\* stay with their file.
LEMMA UndoStep ==
    ASSUME TypeInv, WriterInv, [Next]_vars, NEW o \in Session
    PROVE  \/ undo'[o] = {}
           \/ /\ undo'[o] = undo[o]
              /\ UndoFile(o) \in disk => UndoFile(o) \in disk'
           \/ \E s \in Session :
                /\ FileUndo(s, o) /\ UndoFile(o) \in disk'
                /\ undo'[o] = undo[o] \cup {[target |-> writer[s].target, safety |-> writer[s].manifest]}
<1> DEFINE Stays == undo'[o] = undo[o] /\ (UndoFile(o) \in disk => UndoFile(o) \in disk')
<1>1. undo \in [Session -> SUBSET UndoRecord] /\ writer \in [Session -> Writer]
  BY DEF TypeInv, TypeOK
<1>2. UndoFile(o) \in Record /\ UndoFile(o).kind = "undo" /\ UndoFile(o).tmp = FALSE /\ UndoFile(o) \notin Residue
  BY FileFacts
<1>3. ASSUME NEW s \in Session,
             \/ \E m \in Manifest : Begins(s, m)
             \/ \E f \in Record \cup Content : Freshen(s, f) \/ WriteTmp(s, f)
             \/ Ensure(s) \/ Fail(s) \/ Kill(s)
      PROVE  undo' = undo /\ disk \subseteq disk'
  <2>1. CASE \E m \in Manifest : Begins(s, m)
    BY <2>1 DEF Begins, Begin
  <2>2. CASE \/ \E f \in Record \cup Content : Freshen(s, f) \/ WriteTmp(s, f)
             \/ Ensure(s) \/ Fail(s) \/ Kill(s)
    BY <2>2 DEF Freshen, WriteTmp, Ensure, Fail, Kill
  <2> QED
    BY <1>3, <2>1, <2>2
<1>4. ASSUME NEW s \in Session, Delete(s) PROVE undo'[o] = {} \/ Stays
  <2>1. CASE s = o
    BY <1>1, <1>4, <2>1 DEF Delete
  <2>2. CASE s # o
    <3>1. UndoFile(s) # UndoFile(o) /\ LogFile(s) # UndoFile(o)
      BY <1>2, <2>2, NamesAreDistinct, FileFacts
    <3>2. undo' = [undo EXCEPT ![s] = {}] /\ disk' = disk \ {LogFile(s), UndoFile(s)}
      BY <1>4 DEF Delete
    <3> QED
      BY <1>1, <2>2, <3>1, <3>2
  <2> QED
    BY <2>1, <2>2
<1>5. ASSUME NEW s \in Session, Rename(s)
      PROVE  \/ Stays
             \/ /\ FileUndo(s, o) /\ UndoFile(o) \in disk'
                /\ undo'[o] = undo[o] \cup {[target |-> writer[s].target, safety |-> writer[s].manifest]}
  <2> DEFINE f == writer[s].writing
  <2>1. f # None /\ disk' = (disk \ {Tmp(f, s)}) \cup {f}
    BY <1>5 DEF Rename
  <2>2. Tmp(f, s) # UndoFile(o)
    BY <1>2, <2>1, HalfWritten
  <2>3. CASE f.kind # "undo"
    <3>1. undo' = undo
      BY <1>5, <2>3 DEF Rename
    <3> HIDE DEF f
    <3> QED
      BY <2>1, <2>2, <3>1
  <2>4. CASE f.kind = "undo"
    <3>1. writer[s].heir # None /\ f = UndoFile(writer[s].heir)
      BY <2>1, <2>4, Wanted DEF TypeInv, Handing
    <3>2. writer[s].heir \in Session
      BY <1>1, <3>1 DEF Writer
    <3>3. undo' = [undo EXCEPT ![writer[s].heir] = @ \cup
                     {[target |-> writer[s].target, safety |-> writer[s].manifest]}]
      BY <1>5, <2>4 DEF Rename
    <3>4. CASE writer[s].heir = o
      BY <1>1, <1>5, <2>1, <3>1, <3>3, <3>4 DEF FileUndo
    <3>5. CASE writer[s].heir # o
      <4> HIDE DEF f
      <4> QED
        BY <1>1, <2>1, <2>2, <3>2, <3>3, <3>5
    <3> QED
      BY <3>4, <3>5
  <2> QED
    BY <2>3, <2>4
<1>6. CASE \/ \E f \in disk : Damage(f) \/ Mend(f) \/ Settle(f)
           \/ KillGc \/ UNCHANGED vars
  <2>1. undo' = undo /\ disk' = disk
    BY <1>6 DEF Damage, Mend, Settle, KillGc, vars
  <2> QED
    BY <2>1
<1>7. CASE DropOrphans
  <2> DEFINE orphans == Orphans(gc.at)
  <2>1. undo' = [s \in Session |-> IF s \in orphans THEN {} ELSE undo[s]]
    BY <1>7 DEF DropOrphans
  <2>2. disk' = disk \ {UndoFile(s) : s \in orphans} /\ orphans \subseteq Session
    BY <1>7 DEF DropOrphans, Removing, Orphans, Undos
  <2> HIDE DEF orphans
  <2>3. o \notin orphans => UndoFile(o) \notin {UndoFile(s) : s \in orphans}
    BY <2>2, NamesAreDistinct
  <2> QED
    BY <2>1, <2>2, <2>3
<1>8. CASE Collecting /\ ~ DropOrphans
  <2>1. undo' = undo
    BY <1>8 DEF Collecting, Start, CollectPartition, RetainTurns, SweepManifests, SweepResidue, Mark,
                ListBlobs, SweepBlob, Finish
  <2>2. UndoFile(o) \in disk => UndoFile(o) \in disk'
    <3> SUFFICES ASSUME UndoFile(o) \in disk PROVE UndoFile(o) \in disk'
      OBVIOUS
    <3>1. CASE RetainTurns
      <4>1. \A m : TurnFile(gc.at, m).kind = "turn"
        BY DEF TurnFile, FileOf
      <4> QED
        BY <1>2, <3>1, <4>1 DEF RetainTurns, Removing
    <3>2. CASE SweepManifests
      <4>1. \A m : ManifestFile(gc.at, m).kind = "manifest"
        BY DEF ManifestFile, FileOf
      <4> QED
        BY <1>2, <3>2, <4>1 DEF SweepManifests, Removing
    <3>3. CASE SweepResidue \/ ListBlobs
      BY <1>2, <3>3 DEF SweepResidue, ListBlobs, SettledResidue, Removing
    <3>4. ASSUME NEW b \in Blob, SweepBlob(b) PROVE UndoFile(o) \in disk'
      <4>1. BlobFile(b) # UndoFile(o)
        BY <1>2, FileFacts
      <4> QED
        BY <3>4, <4>1 DEF SweepBlob, Removing
    <3>5. CASE Start \/ Mark \/ Finish \/ \E w \in Workspace : CollectPartition(w)
      BY <3>5 DEF Start, Mark, Finish, CollectPartition
    <3> QED
      BY <1>8, <3>1, <3>2, <3>3, <3>4, <3>5 DEF Collecting
  <2> QED
    BY <2>1, <2>2
<1> QED
  BY <1>1, <1>3, <1>4, <1>5, <1>6, <1>7, <1>8, Steps

\* By the time an undo record is filed, the log names what was captured before
\* the rewind.
LEMMA UndoComesLast ==
    ASSUME TypeInv, WriterInv, [Next]_vars, NEW s \in Session, NEW o \in Session, FileUndo(s, o)
    PROVE  /\ Home[o] = Home[s] /\ Home[s] \in partitions
           /\ writer[s].manifest \in Named(s)'
<1> DEFINE f == writer[s].writing
<1>1. f = UndoFile(o) /\ f # None /\ f.kind = "undo" /\ writer[s].heir # None
  BY FileFacts, NoneAssumption DEF FileUndo, Rename
<1>2. Writing(s)
  BY <1>1, Wanted
<1>3. \A g \in writer[s].todo : Rank(f) <= Rank(g)
  BY <1>1 DEF WriterInv, InHand
<1>4. LogFile(s) \notin writer[s].todo
  <2>1. Rank(f) = 5
    BY <1>1 DEF Rank
  <2>2. LogFile(s).kind = "log"
    BY FileFacts
  <2>3. Rank(LogFile(s)) = 3
    BY <2>2 DEF Rank
  <2> HIDE DEF f
  <2> QED
    BY <1>3, <2>1, <2>3
<1>5. writer[s].manifest \in Named(s)
  BY <1>2, <1>4 DEF WriterInv, Progress
<1>6. ~ Delete(s)
  BY <1>2 DEF Delete
<1> QED
  BY <1>1, <1>2, <1>5, <1>6, HeirsHome, NamedStep DEF FileUndo

\* Every step keeps it.
LEMMA UndoNext ==
    TypeInv /\ YoungInv /\ WriterInv /\ GcInv /\ GcInv' /\ UndoInv /\ [Next]_vars => UndoInv'
<1> SUFFICES ASSUME TypeInv, YoungInv, WriterInv, GcInv, GcInv', UndoInv, [Next]_vars,
                    NEW o \in Session
             PROVE  /\ undo'[o] # {} => UndoFile(o) \in disk' /\ Home[o] \in partitions'
                    /\ \A r \in undo'[o] : Safe(o, r.safety)'
  BY DEF UndoInv, UndoFile
<1>1. undo \in [Session -> SUBSET UndoRecord] /\ partitions \subseteq partitions'
  BY PartitionsStay DEF TypeInv, TypeOK
<1>2. ASSUME NEW r \in undo[o], undo'[o] # {} PROVE Safe(o, r.safety)'
  <2>1. r.safety \in Manifest /\ Home[o] \in partitions /\ UndoFile(o) \in disk /\ Safe(o, r.safety)
    BY <1>1, <1>2 DEF UndoInv, UndoRecord
  <2>2. ASSUME gc.stage # "manifests", gc'.stage = "manifests", gc'.at = Home[o] PROVE Live(o, r.safety)'
    BY <1>2, <2>1, <2>2, ReadIsLive DEF Live
  <2> QED
    BY <2>1, <2>2, SafeStep DEF GcInv
<1>3. CASE undo'[o] = {}
  BY <1>3
<1>4. CASE undo'[o] = undo[o] /\ (UndoFile(o) \in disk => UndoFile(o) \in disk')
  BY <1>1, <1>2, <1>4 DEF UndoInv
<1>5. ASSUME NEW s \in Session, FileUndo(s, o), UndoFile(o) \in disk',
             undo'[o] = undo[o] \cup {[target |-> writer[s].target, safety |-> writer[s].manifest]}
      PROVE  /\ Home[o] \in partitions'
             /\ \A r \in undo'[o] : Safe(o, r.safety)'
  <2>5. PICK m : m = writer[s].manifest
    OBVIOUS
  <2>1. Home[o] = Home[s] /\ Home[s] \in partitions /\ m \in Named(s)'
    BY <1>5, <2>5, UndoComesLast
  <2>2. Safe(s, m)'
    BY <2>1 DEF GcInv
  <2>3. Safe(o, m)'
    BY <2>1, <2>2 DEF Safe, There, Live, Marked, Ahead, ManifestFile
  <2>4. ASSUME NEW r \in undo'[o], r \notin undo[o] PROVE r.safety = m
    BY <1>5, <2>4, <2>5
  <2>6. ASSUME NEW r \in undo'[o] PROVE Safe(o, r.safety)'
    <3>1. CASE r \in undo[o]
      BY <1>2, <2>6, <3>1
    <3>2. CASE r \notin undo[o]
      BY <2>3, <2>4, <3>2
    <3> QED
      BY <3>1, <3>2
  <2> QED
    BY <1>1, <2>1, <2>6
<1> QED
  BY <1>3, <1>4, <1>5, UndoStep

\* Nor is what an undo would go back to ever collected, be the session that
\* captured it deleted since (refs.rs, all_manifest_ids; sweep.rs,
\* collect_partition).
THEOREM UndosAreSafe == Spec => []WhatUndosNeedIsThere
<1>1. UndoInv => WhatUndosNeedIsThere
  BY DEF UndoInv, Safe, There, WhatUndosNeedIsThere
<1> QED
  BY TypeInit, TypeNext, YoungInit, YoungNext, WriterInit, WriterNext, GcInit, GcNext, UndoNext, <1>1, PTL
     DEF Spec
=============================================================================
