---------------------------- MODULE StatCacheProofs ----------------------------
(***************************************************************************)
(* Proofs about StatCache: for every set of sessions and contents, whatever  *)
(* sizes the contents have, every Lag and every Window wider than it.        *)
(***************************************************************************)
EXTENDS StatCache, TLAPS

-----------------------------------------------------------------------------
(* The invariant. *)

\* A fingerprint to be trusted is a window old, so that nothing written from
\* now on can bear it, and whatever bears it now is what was hashed.
Proof(s) ==
    latest[s] # Nothing /\ latest[s].mtime # Epoch =>
      /\ latest[s].mtime + Window <= clock
      /\ disk.mtime = latest[s].mtime => disk.content = latest[s].hash

\* The inductive invariant: the types, that proof, a clock that has ticked
\* often enough for a late stamp to be one at all, and what a capture under way
\* has to have seen.
CacheInv ==
    /\ TypeOK
    /\ clock >= Lag
    /\ \A s \in Session : Proof(s)
    /\ \A s \in Session : during[s] # {} => disk.content \in during[s]

\* An entry is none of the marks for a missing one.
LEMMA EntryIsSomething ==
    ASSUME NEW c \in Content, NEW n \in Nat, NEW m \in Nat
    PROVE  /\ [hash |-> c, size |-> n, mtime |-> m] \in Entry
           /\ [hash |-> c, size |-> n, mtime |-> m] # Nothing
BY NothingAssumption DEF Entry

\* What an entry says.
LEMMA EntryFields ==
    ASSUME TypeOK, NEW s \in Session, latest[s] # Nothing
    PROVE  latest[s].hash \in Content /\ latest[s].size \in Nat /\ latest[s].mtime \in Nat
BY DEF TypeOK, Entry

\* The invariant holds at first.
LEMMA CacheInit == Init => CacheInv
<1> SUFFICES ASSUME Init PROVE CacheInv
  OBVIOUS
<1>1. TypeOK
  BY ClockAssumption DEF Init, TypeOK, File, Epoch, NoCapture, Capture
<1> QED
  BY <1>1, ClockAssumption DEF Init, CacheInv, Proof

\* A change of the file: the stamp is not one that any entry is trusted for.
LEMMA BecomesStep ==
    ASSUME CacheInv, NEW file \in File, Becomes(file), file.mtime <= clock,
           file.mtime = Epoch \/ file.mtime + Window > clock
    PROVE  CacheInv'
<1> USE ClockAssumption
<1>1. TypeOK'
  <2>1. during' \in [Session -> SUBSET Content]
    BY DEF CacheInv, TypeOK, Becomes, File
  <2>2. \A s \in Session : during'[s] = {} <=> capture[s].stage = "idle"
    BY DEF CacheInv, TypeOK, Becomes
  <2> QED
    BY <2>1, <2>2 DEF CacheInv, TypeOK, Becomes
<1>2. ASSUME NEW s \in Session, latest[s] # Nothing, latest[s].mtime # Epoch
      PROVE  file.mtime # latest[s].mtime
  <2>1. latest[s].mtime \in Nat /\ latest[s].mtime + Window <= clock
    BY <1>2, EntryFields DEF CacheInv, Proof
  <2>2. clock \in Nat /\ file.mtime \in Nat
    BY DEF CacheInv, TypeOK, File
  <2> QED
    BY <1>2, <2>1, <2>2
<1>3. \A s \in Session : Proof(s)'
  BY <1>2 DEF CacheInv, Proof, Becomes
<1> QED
  BY <1>1, <1>3 DEF CacheInv, Becomes, TypeOK

\* The entry that a capture of s ends with, or that a declaration states.
LEMMA EntryStep ==
    ASSUME CacheInv, NEW s \in Session, NEW e \in Entry,
           latest' = [latest EXCEPT ![s] = e],
           UNCHANGED <<clock, disk>>,
           e.mtime # Epoch =>
             /\ e.mtime + Window <= clock
             /\ disk.mtime = e.mtime => disk.content = e.hash
    PROVE  /\ \A t \in Session : Proof(t)'
           /\ latest' \in [Session -> Entry \cup {Nothing}]
           /\ \A t \in Session : latest'[t] # Nothing =>
                latest'[t].mtime = Epoch \/ latest'[t].mtime + Window <= clock'
BY DEF CacheInv, TypeOK, Proof

\* ... and the end of that capture.
LEMMA EndStep ==
    ASSUME CacheInv, NEW s \in Session, NEW e \in Entry, End(s, e),
           e.mtime # Epoch =>
             /\ e.mtime + Window <= clock
             /\ disk.mtime = e.mtime => disk.content = e.hash
    PROVE  CacheInv'
<1>1. /\ \A t \in Session : Proof(t)'
      /\ latest' \in [Session -> Entry \cup {Nothing}]
      /\ \A t \in Session : latest'[t] # Nothing =>
           latest'[t].mtime = Epoch \/ latest'[t].mtime + Window <= clock'
  BY EntryStep DEF End
<1>2. TypeOK'
  BY <1>1 DEF CacheInv, TypeOK, End, Capture, NoCapture
<1> QED
  BY <1>1, <1>2 DEF CacheInv, End, TypeOK

\* The entry made of what was read.
LEMMA ReadEntry ==
    ASSUME CacheInv, NEW s \in Session, capture[s].stage = "stated",
           NEW e, e = [hash |-> disk.content, size |-> SizeOf[disk.content],
                       mtime |-> Fingerprint(capture[s].mtime, capture[s].now)]
    PROVE  /\ e \in Entry
           /\ e.mtime # Epoch =>
                /\ e.mtime + Window <= clock
                /\ disk.mtime = e.mtime => disk.content = e.hash
<1>1. /\ capture[s].mtime \in Nat /\ capture[s].now \in Nat
      /\ capture[s].now <= clock /\ clock \in Nat
  BY DEF CacheInv, TypeOK, Capture
<1>2. disk.content \in Content /\ SizeOf[disk.content] \in Nat
  BY SizeAssumption DEF CacheInv, TypeOK, File
<1>3. Fingerprint(capture[s].mtime, capture[s].now) \in Nat
  BY <1>1 DEF Fingerprint, Epoch
<1>4. e \in Entry
  BY <1>2, <1>3, EntryIsSomething
<1>5. e.mtime # Epoch => e.mtime + Window <= clock
  BY <1>1, ClockAssumption DEF Fingerprint, Settled
<1> QED
  BY <1>4, <1>5

\* Every step keeps the invariant.
LEMMA CacheStep == CacheInv /\ [Next]_vars => CacheInv'
<1> SUFFICES ASSUME CacheInv, [Next]_vars PROVE CacheInv'
  OBVIOUS
<1> USE ClockAssumption
<1>1. CASE UNCHANGED vars
  BY <1>1 DEF vars, CacheInv, TypeOK, Proof
<1>2. CASE Tick
  <2>1. TypeOK'
    BY <1>2, EntryFields DEF Tick, CacheInv, TypeOK, File, Entry, Capture
  <2>2. \A s \in Session : Proof(s)'
    BY <1>2, EntryFields DEF Tick, CacheInv, TypeOK, Proof
  <2> QED
    BY <1>2, <2>1, <2>2 DEF Tick, CacheInv, TypeOK
<1>3. CASE Write
  <2>1. PICK c \in Content, m \in (clock - Lag) .. clock :
          Becomes([content |-> c, mtime |-> m])
    BY <1>3 DEF Write
  <2>2. m \in Nat /\ m <= clock /\ m + Window > clock
    BY DEF CacheInv, TypeOK
  <2> QED
    BY <2>1, <2>2, BecomesStep DEF File
<1>4. CASE Unpack
  <2>1. PICK c \in Content : Becomes([content |-> c, mtime |-> Epoch])
    BY <1>4 DEF Unpack
  <2> QED
    BY <2>1, BecomesStep DEF File, Epoch, CacheInv, TypeOK
<1>5. ASSUME NEW s \in Session, Begin(s) PROVE CacheInv'
  <2>1. TypeOK'
    BY <1>5 DEF Begin, CacheInv, TypeOK, Capture, File
  <2> QED
    BY <1>5, <2>1 DEF Begin, CacheInv, Proof, TypeOK
<1>6. ASSUME NEW s \in Session, Reuse(s) PROVE CacheInv'
  <2>1. latest[s] \in Entry
    BY <1>6 DEF Reuse, StatMatches, CacheInv, TypeOK
  <2>2. latest[s].mtime + Window <= clock /\ disk.content = latest[s].hash
    BY <1>6 DEF Reuse, StatMatches, CacheInv, Proof
  <2>3. End(s, latest[s])
    BY <1>6 DEF Reuse
  <2> QED
    BY <2>1, <2>2, <2>3, EndStep
<1>7. ASSUME NEW s \in Session, Stat(s) PROVE CacheInv'
  <2>3. disk.mtime \in Nat /\ capture[s] \in Capture
    BY DEF CacheInv, TypeOK, File
  <2>4. /\ capture' \in [Session -> Capture]
        /\ \A t \in Session : capture'[t].now = capture[t].now
        /\ \A t \in Session : capture'[t].stage = "idle" <=> capture[t].stage = "idle"
    BY <1>7, <2>3 DEF Stat, CacheInv, TypeOK, Capture
  <2>1. TypeOK'
    BY <1>7, <2>4 DEF Stat, CacheInv, TypeOK
  <2> QED
    BY <1>7, <2>1 DEF Stat, CacheInv, Proof, TypeOK
<1>8. ASSUME NEW s \in Session, Read(s) PROVE CacheInv'
  BY <1>8, ReadEntry, EndStep DEF Read
<1>9. ASSUME NEW s \in Session, Abandon(s) PROVE CacheInv'
  <2>1. TypeOK'
    BY <1>9 DEF Abandon, CacheInv, TypeOK, Capture, NoCapture
  <2> QED
    BY <1>9, <2>1 DEF Abandon, CacheInv, Proof, TypeOK
<1>10. ASSUME NEW s \in Session, Attach(s) PROVE CacheInv'
  <2>1. PICK c \in Content :
          latest' = [latest EXCEPT ![s] = [hash |-> c, size |-> SizeOf[c], mtime |-> Epoch]]
    BY <1>10 DEF Attach
  <2> DEFINE e == [hash |-> c, size |-> SizeOf[c], mtime |-> Epoch]
  <2>2. e \in Entry
    BY SizeAssumption, EntryIsSomething DEF Epoch
  <2>3. UNCHANGED <<clock, disk, capture, during, parity>>
    BY <1>10 DEF Attach
  <2>4. e.mtime = Epoch /\ latest' = [latest EXCEPT ![s] = e]
    BY <2>1
  <2> HIDE DEF e
  <2>5. /\ \A t \in Session : Proof(t)'
        /\ latest' \in [Session -> Entry \cup {Nothing}]
        /\ \A t \in Session : latest'[t] # Nothing =>
             latest'[t].mtime = Epoch \/ latest'[t].mtime + Window <= clock'
    BY <2>2, <2>3, <2>4, EntryStep
  <2> QED
    BY <2>3, <2>5 DEF CacheInv, TypeOK
<1> QED
  BY <1>1, <1>2, <1>3, <1>4, <1>5, <1>6, <1>7, <1>8, <1>9, <1>10
     DEF Next, Capturing

\* The invariant holds throughout.
LEMMA CacheInvariance == Safety => []CacheInv
<1> QED
  BY CacheInit, CacheStep, PTL DEF Safety

\* The states are well-typed; no trusted stamp is younger than the window.
THEOREM CacheTypes == Spec => []TypeOK
<1>1. CacheInv => TypeOK
  BY DEF CacheInv
<1> QED
  BY <1>1, CacheInvariance, PTL DEF Spec

\* What the invariant says of a match.
LEMMA MatchIsProof == CacheInv => FingerprintIsProof
BY DEF CacheInv, Proof, FingerprintIsProof, StatMatches

\* A stat that matches an entry proves that the file holds what was hashed.
THEOREM CacheIsSound == Spec => []FingerprintIsProof
<1> QED
  BY MatchIsProof, CacheInvariance, PTL DEF Spec

-----------------------------------------------------------------------------
(* Refinement. *)

Recorded == [s \in Session |-> IF latest[s] = Nothing THEN Nothing ELSE latest[s].hash]

\* The end of a capture records what it saw.
LEMMA EndRecords ==
    ASSUME CacheInv, NEW s \in Session, NEW e \in Entry, End(s, e),
           capture[s].stage # "idle", e.hash = disk.content
    PROVE  Promise!Record(s)
<1>1. e # Nothing
  BY NothingAssumption DEF Entry
<1>2. Recorded' = [Recorded EXCEPT ![s] = e.hash]
  BY <1>1 DEF Recorded, End, CacheInv, TypeOK
<1>3. e.hash \in during[s]
  BY DEF CacheInv, TypeOK
<1> QED
  BY <1>2, <1>3 DEF Promise!Record, Recorded, End

\* The first state is one of the promise.
LEMMA ObservationInit == Init => Promise!Init
BY DEF Init, Promise!Init

\* Every step is one that the promise allows, or none.
LEMMA ObservationStep ==
    CacheInv /\ [Next]_vars => [Promise!Next]_(Promise!observationVars)
<1> SUFFICES ASSUME CacheInv, [Next]_vars
             PROVE  [Promise!Next]_(Promise!observationVars)
  OBVIOUS
<1>1. CASE UNCHANGED vars
  BY <1>1 DEF vars, Promise!observationVars
<1>2. CASE Tick
  BY <1>2 DEF Tick, Promise!observationVars
<1>3. ASSUME NEW file \in File, Becomes(file) PROVE Promise!Change
  <2>1. file.content \in Content
    BY DEF File
  <2> QED
    BY <1>3, <2>1 DEF Becomes, Promise!Change
<1>4. CASE Write
  <2>1. PICK c \in Content, m \in (clock - Lag) .. clock :
          Becomes([content |-> c, mtime |-> m])
    BY <1>4 DEF Write
  <2>2. m \in Nat
    BY ClockAssumption DEF CacheInv, TypeOK
  <2> QED
    BY <1>3, <2>1, <2>2 DEF File, Promise!Next
<1>5. CASE Unpack
  BY <1>3, <1>5 DEF Unpack, File, Epoch, Promise!Next
<1>6. ASSUME NEW s \in Session, Begin(s) PROVE Promise!Begin(s)
  BY <1>6 DEF Begin, Promise!Begin, CacheInv, TypeOK
<1>7. ASSUME NEW s \in Session, Reuse(s) PROVE Promise!Record(s)
  <2>1. latest[s] \in Entry /\ latest[s].hash = disk.content
    BY <1>7, MatchIsProof DEF Reuse, StatMatches, FingerprintIsProof, CacheInv, TypeOK
  <2> QED
    BY <1>7, <2>1, EndRecords DEF Reuse
<1>8. ASSUME NEW s \in Session, Stat(s) PROVE UNCHANGED Promise!observationVars
  BY <1>8 DEF Stat, Promise!observationVars
<1>9. ASSUME NEW s \in Session, Read(s) PROVE Promise!Record(s)
  BY <1>9, ReadEntry, EndRecords DEF Read
<1>10. ASSUME NEW s \in Session, Abandon(s) PROVE Promise!Abandon(s)
  BY <1>10 DEF Abandon, Promise!Abandon, CacheInv, TypeOK
<1>11. ASSUME NEW s \in Session, Attach(s) PROVE Promise!Declare(s)
  <2>1. PICK c \in Content :
          latest' = [latest EXCEPT ![s] = [hash |-> c, size |-> SizeOf[c], mtime |-> Epoch]]
    BY <1>11 DEF Attach
  <2>2. [hash |-> c, size |-> SizeOf[c], mtime |-> Epoch] # Nothing
    BY SizeAssumption, EntryIsSomething DEF Epoch
  <2>3. Recorded' = [Recorded EXCEPT ![s] = c]
    BY <2>1, <2>2 DEF Recorded, CacheInv, TypeOK
  <2> QED
    BY <1>11, <2>3 DEF Attach, Promise!Declare, Recorded
<1> QED
  BY <1>1, <1>2, <1>4, <1>5, <1>6, <1>7, <1>8, <1>9, <1>10, <1>11
     DEF Next, Capturing, Promise!Next

\* A capture records what the file held at some moment of it, whether it read
\* the file or trusted its stat.
THEOREM CacheObserves == Spec => ImplementsObservation
<1> QED
  BY CacheInvariance, ObservationInit, ObservationStep, PTL
     DEF Spec, Safety, ImplementsObservation, Promise!Spec

=============================================================================
