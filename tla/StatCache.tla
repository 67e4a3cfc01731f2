------------------------------ MODULE StatCache ------------------------------
(***************************************************************************)
(* Captures of one file with the stat cache (checkpoint.rs, manifest.rs):   *)
(* if size and modification time are those of the previous entry its hash   *)
(* is used again, otherwise the file is read.  Time is explicit: a write is *)
(* stamped up to Lag late, so that two writes may bear one stamp, and a     *)
(* stamp is trusted only if it was Window old when the capture began.  A    *)
(* capture looks at the clock, at the stat and at the content in separate   *)
(* steps, and the file may be written between any two of them.              *)
(*                                                                          *)
(* One file is enough: a capture looks at each file by itself, at moments   *)
(* of its own, and only the clock is read once for all.                     *)
(***************************************************************************)
EXTENDS Integers

CONSTANTS
    Session,
    Content,
    SizeOf,     \* the size of each content
    Nothing,    \* no entry
    Lag,        \* how far a stamp may precede its write: the clock's tick
    Window,     \* RACY_WINDOW
    LastWrite,  \* bound: writes happen up to this moment
    MaxTime     \* bound: the clock stops here

ASSUME SizeAssumption == SizeOf \in [Content -> Nat]
ASSUME ClockAssumption ==
    /\ Lag \in Nat /\ Window \in Nat /\ LastWrite \in Nat /\ MaxTime \in Nat
    /\ Lag < Window
ASSUME NothingAssumption ==
    Nothing \notin Content /\ Nothing \notin [hash : Content, size : Nat, mtime : Nat]

VARIABLES
    clock,
    disk,       \* content and stamp of the file
    latest,     \* the entry in the latest manifest of each session
    capture,    \* captures under way
    during,     \* what the file held since each of them began (history)
    parity      \* flips with each capture that ended with an entry (history)

vars == <<clock, disk, latest, capture, during, parity>>

\* The stamp of an entry that is not to be trusted, and of files from archives.
Epoch == 0

Entry == [hash : Content, size : Nat, mtime : Nat]

File == [content : Content, mtime : Nat]

Capture == [stage : {"idle", "begun", "stated"}, now : Nat, mtime : Nat]

NoCapture == [stage |-> "idle", now |-> 0, mtime |-> 0]

------------------------------------------------------------------------------
\* Mutant of StatMatches: the marker is compared like any other stamp.
StatMatchesMarker(entry, file) ==
    /\ entry # Nothing
    /\ entry.size = SizeOf[file.content]
    /\ entry.mtime = file.mtime

\* stat_matches: a marked entry matches no file, an epoch file's least of all.
StatMatches(entry, file) ==
    /\ entry # Nothing
    /\ entry.mtime # Epoch
    /\ entry.size = SizeOf[file.content]
    /\ entry.mtime = file.mtime

\* Mutant of Settled: a window no wider than the tick.
SettledInTick(mtime, now) == now - mtime >= Lag

\* Mutant of Settled: no window.
SettledAlways(mtime, now) == TRUE

\* settled_before; a stamp in the future is not settled.
Settled(mtime, now) == now - mtime >= Window

\* The fingerprint recorded for a file that was read.
Fingerprint(mtime, now) == IF Settled(mtime, now) THEN mtime ELSE Epoch

------------------------------------------------------------------------------
Init ==
    /\ clock = Lag + 1
    /\ disk \in [content : Content, mtime : {Epoch, 1}]
    /\ latest = [s \in Session |-> Nothing]
    /\ capture = [s \in Session |-> NoCapture]
    /\ during = [s \in Session |-> {}]
    /\ parity = [s \in Session |-> FALSE]

Tick ==
    /\ clock < MaxTime
    /\ clock' = clock + 1
    /\ UNCHANGED <<disk, latest, capture, during, parity>>

Becomes(file) ==
    /\ clock <= LastWrite
    /\ disk' = file
    /\ during' = [s \in Session |->
         IF during[s] = {} THEN {} ELSE during[s] \cup {file.content}]
    /\ UNCHANGED <<clock, latest, capture, parity>>

\* Any program writes the file; the clock of the filesystem stamps it.
Write ==
    \E c \in Content, m \in (clock - Lag) .. clock :
      Becomes([content |-> c, mtime |-> m])

\* An archive puts a file there that carries the epoch.
Unpack == \E c \in Content : Becomes([content |-> c, mtime |-> Epoch])

\* capture: the instant every stamp will be judged by.
Begin(s) ==
    /\ capture[s].stage = "idle"
    /\ capture' = [capture EXCEPT ![s] =
                     [stage |-> "begun", now |-> clock, mtime |-> 0]]
    /\ during' = [during EXCEPT ![s] = {disk.content}]
    /\ UNCHANGED <<clock, disk, latest, parity>>

End(s, entry) ==
    /\ latest' = [latest EXCEPT ![s] = entry]
    /\ capture' = [capture EXCEPT ![s] = NoCapture]
    /\ during' = [during EXCEPT ![s] = {}]
    /\ parity' = [parity EXCEPT ![s] = ~@]
    /\ UNCHANGED <<clock, disk>>

\* The stat matches the previous entry, which is recorded again.
Reuse(s) ==
    /\ capture[s].stage = "begun"
    /\ StatMatches(latest[s], disk)
    /\ End(s, latest[s])

\* It does not: the stat is kept, the file will be read.
Stat(s) ==
    /\ capture[s].stage = "begun"
    /\ ~StatMatches(latest[s], disk)
    /\ capture' = [capture EXCEPT ![s].stage = "stated", ![s].mtime = disk.mtime]
    /\ UNCHANGED <<clock, disk, latest, during, parity>>

\* Mutant of Read: an entry whose content has not changed is kept as it was.
ReadKeeping(s) ==
    /\ capture[s].stage = "stated"
    /\ End(s, IF latest[s] # Nothing /\ latest[s].hash = disk.content THEN latest[s]
              ELSE [hash |-> disk.content,
                    size |-> SizeOf[disk.content],
                    mtime |-> Fingerprint(capture[s].mtime, capture[s].now)])

\* Size and hash are of what is read; the stamp is that of the stat.
Read(s) ==
    /\ capture[s].stage = "stated"
    /\ End(s, [hash |-> disk.content,
               size |-> SizeOf[disk.content],
               mtime |-> Fingerprint(capture[s].mtime, capture[s].now)])

\* The capture dies, or another file of it cannot be stored.
Abandon(s) ==
    /\ capture[s].stage # "idle"
    /\ capture' = [capture EXCEPT ![s] = NoCapture]
    /\ during' = [during EXCEPT ![s] = {}]
    /\ UNCHANGED <<clock, disk, latest, parity>>

\* attach_pre_edit: an image that comes with no stat.
Attach(s) ==
    /\ capture[s].stage = "idle"
    /\ latest[s] = Nothing
    /\ \E c \in Content :
         latest' = [latest EXCEPT ![s] =
                      [hash |-> c, size |-> SizeOf[c], mtime |-> Epoch]]
    /\ UNCHANGED <<clock, disk, capture, during, parity>>

Capturing(s) == Begin(s) \/ Reuse(s) \/ Stat(s) \/ Read(s)

Next ==
    \/ Tick \/ Write \/ Unpack
    \/ \E s \in Session : Capturing(s) \/ Abandon(s) \/ Attach(s)

Safety == Init /\ [][Next]_vars

\* Time passes, each session is captured again and again, and not all of its
\* captures fail at the same point.
Spec ==
    /\ Safety
    /\ WF_vars(Tick)
    /\ \A s \in Session : /\ WF_vars(Begin(s))
                          /\ SF_vars(Reuse(s)) /\ SF_vars(Stat(s)) /\ SF_vars(Read(s))

------------------------------------------------------------------------------
(* Properties *)

\* The shape of the state; a fingerprint that may be trusted is of a stamp
\* that was a window old, and nothing bears a stamp of the future.
TypeOK ==
    /\ clock \in Nat
    /\ disk \in File /\ disk.mtime <= clock
    /\ latest \in [Session -> Entry \cup {Nothing}]
    /\ \A s \in Session : latest[s] # Nothing =>
         latest[s].mtime = Epoch \/ latest[s].mtime + Window <= clock
    /\ capture \in [Session -> Capture]
    /\ \A s \in Session : capture[s].now <= clock
    /\ during \in [Session -> SUBSET Content]
    /\ parity \in [Session -> BOOLEAN]
    /\ \A s \in Session : during[s] = {} <=> capture[s].stage = "idle"

\* A fingerprint that matches is proof: the file holds what the entry records,
\* although it may have been written since, more than once within one tick of
\* its clock, or between the stat and the read of the capture that made the
\* entry (checkpoint.rs, RACY_WINDOW).
FingerprintIsProof ==
    \A s \in Session :
      StatMatches(latest[s], disk) => latest[s].hash = disk.content

Promise == INSTANCE Observation WITH
    content <- disk.content,
    recorded <- [s \in Session |->
                   IF latest[s] = Nothing THEN Nothing ELSE latest[s].hash]

\* Whether it reads the file or not, a capture records what the file held at
\* some moment of that capture, never what an earlier one had seen.
ImplementsObservation == Promise!Spec

\* Doubt does not last: once writing has ended, every session comes to record
\* a fingerprint that matches the file for good, unless the file carries the
\* epoch (checkpoint.rs, RACY_FINGERPRINT: until a later capture sees the file
\* settled and records a real one).
DoubtEnds ==
    \A s \in Session : <>[](StatMatches(latest[s], disk) \/ disk.mtime = Epoch)
==============================================================================
