----------------------------- MODULE SessionLock -----------------------------
(***************************************************************************)
(* The lock of one session (lock.rs): an advisory lock on a sentinel file   *)
(* that is created on demand and never unlinked, tried again and again      *)
(* until a budget is spent, and done without where the filesystem has none. *)
(* An attempt opens the sentinel and locks what it opened, in two steps;    *)
(* either may fail in any way the host knows, and a process may die at any  *)
(* moment, which is how the kernel comes to release a lock.                 *)
(***************************************************************************)
EXTENDS Integers

CONSTANTS
    Proc,       \* the processes that ask for the lock
    Nobody,     \* the holder of a lock that is free
    Inode,      \* files the sentinel's name may lead to
    NoFile,     \* the sentinel before it exists; a process with no handle
    Budget      \* LOCK_BUDGET, in naps

ASSUME LockMarkers == Nobody \notin Proc /\ NoFile \notin Inode
ASSUME BudgetAssumption == Budget \in Nat

VARIABLES
    host,       \* the platform, whether the filesystem has locks, and whether
                \*   the kernel may run out of records for them; fixed
    sentinel,   \* the file the sentinel's name leads to
    lockedBy,   \* the kernel's table of locks
    proc        \* what each process is doing

lockVars == <<host, sentinel, lockedBy, proc>>

Acquiring == {"opening", "locking", "waiting"}
Holding == {"held", "unenforced"}
Answered == {"busy", "failed"}
Stage == {"idle"} \cup Acquiring \cup Holding \cup Answered

Host ==
    {h \in [platform : {"unix", "windows"}, locking : BOOLEAN, scarce : BOOLEAN] :
       h.scarce => h.locking /\ h.platform = "unix"}

(***************************************************************************)
(* Errors: a kind, and a raw code, 0 where there is none.                   *)
(***************************************************************************)
UnsupportedUnix == {95, 38, 37, 45}
UnsupportedWindows == {1, 50}
SharingViolation == 32
ENOLCK == 37

Unsupported(platform) ==
    IF platform = "unix" THEN UnsupportedUnix ELSE UnsupportedWindows

\* `told' is history: the code that had it go on without the lock.
Process == [stage : Stage, file : Inode \cup {NoFile}, left : 0 .. Budget, told : Nat]

Idle == [stage |-> "idle", file |-> NoFile, left |-> 0, told |-> 0]

\* Mutant of Disposition: one table of codes for all platforms.
DispositionMerged(fault, site, platform) ==
    CASE fault.raw \in UnsupportedUnix \cup UnsupportedWindows -> "Unsupported"
      [] fault.raw = SharingViolation /\ site = "open" -> "Contended"
      [] OTHER ->
         CASE fault.kind = "WouldBlock" -> "Contended"
           [] fault.kind \in {"StaleNetworkFileHandle", "Interrupted"} -> "Transient"
           [] fault.kind = "Unsupported" -> "Unsupported"
           [] OTHER -> "Fatal"

\* classify: what an error means for the attempt.  The codes come first.
Disposition(fault, site, platform) ==
    CASE fault.raw \in Unsupported(platform) -> "Unsupported"
      [] /\ fault.raw \notin Unsupported(platform)
         /\ platform = "windows" /\ site = "open" /\ fault.raw = SharingViolation
            -> "Contended"
      [] OTHER ->
         CASE fault.kind = "WouldBlock" -> "Contended"
           [] fault.kind \in {"StaleNetworkFileHandle", "Interrupted"} -> "Transient"
           [] fault.kind = "Unsupported" -> "Unsupported"
           [] OTHER -> "Fatal"

\* What any filesystem may answer: interrupted, a stale handle, no permission
\* (EPERM is 1), an I/O error; on Windows a handle someone else has open, no
\* permission, and a code that means ENOSYS elsewhere.
CommonFaults(platform, site) ==
    IF platform = "unix"
    THEN {[kind |-> "Interrupted", raw |-> 4],
          [kind |-> "StaleNetworkFileHandle", raw |-> 116],
          [kind |-> "PermissionDenied", raw |-> 1],
          [kind |-> "Uncategorized", raw |-> 5]}
    ELSE {[kind |-> "Uncategorized", raw |-> SharingViolation],
          [kind |-> "PermissionDenied", raw |-> 5],
          [kind |-> "UnexpectedEof", raw |-> 38]}

\* What a filesystem without locks answers to a request for one.
LocklessFaults(platform) ==
    {[kind |-> "Unsupported", raw |-> 0]} \cup
    IF platform = "unix"
    THEN {[kind |-> "Unsupported", raw |-> 95], [kind |-> "Unsupported", raw |-> 38],
          [kind |-> "Uncategorized", raw |-> ENOLCK]}
    ELSE {[kind |-> "Uncategorized", raw |-> 1], [kind |-> "Unsupported", raw |-> 50]}

\* What a kernel answers that has locks, and no more room to record another.
ScarceFaults == {[kind |-> "Uncategorized", raw |-> ENOLCK]}

Faults(site) ==
    CommonFaults(host.platform, site)
        \cup (IF site = "lock" /\ ~host.locking THEN LocklessFaults(host.platform) ELSE {})
        \cup (IF site = "lock" /\ host.scarce THEN ScarceFaults ELSE {})

------------------------------------------------------------------------------
Init ==
    /\ host \in Host
    /\ sentinel = NoFile
    /\ lockedBy = [i \in Inode |-> Nobody]
    /\ proc = [p \in Proc |-> Idle]

\* Enter acquire.
Request(p) ==
    /\ proc[p].stage \in {"idle"} \cup Answered
    /\ proc' = [proc EXCEPT ![p] =
                  [stage |-> "opening", file |-> NoFile, left |-> Budget, told |-> 0]]
    /\ UNCHANGED <<host, sentinel, lockedBy>>

\* Mutant of AfterFault: the handle stays open while the process sleeps.
AfterFaultLeaking(p, site) ==
    \E fault \in Faults(site) :
      LET d == Disposition(fault, site, host.platform) IN
      proc' = [proc EXCEPT
        ![p].told = IF d = "Unsupported" THEN fault.raw ELSE 0,
        ![p].stage = CASE d = "Unsupported" -> "unenforced"
                       [] d \in {"Contended", "Transient"} -> "waiting"
                       [] d = "Fatal" -> "failed"]

\* What an attempt that failed with a fault leads to; its handle is dropped.
AfterFault(p, site) ==
    \E fault \in Faults(site) :
      LET d == Disposition(fault, site, host.platform) IN
      proc' = [proc EXCEPT
        ![p].file = NoFile,
        ![p].told = IF d = "Unsupported" THEN fault.raw ELSE 0,
        ![p].stage = CASE d = "Unsupported" -> "unenforced"
                       [] d \in {"Contended", "Transient"} -> "waiting"
                       [] d = "Fatal" -> "failed"]

\* A file nobody has open and no name leads to.
Unused(i) == i # sentinel /\ \A p \in Proc : proc[p].file # i

\* Open the sentinel, creating it if need be.
Open(p) ==
    /\ proc[p].stage = "opening"
    /\ \E i \in Inode :
         /\ IF sentinel = NoFile THEN Unused(i) ELSE i = sentinel
         /\ sentinel' = i
         /\ proc' = [proc EXCEPT ![p].stage = "locking", ![p].file = i]
    /\ UNCHANGED <<host, lockedBy>>

OpenFault(p) ==
    /\ proc[p].stage = "opening"
    /\ AfterFault(p, "open")
    /\ UNCHANGED <<host, sentinel, lockedBy>>

\* try_lock on what was opened.
Lock(p) ==
    /\ proc[p].stage = "locking"
    /\ host.locking
    /\ lockedBy[proc[p].file] = Nobody
    /\ lockedBy' = [lockedBy EXCEPT ![proc[p].file] = p]
    /\ proc' = [proc EXCEPT ![p].stage = "held"]
    /\ UNCHANGED <<host, sentinel>>

\* Someone else holds it: TryLockError::WouldBlock.
Contend(p) ==
    /\ proc[p].stage = "locking"
    /\ host.locking
    /\ lockedBy[proc[p].file] # Nobody
    /\ proc' = [proc EXCEPT ![p].stage = "waiting", ![p].file = NoFile]
    /\ UNCHANGED <<host, sentinel, lockedBy>>

LockFault(p) ==
    /\ proc[p].stage = "locking"
    /\ AfterFault(p, "lock")
    /\ UNCHANGED <<host, sentinel, lockedBy>>

\* The deadline has passed: Ok(None), the session is reported busy.
GiveUp(p) ==
    /\ proc[p].stage = "waiting"
    /\ proc[p].left = 0
    /\ proc' = [proc EXCEPT ![p].stage = "busy"]
    /\ UNCHANGED <<host, sentinel, lockedBy>>

\* Mutant of Sleep: the deadline is computed anew for every attempt.
SleepRenewed(p) ==
    /\ proc[p].stage = "waiting"
    /\ proc[p].left > 0
    /\ proc' = [proc EXCEPT ![p].stage = "opening", ![p].left = Budget]
    /\ UNCHANGED <<host, sentinel, lockedBy>>

\* Sleep and try again.  Attempts take time as well.
Sleep(p) ==
    /\ proc[p].stage = "waiting"
    /\ proc[p].left > 0
    /\ \E left \in 0 .. (proc[p].left - 1) :
         proc' = [proc EXCEPT ![p].stage = "opening", ![p].left = left]
    /\ UNCHANGED <<host, sentinel, lockedBy>>

\* The kernel closes what a process has open.
Closed(p) == [i \in Inode |-> IF lockedBy[i] = p THEN Nobody ELSE lockedBy[i]]

\* Mutant of Release: the sentinel is unlinked, as git does.
ReleaseUnlinking(p) ==
    /\ proc[p].stage \in Holding
    /\ proc' = [proc EXCEPT ![p] = Idle]
    /\ lockedBy' = Closed(p)
    /\ sentinel' = NoFile
    /\ UNCHANGED host

\* The guard is dropped.
Release(p) ==
    /\ proc[p].stage \in Holding
    /\ proc' = [proc EXCEPT ![p] = Idle]
    /\ lockedBy' = Closed(p)
    /\ UNCHANGED <<host, sentinel>>

\* A process dies, whatever it is doing.
Crash(p) ==
    /\ proc[p].stage \in Acquiring \cup Holding
    /\ proc' = [proc EXCEPT ![p] = Idle]
    /\ lockedBy' = Closed(p)
    /\ UNCHANGED <<host, sentinel>>

\* One step of acquire.
Attempt(p) ==
    \/ Open(p) \/ OpenFault(p)
    \/ Lock(p) \/ Contend(p) \/ LockFault(p)
    \/ GiveUp(p) \/ Sleep(p)

Next == \E p \in Proc : Request(p) \/ Attempt(p) \/ Release(p) \/ Crash(p)

Safety == Init /\ [][Next]_lockVars

\* A process that is in acquire keeps running; nothing is assumed of those
\* that hold the lock, nor that faults ever stop.
Spec == Safety /\ \A p \in Proc : WF_lockVars(Attempt(p))

------------------------------------------------------------------------------
(* Properties *)

\* The shape of the state: a process has the sentinel open exactly between
\* opening it and the end of the attempt, or for as long as it holds the lock;
\* the kernel's table names whoever holds an enforced guard, and nobody else
\* (lock.rs: the handle is dropped with the attempt, or lives in the guard).
TypeOK ==
    /\ host \in Host
    /\ sentinel \in Inode \cup {NoFile}
    /\ lockedBy \in [Inode -> Proc \cup {Nobody}]
    /\ proc \in [Proc -> Process]
    /\ \A p \in Proc : proc[p].file # NoFile <=> proc[p].stage \in {"locking", "held"}
    /\ \A i \in Inode, p \in Proc :
         lockedBy[i] = p <=> proc[p].stage = "held" /\ proc[p].file = i

\* No two processes hold enforced guards of one session, through whichever
\* file each of them locked; and where the filesystem has locks and the kernel
\* room to record them, no two hold guards of any kind, whichever of the faults
\* above came up on the way (lock.rs, SessionGuard: the sentinel is never
\* unlinked).
Exclusive ==
    \A p, q \in Proc :
      /\ p # q
      /\ proc[p].stage \in Holding
      /\ proc[q].stage \in Holding
      => /\ "unenforced" \in {proc[p].stage, proc[q].stage}
         /\ host.locking => host.scarce

\* A process goes on without the lock only on a filesystem that has none, or
\* where a kernel that may run out of records for locks has answered ENOLCK:
\* whatever else a filesystem with locks answers is taken for something else,
\* the codes included that mean `no locks' on the other platform (lock.rs,
\* Platform: silently proceeding unlocked "is the one outcome this module
\* exists to prevent"; the table has ENOLCK all the same).
NeverSilentlyUnlocked ==
    \A p \in Proc :
        proc[p].stage = "unenforced" =>
            ~host.locking \/ (host.scarce /\ proc[p].told = ENOLCK)

Promise == INSTANCE Mutex WITH
    exclusive <- host.locking /\ ~host.scarce,
    waiting <- {p \in Proc : proc[p].stage \in Acquiring},
    holders <- {p \in Proc : proc[p].stage \in Holding}

\* The loop of acquire is a mutex that answers every request: exclusion where
\* it can be had, and an end to every acquire within its budget, even when
\* errors never stop and the holder never lets go.
ImplementsMutex == Promise!Spec
==============================================================================
