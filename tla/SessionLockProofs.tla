--------------------------- MODULE SessionLockProofs ---------------------------
(***************************************************************************)
(* Proofs about SessionLock, for every number of processes and every budget. *)
(***************************************************************************)
EXTENDS SessionLock, TLAPS

-----------------------------------------------------------------------------
(* Classification. *)

\* What any filesystem may answer is never taken to say that it has no locks:
\* a code that does on one platform means something else on the other.
LEMMA CommonFaultsClassified ==
    ASSUME NEW platform \in {"unix", "windows"}, NEW site \in {"open", "lock"},
           NEW fault \in CommonFaults(platform, site)
    PROVE  Disposition(fault, site, platform) # "Unsupported"
<1>1. CASE platform = "unix"
  BY <1>1 DEF CommonFaults, Disposition, Unsupported, UnsupportedUnix
<1>2. CASE platform = "windows"
  BY <1>2 DEF CommonFaults, Disposition, Unsupported, UnsupportedWindows, SharingViolation
<1> QED
  BY <1>1, <1>2

\* A disposition is one of four.
LEMMA DispositionType ==
    ASSUME NEW fault, NEW site, NEW platform
    PROVE  Disposition(fault, site, platform) \in
             {"Unsupported", "Contended", "Transient", "Fatal"}
BY DEF Disposition

\* What a failed attempt leads to: on a filesystem with locks, it goes on
\* without one only where the kernel has answered ENOLCK.
LEMMA FaultOutcome ==
    ASSUME TypeOK, NEW p \in Proc, NEW site \in {"open", "lock"}, AfterFault(p, site)
    PROVE  \E stage \in {"unenforced", "waiting", "failed"}, told \in Nat :
             /\ proc' = [proc EXCEPT ![p].file = NoFile, ![p].told = told, ![p].stage = stage]
             /\ stage = "unenforced" => ~ host.locking \/ (host.scarce /\ told = ENOLCK)
<1>1. PICK fault \in Faults(site) :
        LET d == Disposition(fault, site, host.platform) IN
        proc' = [proc EXCEPT
          ![p].file = NoFile,
          ![p].told = IF d = "Unsupported" THEN fault.raw ELSE 0,
          ![p].stage = CASE d = "Unsupported" -> "unenforced"
                         [] d \in {"Contended", "Transient"} -> "waiting"
                         [] d = "Fatal" -> "failed"]
  BY DEF AfterFault
<1> DEFINE d == Disposition(fault, site, host.platform)
           told == IF d = "Unsupported" THEN fault.raw ELSE 0
<1>2. d \in {"Unsupported", "Contended", "Transient", "Fatal"}
  BY DispositionType
<1>3. d = "Unsupported" => ~ host.locking \/ (host.scarce /\ fault.raw = ENOLCK)
  <2>1. host.platform \in {"unix", "windows"}
    BY DEF TypeOK, Host
  <2>2. host.locking => \/ fault \in CommonFaults(host.platform, site)
                        \/ host.scarce /\ fault \in ScarceFaults
    BY <1>1 DEF Faults
  <2>3. fault \in ScarceFaults => fault.raw = ENOLCK
    BY DEF ScarceFaults
  <2> QED
    BY <2>1, <2>2, <2>3, CommonFaultsClassified
<1>4. told \in Nat
  <2>1. fault.raw \in Nat
    BY <1>1 DEF Faults, CommonFaults, LocklessFaults, ScarceFaults, SharingViolation, ENOLCK
  <2> QED
    BY <2>1
<1>5. proc' = [proc EXCEPT
          ![p].file = NoFile,
          ![p].told = told,
          ![p].stage = CASE d = "Unsupported" -> "unenforced"
                         [] d \in {"Contended", "Transient"} -> "waiting"
                         [] d = "Fatal" -> "failed"]
  BY <1>1
<1>6. d = "Unsupported" => ~ host.locking \/ (host.scarce /\ told = ENOLCK)
  BY <1>3
<1> HIDE DEF d, told
<1>7. CASE d = "Unsupported"
  BY <1>4, <1>5, <1>6, <1>7
<1>8. CASE d \in {"Contended", "Transient"}
  BY <1>4, <1>5, <1>8
<1>9. CASE d = "Fatal"
  BY <1>4, <1>5, <1>9
<1> QED
  BY <1>2, <1>7, <1>8, <1>9

-----------------------------------------------------------------------------
(* Types and the table of locks. *)

\* What a process has open when it has nothing open, in a well-typed state.
LEMMA NothingOpen ==
    ASSUME TypeOK, NEW p \in Proc, proc[p].file = NoFile
    PROVE  \A i \in Inode : lockedBy[i] # p
BY LockMarkers DEF TypeOK

\* The initial state is well-typed.
LEMMA TypeInit == Init => TypeOK
BY LockMarkers, BudgetAssumption
   DEF Init, TypeOK, Process, Idle, Stage, Acquiring, Holding, Answered

\* Every step keeps the types, and the table in agreement with the guards.
LEMMA TypeStep == TypeOK /\ [Next]_lockVars => TypeOK'
<1> SUFFICES ASSUME TypeOK, [Next]_lockVars PROVE TypeOK'
  OBVIOUS
<1> USE LockMarkers, BudgetAssumption
<1>1. CASE UNCHANGED lockVars
  BY <1>1 DEF TypeOK, lockVars
<1>2. ASSUME NEW p \in Proc, Request(p) PROVE TypeOK'
  BY <1>2 DEF Request, TypeOK, Process, Stage, Acquiring, Holding, Answered
<1>3. ASSUME NEW p \in Proc, Open(p) PROVE TypeOK'
  BY <1>3 DEF Open, TypeOK, Process, Stage, Acquiring, Holding, Answered
<1>4. ASSUME NEW p \in Proc, NEW site \in {"open", "lock"}, AfterFault(p, site),
             proc[p].stage \in {"opening", "locking"},
             UNCHANGED <<host, sentinel, lockedBy>>
      PROVE  TypeOK'
  <2>1. PICK stage \in {"unenforced", "waiting", "failed"}, told \in Nat :
          proc' = [proc EXCEPT ![p].file = NoFile, ![p].told = told, ![p].stage = stage]
    BY <1>4, FaultOutcome
  <2>2. \A i \in Inode : lockedBy[i] # p
    BY <1>4 DEF TypeOK
  <2> QED
    BY <1>4, <2>1, <2>2 DEF TypeOK, Process, Stage, Acquiring, Holding, Answered
<1>5. ASSUME NEW p \in Proc, OpenFault(p) PROVE TypeOK'
  BY <1>4, <1>5 DEF OpenFault
<1>6. ASSUME NEW p \in Proc, Lock(p) PROVE TypeOK'
  BY <1>6 DEF Lock, TypeOK, Process, Stage, Acquiring, Holding, Answered
<1>7. ASSUME NEW p \in Proc, Contend(p) PROVE TypeOK'
  BY <1>7 DEF Contend, TypeOK, Process, Stage, Acquiring, Holding, Answered
<1>8. ASSUME NEW p \in Proc, LockFault(p) PROVE TypeOK'
  BY <1>4, <1>8 DEF LockFault
<1>9. ASSUME NEW p \in Proc, GiveUp(p) PROVE TypeOK'
  BY <1>9 DEF GiveUp, TypeOK, Process, Stage, Acquiring, Holding, Answered
<1>10. ASSUME NEW p \in Proc, Sleep(p) PROVE TypeOK'
  <2>1. PICK left \in 0 .. (proc[p].left - 1) :
          proc' = [proc EXCEPT ![p].stage = "opening", ![p].left = left]
    BY <1>10 DEF Sleep
  <2>2. left \in 0 .. Budget
    BY <2>1 DEF TypeOK, Process
  <2> QED
    BY <1>10, <2>1, <2>2
       DEF Sleep, TypeOK, Process, Stage, Acquiring, Holding, Answered
<1>11. ASSUME NEW p \in Proc, Release(p) PROVE TypeOK'
  BY <1>11 DEF Release, Closed, Idle, TypeOK, Process, Stage, Acquiring, Holding, Answered
<1>12. ASSUME NEW p \in Proc, Crash(p) PROVE TypeOK'
  BY <1>12 DEF Crash, Closed, Idle, TypeOK, Process, Stage, Acquiring, Holding, Answered
<1> QED
  BY <1>1, <1>2, <1>3, <1>5, <1>6, <1>7, <1>8, <1>9, <1>10, <1>11, <1>12
     DEF Next, Attempt

\* The states are well-typed, and the kernel's table names whoever holds an
\* enforced guard and nobody else.
THEOREM LockTypes == Spec => []TypeOK
<1>1. Init => TypeOK
  BY TypeInit
<1>2. TypeOK /\ [Next]_lockVars => TypeOK'
  BY TypeStep
<1> QED
  BY <1>1, <1>2, PTL DEF Spec, Safety

-----------------------------------------------------------------------------
(* Exclusion. *)

\* The inductive invariant: whatever file a process has open is the one the
\* sentinel's name leads to, for nothing ever unlinks it; and nobody goes on
\* without a lock but where there is none to be had.
LockInv ==
    /\ TypeOK
    /\ NeverSilentlyUnlocked
    /\ \A p \in Proc : proc[p].file \in {NoFile, sentinel}

\* It holds at first, ...
LEMMA LockInvInit == Init => LockInv
BY TypeInit DEF Init, LockInv, NeverSilentlyUnlocked, Idle

\* ... and every step keeps it.
LEMMA LockInvStep == LockInv /\ [Next]_lockVars => LockInv'
<1> SUFFICES ASSUME LockInv, [Next]_lockVars PROVE LockInv'
  OBVIOUS
<1>0. TypeOK /\ TypeOK'
  BY TypeStep DEF LockInv
<1> DEFINE Rest == /\ NeverSilentlyUnlocked
                   /\ \A p \in Proc : proc[p].file \in {NoFile, sentinel}
<1> SUFFICES Rest'
  BY <1>0 DEF LockInv
<1> USE <1>0, LockMarkers
<1>1. CASE UNCHANGED lockVars
  BY <1>1 DEF LockInv, NeverSilentlyUnlocked, lockVars
<1>2. ASSUME NEW p \in Proc, Request(p) PROVE Rest'
  BY <1>2 DEF Request, LockInv, NeverSilentlyUnlocked, TypeOK, Process
<1>3. ASSUME NEW p \in Proc, Open(p) PROVE Rest'
  BY <1>3 DEF Open, LockInv, NeverSilentlyUnlocked, TypeOK, Process
<1>4. ASSUME NEW p \in Proc, NEW site \in {"open", "lock"}, AfterFault(p, site),
             UNCHANGED <<host, sentinel, lockedBy>>
      PROVE  Rest'
  <2>1. PICK stage \in {"unenforced", "waiting", "failed"}, told \in Nat :
          /\ proc' = [proc EXCEPT ![p].file = NoFile, ![p].told = told, ![p].stage = stage]
          /\ stage = "unenforced" => ~ host.locking \/ (host.scarce /\ told = ENOLCK)
    BY <1>4, FaultOutcome
  <2> QED
    BY <1>4, <2>1 DEF LockInv, NeverSilentlyUnlocked, TypeOK, Process
<1>5. ASSUME NEW p \in Proc, OpenFault(p) PROVE Rest'
  BY <1>4, <1>5 DEF OpenFault
<1>6. ASSUME NEW p \in Proc, Lock(p) PROVE Rest'
  BY <1>6 DEF Lock, LockInv, NeverSilentlyUnlocked, TypeOK, Process
<1>7. ASSUME NEW p \in Proc, Contend(p) PROVE Rest'
  BY <1>7 DEF Contend, LockInv, NeverSilentlyUnlocked, TypeOK, Process
<1>8. ASSUME NEW p \in Proc, LockFault(p) PROVE Rest'
  BY <1>4, <1>8 DEF LockFault
<1>9. ASSUME NEW p \in Proc, GiveUp(p) PROVE Rest'
  BY <1>9 DEF GiveUp, LockInv, NeverSilentlyUnlocked, TypeOK, Process
<1>10. ASSUME NEW p \in Proc, Sleep(p) PROVE Rest'
  BY <1>10 DEF Sleep, LockInv, NeverSilentlyUnlocked, TypeOK, Process
<1>11. ASSUME NEW p \in Proc, Release(p) PROVE Rest'
  BY <1>11 DEF Release, Idle, LockInv, NeverSilentlyUnlocked, TypeOK, Process
<1>12. ASSUME NEW p \in Proc, Crash(p) PROVE Rest'
  BY <1>12 DEF Crash, Idle, LockInv, NeverSilentlyUnlocked, TypeOK, Process
<1> QED
  BY <1>1, <1>2, <1>3, <1>5, <1>6, <1>7, <1>8, <1>9, <1>10, <1>11, <1>12
     DEF Next, Attempt

\* Whoever holds an enforced guard holds the lock of the one sentinel.
LEMMA HolderIsInTheTable ==
    ASSUME LockInv, NEW p \in Proc, proc[p].stage = "held"
    PROVE  sentinel \in Inode /\ lockedBy[sentinel] = p
<1>1. proc[p].file # NoFile /\ proc[p].file \in Inode
  BY LockMarkers DEF LockInv, TypeOK, Process
<1>2. proc[p].file = sentinel
  BY <1>1 DEF LockInv
<1> QED
  BY <1>1, <1>2 DEF LockInv, TypeOK

\* Where there are locks and room for them, every guard is enforced.
LEMMA GuardsAreEnforced ==
    ASSUME LockInv, host.locking, ~ host.scarce, NEW p \in Proc, proc[p].stage \in Holding
    PROVE  proc[p].stage = "held"
BY DEF LockInv, NeverSilentlyUnlocked, Holding

\* The invariant excludes.
LEMMA LockInvExcludes == LockInv => Exclusive
<1> SUFFICES ASSUME LockInv, NEW p \in Proc, NEW q \in Proc, p # q,
                    proc[p].stage \in Holding, proc[q].stage \in Holding
             PROVE  /\ "unenforced" \in {proc[p].stage, proc[q].stage}
                    /\ host.locking => host.scarce
  BY DEF Exclusive
<1>1. ~ (proc[p].stage = "held" /\ proc[q].stage = "held")
  BY HolderIsInTheTable
<1>2. "unenforced" \in {proc[p].stage, proc[q].stage}
  BY <1>1 DEF Holding
<1>3. host.locking => host.scarce
  BY <1>1, GuardsAreEnforced DEF LockInv, TypeOK, Host
<1> QED
  BY <1>2, <1>3

\* The invariant holds throughout.
LEMMA LockInvariance == Safety => []LockInv
<1> QED
  BY LockInvInit, LockInvStep, PTL DEF Safety

\* No two processes hold enforced guards of one session, and none hold any two
\* guards where the filesystem has locks and the kernel room to record them,
\* whichever of the modelled faults came up on the way to them.
THEOREM Exclusion == Spec => []Exclusive
<1> QED
  BY LockInvariance, LockInvExcludes, PTL DEF Spec

\* Nobody goes on without a lock on a filesystem that has locks, unless its
\* kernel has answered ENOLCK, which the table takes for a filesystem without.
THEOREM NoSilentUnlocking == Spec => []NeverSilentlyUnlocked
<1>1. LockInv => NeverSilentlyUnlocked
  BY DEF LockInv
<1> QED
  BY <1>1, LockInvariance, PTL DEF Spec

-----------------------------------------------------------------------------
(* Refinement. *)

\* Nobody waits for or holds the lock at first.
LEMMA MutexInit == Init => Promise!Init
BY DEF Init, Promise!Init, Host, Idle, Acquiring, Holding

\* Every step of the loop is one of the mutex, or none.
LEMMA MutexStep ==
    LockInv /\ LockInv' /\ [Next]_lockVars => [Promise!Next]_(Promise!mutexVars)
<1> SUFFICES ASSUME LockInv, LockInv', [Next]_lockVars
             PROVE  [Promise!Next]_(Promise!mutexVars)
  OBVIOUS
<1> DEFINE W == {p \in Proc : proc[p].stage \in Acquiring}
           H == {p \in Proc : proc[p].stage \in Holding}
<1>0. TypeOK
  BY DEF LockInv
<1>fault. ASSUME NEW p \in Proc, NEW site \in {"open", "lock"}, AfterFault(p, site)
          PROVE  \E stage \in {"unenforced", "waiting", "failed"} :
                   /\ \A q \in Proc \ {p} : proc'[q] = proc[q]
                   /\ proc'[p].stage = stage
                   /\ stage = "unenforced" => ~ (host.locking /\ ~ host.scarce)
  <2>1. PICK stage \in {"unenforced", "waiting", "failed"}, told \in Nat :
          /\ proc' = [proc EXCEPT ![p].file = NoFile, ![p].told = told, ![p].stage = stage]
          /\ stage = "unenforced" => ~ host.locking \/ (host.scarce /\ told = ENOLCK)
    BY <1>0, <1>fault, FaultOutcome
  <2> QED
    BY <1>0, <2>1 DEF TypeOK, Process
<1> USE <1>0 DEF TypeOK, Process, Acquiring, Holding, Answered
<1>1. CASE UNCHANGED lockVars
  BY <1>1 DEF lockVars, Promise!mutexVars
<1>2. ASSUME NEW p \in Proc, Request(p) PROVE Promise!Request(p)
  BY <1>2 DEF Request, Promise!Request
<1>3. ASSUME NEW p \in Proc, p \in W, UNCHANGED <<host, sentinel>>,
             NEW stage \in {"opening", "locking", "waiting"},
             \A q \in Proc \ {p} : proc'[q] = proc[q], proc'[p].stage = stage
      PROVE  UNCHANGED Promise!mutexVars
  BY <1>3 DEF Promise!mutexVars
<1>4. ASSUME NEW p \in Proc, p \in W, UNCHANGED host,
             NEW stage \in {"idle", "busy", "failed"},
             \A q \in Proc \ {p} : proc'[q] = proc[q], proc'[p].stage = stage
      PROVE  Promise!Refuse(p)
  BY <1>4 DEF Promise!Refuse
<1>5. ASSUME NEW p \in Proc, p \in W, UNCHANGED host,
             NEW stage \in {"held", "unenforced"}, host.locking /\ ~ host.scarce => H = {},
             \A q \in Proc \ {p} : proc'[q] = proc[q], proc'[p].stage = stage
      PROVE  Promise!Grant(p)
  BY <1>5 DEF Promise!Grant
<1>6. ASSUME NEW p \in Proc, p \in H, UNCHANGED host, proc' = [proc EXCEPT ![p] = Idle]
      PROVE  Promise!Release(p)
  BY <1>6 DEF Promise!Release, Idle
<1>7. ASSUME NEW p \in Proc, NEW site \in {"open", "lock"}, AfterFault(p, site),
             p \in W, UNCHANGED <<host, sentinel>>
      PROVE  UNCHANGED Promise!mutexVars \/ Promise!Refuse(p) \/ Promise!Grant(p)
  <2>1. PICK stage \in {"unenforced", "waiting", "failed"} :
          /\ \A q \in Proc \ {p} : proc'[q] = proc[q]
          /\ proc'[p].stage = stage
          /\ stage = "unenforced" => ~ (host.locking /\ ~ host.scarce)
    BY <1>7, <1>fault
  <2>3. CASE stage = "waiting"
    BY <1>3, <1>7, <2>1, <2>3
  <2>4. CASE stage = "failed"
    BY <1>4, <1>7, <2>1, <2>4
  <2>5. CASE stage = "unenforced"
    BY <1>5, <1>7, <2>1, <2>5
  <2> QED
    BY <2>3, <2>4, <2>5
<1>8. ASSUME NEW p \in Proc, Lock(p) PROVE Promise!Grant(p)
  <2>1. host.locking /\ ~ host.scarce => H = {}
    <3> SUFFICES ASSUME host.locking, ~ host.scarce, NEW q \in Proc, q \in H PROVE FALSE
      OBVIOUS
    <3>1. lockedBy[sentinel] = q
      BY HolderIsInTheTable, GuardsAreEnforced
    <3>2. proc[p].file = sentinel
      BY <1>8 DEF Lock, LockInv
    <3> QED
      BY <1>8, <3>1, <3>2, LockMarkers DEF Lock
  <2>2. (\A q \in Proc \ {p} : proc'[q] = proc[q]) /\ proc'[p].stage = "held"
    BY <1>8 DEF Lock
  <2>3. p \in W /\ UNCHANGED host
    BY <1>8 DEF Lock
  <2> QED
    BY <1>5, <2>1, <2>2, <2>3
<1>9. ASSUME NEW p \in Proc, Attempt(p)
      PROVE  UNCHANGED Promise!mutexVars \/ Promise!Refuse(p) \/ Promise!Grant(p)
  <2>1. CASE Open(p)
    <3>1. p \in W /\ UNCHANGED host /\ proc'[p].stage = "locking"
            /\ \A q \in Proc \ {p} : proc'[q] = proc[q]
      BY <2>1 DEF Open
    <3> QED
      BY <3>1 DEF Promise!mutexVars
  <2>2. CASE OpenFault(p)
    BY <1>7, <2>2 DEF OpenFault
  <2>3. CASE Lock(p)
    BY <1>8, <2>3
  <2>4. CASE Contend(p)
    BY <1>3, <2>4 DEF Contend
  <2>5. CASE LockFault(p)
    BY <1>7, <2>5 DEF LockFault
  <2>6. CASE GiveUp(p)
    BY <1>4, <2>6 DEF GiveUp
  <2>7. CASE Sleep(p)
    BY <1>3, <2>7 DEF Sleep
  <2> QED
    BY <1>9, <2>1, <2>2, <2>3, <2>4, <2>5, <2>6, <2>7 DEF Attempt
<1>10. ASSUME NEW p \in Proc, Release(p) PROVE Promise!Release(p)
  BY <1>6, <1>10 DEF Release
<1>11. ASSUME NEW p \in Proc, Crash(p) PROVE Promise!Refuse(p) \/ Promise!Release(p)
  <2>1. CASE p \in H
    BY <1>6, <1>11, <2>1 DEF Crash
  <2>2. CASE p \in W
    BY <1>4, <1>11, <2>2 DEF Crash, Idle
  <2> QED
    BY <1>11, <2>1, <2>2 DEF Crash
<1> QED
  BY <1>1, <1>2, <1>9, <1>10, <1>11 DEF Next, Promise!Next

\* The lock of a session, with its retries, faults and crashes, is a mutex.
THEOREM LockIsMutex == Spec => Promise!Safety
<1> QED
  BY LockInvariance, MutexInit, MutexStep, PTL DEF Spec, Safety, Promise!Safety
=============================================================================
