-------------------------------- MODULE Mutex --------------------------------
(***************************************************************************)
(* What the lock of a session promises those who ask for it, whatever the   *)
(* filesystem does: at most one holder where the filesystem has locks, and  *)
(* an answer to every request.  SessionLock implements it; TurnScope is     *)
(* written on top of it.                                                    *)
(***************************************************************************)
CONSTANT Proc       \* the processes of one session

VARIABLES
    exclusive,      \* does the filesystem have locks?
    waiting,        \* processes that asked and have no answer yet
    holders         \* processes that were let in

mutexVars == <<exclusive, waiting, holders>>

Init ==
    /\ exclusive \in BOOLEAN
    /\ waiting = {}
    /\ holders = {}

Request(p) ==
    /\ p \notin waiting \cup holders
    /\ waiting' = waiting \cup {p}
    /\ UNCHANGED <<exclusive, holders>>

\* Let in; alone, where that can be had.
Grant(p) ==
    /\ p \in waiting
    /\ exclusive => holders = {}
    /\ waiting' = waiting \ {p}
    /\ holders' = holders \cup {p}
    /\ UNCHANGED exclusive

\* Told that the session is busy, or of an error; or dead.
Refuse(p) ==
    /\ p \in waiting
    /\ waiting' = waiting \ {p}
    /\ UNCHANGED <<exclusive, holders>>

Release(p) ==
    /\ p \in holders
    /\ holders' = holders \ {p}
    /\ UNCHANGED <<exclusive, waiting>>

Next == \E p \in Proc : Request(p) \/ Grant(p) \/ Refuse(p) \/ Release(p)

Safety == Init /\ [][Next]_mutexVars

Spec == Safety /\ \A p \in Proc : WF_mutexVars(Grant(p) \/ Refuse(p))
==============================================================================
