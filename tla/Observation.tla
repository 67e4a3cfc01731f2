----------------------------- MODULE Observation -----------------------------
(***************************************************************************)
(* What the captures of a file promise: each records what the file held at  *)
(* some moment between the capture's start and its end.  StatCache, which   *)
(* often does not read the file at all, implements this.                    *)
(***************************************************************************)
CONSTANTS
    Session,    \* each captures the file for itself
    Content,    \* what the file may hold
    Nothing     \* recorded by a session that has no entry for it

VARIABLES
    content,    \* what the file holds
    during,     \* what it has held since each capture under way began; else {}
    recorded,   \* what each session recorded last
    parity      \* flips with each capture that ended with a record

observationVars == <<content, during, recorded, parity>>

Init ==
    /\ content \in Content
    /\ during = [s \in Session |-> {}]
    /\ recorded = [s \in Session |-> Nothing]
    /\ parity = [s \in Session |-> FALSE]

Change ==
    \E c \in Content :
      /\ content' = c
      /\ during' = [s \in Session |->
                      IF during[s] = {} THEN {} ELSE during[s] \cup {c}]
      /\ UNCHANGED <<recorded, parity>>

Begin(s) ==
    /\ during[s] = {}
    /\ during' = [during EXCEPT ![s] = {content}]
    /\ UNCHANGED <<content, recorded, parity>>

Record(s) ==
    \E c \in during[s] :
      /\ recorded' = [recorded EXCEPT ![s] = c]
      /\ during' = [during EXCEPT ![s] = {}]
      /\ parity' = [parity EXCEPT ![s] = ~@]
      /\ UNCHANGED content

\* The capture fails, or dies.
Abandon(s) ==
    /\ during[s] # {}
    /\ during' = [during EXCEPT ![s] = {}]
    /\ UNCHANGED <<content, recorded, parity>>

\* A declaration states what the file held, if there is no record of it.
Declare(s) ==
    /\ recorded[s] = Nothing
    /\ \E c \in Content : recorded' = [recorded EXCEPT ![s] = c]
    /\ UNCHANGED <<content, during, parity>>

Next ==
    \/ Change
    \/ \E s \in Session : Begin(s) \/ Record(s) \/ Abandon(s) \/ Declare(s)

Spec == Init /\ [][Next]_observationVars
==============================================================================
