----------------------------- MODULE MCCollection -----------------------------
(* Two workspaces; one session in each that captures, and in one of them a     *)
(* session a rewind may hand it to; manifests that share a blob; what one      *)
(* session captured has been there for a while.                               *)
EXTENDS Collection, TLC

CONSTANTS s1, s2, s3, m1, m2, m3, b1

MCHome == (s1 :> "here") @@ (s2 :> "there") @@ (s3 :> "here")
MCHolds == [m \in Manifest |-> {b1}]
MCFinds == (s1 :> {m1, m2}) @@ (s2 :> {m3}) @@ (s3 :> {})
MCHeirs == (s1 :> {s3}) @@ (s2 :> {}) @@ (s3 :> {})
MCFragile == {LogFile(s1), TurnFile("here", m1), UndoFile(s3), ManifestFile("there", m3)}

CapturedOnce ==
    /\ disk = {BlobFile(b1), ManifestFile("here", m1), LogFile(s1), TurnFile("here", m1)}
    /\ log = [s \in Session |-> IF s = s1 THEN <<m1>> ELSE <<>>]
    /\ undo = [s \in Session |-> {}]
    /\ partitions = {"here"}
    /\ fresh = {} /\ damaged = {}
    /\ writer = [s \in Session |-> NotWriting]
    /\ gc = NoGc
    /\ ops = 0 /\ faults = 0

SpecOnceCaptured == CapturedOnce /\ [][Next]_vars /\ Fairness
==============================================================================
