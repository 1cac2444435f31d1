--------------------------- MODULE FeatureRegister ---------------------------
(***************************************************************************)
(* What the online feature store promises (SEMANTICS.md:24-27), without    *)
(* topic, consumer, offsets or crashes: per user one snapshot, replaced    *)
(* only by one of a greater version, and forgotten when it is too old.     *)
(***************************************************************************)
EXTENDS Integers

CONSTANTS
    Users,
    Snapshots,  \* records with fields user and version
    Absent

VARIABLE served

Init == served = [u \in Users |-> Absent]

\* A duplicate or stale snapshot changes nothing.
Offer(s) ==
    /\ served[s.user] = Absent \/ s.version > served[s.user].version
    /\ served' = [served EXCEPT ![s.user] = s]

Forget(u) == served' = [served EXCEPT ![u] = Absent]

Next ==
    \/ \E s \in Snapshots : Offer(s)
    \/ \E u \in Users : Forget(u)

Spec == Init /\ [][Next]_served
=============================================================================
