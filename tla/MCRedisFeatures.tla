--------------------------- MODULE MCRedisFeatures ---------------------------
(* Two versions for one user, a second content of the first version, and a   *)
(* snapshot whose total is not the sum of its counts.                        *)
EXTENDS FeatureReads

Snapshot(user, version, pv, events) ==
    [user |-> user, version |-> version, blank_id |-> FALSE, pv |-> pv,
     cart |-> 0, fav |-> 0, buy |-> 0, events |-> events, distinct_items |-> 1]

MCUsers == {1}
Old == Snapshot(1, 60000, 1, 1)
OldAgain == Snapshot(1, 60000, 2, 2)
New == Snapshot(1, 120000, 1, 1)
Wrong == Snapshot(1, 60000, 1, 2)
MCSnapshots == {Old, OldAgain, New, Wrong}
=============================================================================
