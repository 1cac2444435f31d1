------------------------- MODULE MCClickHouseIngest -------------------------
(* Two keys of different months; the first has two versions, and two         *)
(* contents of its first one.                                                *)
EXTENDS ClickHouseIngest

MCRow(key, version, content) ==
    [key |-> key, version |-> version, content |-> content]

MCKeys == {"k1", "k2"}
MCRows == {MCRow("k1", 1, "a"), MCRow("k1", 1, "b"), MCRow("k1", 2, "a"),
           MCRow("k2", 1, "a")}
MCPartitionOf == [k \in MCKeys |-> k]
=============================================================================
