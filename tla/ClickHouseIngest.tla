-------------------------- MODULE ClickHouseIngest --------------------------
(***************************************************************************)
(* One ClickHouse table fed from one Kafka topic: a Kafka Engine consumer  *)
(* takes a block of rows, the materialized view inserts it into a          *)
(* ReplacingMergeTree(record_version) table as one part per partition, and *)
(* the offset is committed when all of it is in.  Background merges        *)
(* replace parts; the canonical view reads with FINAL.                     *)
(*                                                                         *)
(* The four behavior tables and the catalog table differ in their columns  *)
(* only: a row here has its ORDER BY key, its version and its content.     *)
(* PARTITION BY is a function of the key in each of them.                  *)
(***************************************************************************)
EXTENDS Integers, Sequences

CONSTANTS
    Keys,
    Rows,         \* rows the topic may hold: [key, version, content]
    PartitionOf,  \* key -> partition
    MaxTopic,     \* bound: rows ever written to the topic
    MaxAborts     \* bound: blocks given up before their commit

ASSUME IngestBounds == MaxTopic \in Nat /\ MaxAborts \in Nat
ASSUME RowsAssumption ==
    /\ DOMAIN PartitionOf = Keys
    /\ \A r \in Rows : r.key \in Keys /\ r.version \in Int

VARIABLES
    topic,
    committed,  \* offset of the consumer group
    polled,     \* last offset of the block in hand; committed when there is none
    waiting,    \* partitions of that block not inserted yet
    parts,      \* active parts, oldest first: [partition, rows], where rows
                \* has for each key 0 or the offset of its row
    aborts

vars == <<topic, committed, polled, waiting, parts, aborts>>

Partitions == {PartitionOf[k] : k \in Keys}
Block == (committed + 1)..polled

-----------------------------------------------------------------------------
(* ReplacingMergeTree: the greater version stays; of equals, the later.    *)

\* Mutant: ReplacingMergeTree without its version column.
LastInserted(earlier, later) ==
    IF later # 0 THEN later ELSE earlier

Replacing(earlier, later) ==
    IF later # 0 /\ (earlier = 0 \/ topic[later].version >= topic[earlier].version)
    THEN later ELSE earlier

\* The block's own rows, replaced as it is inserted.
Survivor(k) ==
    LET offsets == {o \in Block : topic[o].key = k}
    IN  IF offsets = {} THEN 0
        ELSE CHOOSE o \in offsets :
                \A p \in offsets : \/ topic[p].version < topic[o].version
                                   \/ topic[p].version = topic[o].version /\ p <= o

BlockPart(partition) ==
    [partition |-> partition,
     rows |-> [k \in Keys |-> IF PartitionOf[k] = partition THEN Survivor(k) ELSE 0]]

\* FINAL merges at reading time what has not been merged yet.
Canonical(k) ==
    LET holders == {i \in DOMAIN parts : parts[i].rows[k] # 0}
        version(i) == topic[parts[i].rows[k]].version
    IN  IF holders = {} THEN 0
        ELSE parts[CHOOSE i \in holders :
                      \A j \in holders : \/ version(j) < version(i)
                                         \/ version(j) = version(i) /\ j <= i].rows[k]

-----------------------------------------------------------------------------
Init ==
    /\ topic = << >>
    /\ committed = 0
    /\ polled = 0
    /\ waiting = {}
    /\ parts = << >>
    /\ aborts = 0

Produce(row) ==
    /\ Len(topic) < MaxTopic
    /\ topic' = Append(topic, row)
    /\ UNCHANGED <<committed, polled, waiting, parts, aborts>>

\* Mutant: the offset is stored as soon as the block is read.
PollAndCommit(last) ==
    /\ polled = committed
    /\ last \in (committed + 1)..Len(topic)
    /\ polled' = last
    /\ committed' = last
    /\ waiting' = {PartitionOf[topic[o].key] : o \in (committed + 1)..last}
    /\ UNCHANGED <<topic, parts, aborts>>

\* Mutant: a consumer whose block failed is not scheduled again.
PollUntilFailure(last) ==
    /\ aborts = 0
    /\ polled = committed
    /\ last \in (committed + 1)..Len(topic)
    /\ polled' = last
    /\ waiting' = {PartitionOf[topic[o].key] : o \in (committed + 1)..last}
    /\ UNCHANGED <<topic, committed, parts, aborts>>

\* A block ends where the consumer's limits put it: anywhere.
Poll(last) ==
    /\ polled = committed
    /\ last \in (committed + 1)..Len(topic)
    /\ polled' = last
    /\ waiting' = {PartitionOf[topic[o].key] : o \in (committed + 1)..last}
    /\ UNCHANGED <<topic, committed, parts, aborts>>

\* Each partition's part becomes visible by itself.
Insert(partition) ==
    /\ partition \in waiting
    /\ parts' = Append(parts, BlockPart(partition))
    /\ waiting' = waiting \ {partition}
    /\ UNCHANGED <<topic, committed, polled, aborts>>

Commit ==
    /\ polled > committed
    /\ waiting = {}
    /\ committed' = polled
    /\ UNCHANGED <<topic, polled, waiting, parts, aborts>>

\* An insert fails, the commit fails or the server dies: what is inserted
\* stays, and the rows after the committed offset are read again, cut into
\* blocks anew.
Abort ==
    /\ polled > committed
    /\ aborts < MaxAborts
    /\ aborts' = aborts + 1
    /\ polled' = committed
    /\ waiting' = {}
    /\ UNCHANGED <<topic, committed, parts>>

\* Mutant: two parts are merged over a third that stands between them.
MergeAcross(i, j) ==
    /\ i < j
    /\ parts[i].partition = parts[j].partition
    /\ LET merged == [parts[i] EXCEPT !.rows =
                         [k \in Keys |-> Replacing(@[k], parts[j].rows[k])]]
       IN  parts' = [x \in 1..(Len(parts) - 1) |->
                        IF x = i THEN merged
                        ELSE IF x < j THEN parts[x] ELSE parts[x + 1]]
    /\ UNCHANGED <<topic, committed, polled, waiting, aborts>>

\* A background merge of two parts with none of their partition in between.
Merge(i, j) ==
    /\ i < j
    /\ parts[i].partition = parts[j].partition
    /\ \A x \in (i + 1)..(j - 1) : parts[x].partition # parts[i].partition
    /\ LET merged == [parts[i] EXCEPT !.rows =
                         [k \in Keys |-> Replacing(@[k], parts[j].rows[k])]]
       IN  parts' = [x \in 1..(Len(parts) - 1) |->
                        IF x = i THEN merged
                        ELSE IF x < j THEN parts[x] ELSE parts[x + 1]]
    /\ UNCHANGED <<topic, committed, polled, waiting, aborts>>

Ingest ==
    \/ \E last \in 1..Len(topic) : Poll(last)
    \/ \E partition \in waiting : Insert(partition)
    \/ Commit

Next ==
    \/ \E row \in Rows : Produce(row)
    \/ \E last \in 1..Len(topic) : Poll(last)
    \/ \E partition \in waiting : Insert(partition)
    \/ Commit
    \/ Abort
    \/ \E i, j \in DOMAIN parts : Merge(i, j)

Spec == Init /\ [][Next]_vars

\* The server's consumer runs; merges are never owed.
FairSpec == Spec /\ WF_vars(Ingest)

-----------------------------------------------------------------------------
\* When a key's rows are all committed and no block is in hand, the canonical
\* view shows its row of the greatest version and, of those, the last written:
\* however the rows were cut into blocks, read again, inserted and merged.
CommittedIsCanonical ==
    \A k \in Keys :
        LET written == {o \in 1..Len(topic) : topic[o].key = k}
        IN  polled = committed /\ written # {} /\ written \subseteq 1..committed =>
                LET shown == Canonical(k)
                IN  /\ shown \in written
                    /\ \A o \in written :
                          \/ topic[o].version < topic[shown].version
                          \/ topic[o].version = topic[shown].version /\ o <= shown

\* A merge changes nothing a reader of the canonical view sees.
MergeInvisible ==
    [][(\E i, j \in DOMAIN parts : Merge(i, j))
          => \A k \in Keys : Canonical(k)' = Canonical(k)]_vars

\* A key never disappears from the canonical view, nor goes back to a lesser
\* version, while blocks are read again.
VersionsNeverDecrease ==
    [][\A k \in Keys : Canonical(k) # 0 =>
          /\ Canonical(k)' # 0
          /\ topic'[Canonical(k)'].version >= topic[Canonical(k)].version]_vars

\* Every row is committed in the end.
EveryRowIngested ==
    \A o \in 1..MaxTopic : (o <= Len(topic)) ~> (committed >= o)
=============================================================================
