----------------------- MODULE ClickHouseIngestProofs -----------------------
(***************************************************************************)
(* What the canonical view shows for every set of keys and rows, every     *)
(* length of the topic, and however it is cut into blocks, given up,       *)
(* inserted again and merged.                                              *)
(*                                                                         *)
(* FINAL breaks a tie by the age of the parts and not by offset, and a     *)
(* block that is read again may put an older row into a newer part.  What  *)
(* holds is therefore said of the rows below the committed offset, and of  *)
(* the block in hand once its part of that key is in.                      *)
(***************************************************************************)
EXTENDS ClickHouseIngest, TLAPS, SequenceTheorems, FiniteSetTheorems

Parts == [partition : Partitions, rows : [Keys -> Nat]]

IngestTypeOK ==
    /\ topic \in Seq(Rows)
    /\ polled \in 0..Len(topic) /\ committed \in 0..polled
    /\ waiting \subseteq Partitions
    /\ parts \in Seq(Parts)
    /\ aborts \in Nat

\* A part holds a key's own rows, and keys of its own partition.
HeldInv ==
    \A x \in DOMAIN parts, k \in Keys : parts[x].rows[k] # 0 =>
        /\ parts[x].rows[k] \in 1..Len(topic)
        /\ topic[parts[x].rows[k]].key = k
        /\ parts[x].partition = PartitionOf[k]

\* Row o is replaced by row f, or is that row.
AtMost(o, f) ==
    \/ topic[o].version < topic[f].version
    \/ topic[o].version = topic[f].version /\ o <= f

\* The rows of a key up to here are in the table.
Covered(k) == IF PartitionOf[k] \in waiting THEN committed ELSE polled

CoveredInv ==
    /\ polled = committed => waiting = {}
    /\ \A k \in Keys : \A o \in 1..Covered(k) : topic[o].key = k =>
          /\ Canonical(k) # 0
          /\ AtMost(o, Canonical(k))

IngestInv == IngestTypeOK /\ HeldInv /\ CoveredInv

-----------------------------------------------------------------------------
(* Greatest elements.                                                        *)

LEMMA GreatestExists ==
    ASSUME NEW n \in Nat, NEW S \in SUBSET (1..n), S # {}, NEW v \in [S -> Int]
    PROVE  \E x \in S : \A y \in S : v[y] < v[x] \/ (v[y] = v[x] /\ y <= x)
<1> DEFINE Above(x) == {y \in S : v[y] > v[x] \/ (v[y] = v[x] /\ y > x)}
           T == {Above(x) : x \in S}
<1>1. S \subseteq Int /\ IsFiniteSet(S)
  <2>1. 1 \in Int /\ n \in Int /\ S \subseteq 1..n
    OBVIOUS
  <2>2. IsFiniteSet(1..n)
    BY <2>1, FS_Interval
  <2>3. IsFiniteSet(S)
    BY <2>1, <2>2, FS_Subset
  <2> QED
    BY <2>1, <2>3
<1>2. T # {} /\ T \subseteq FiniteSubsetsOf(S)
  <2>1. \A x \in S : Above(x) \subseteq S /\ IsFiniteSet(Above(x))
    BY <1>1, FS_Subset
  <2> HIDE DEF Above
  <2> QED
    BY <2>1 DEF FiniteSubsetsOf
<1>3. PICK m \in T : \A t \in T : <<t, m>> \notin StrictSubsetOrdering(S)
  <2> HIDE DEF T
  <2> QED
    BY <1>2, FS_StrictSubsetOrderingWellFounded, WFMin
<1>4. PICK x \in S : m = Above(x)
    OBVIOUS
<1>5. ASSUME NEW y \in Above(x)
      PROVE  FALSE
  <2>1. y \in S /\ \A z \in S : v[z] \in Int /\ z \in Int
    BY <1>1
  <2>2. y \notin Above(y)
    BY <2>1
  <2>3. ASSUME NEW z \in Above(y)
        PROVE  z \in Above(x)
    <3>1. /\ v[x] \in Int /\ v[y] \in Int /\ v[z] \in Int
          /\ x \in Int /\ y \in Int /\ z \in Int /\ z \in S
      BY <2>1, <2>3
    <3>2. v[y] > v[x] \/ (v[y] = v[x] /\ y > x)
      BY <1>5
    <3>3. v[z] > v[y] \/ (v[z] = v[y] /\ z > y)
      BY <2>3
    <3>4. v[z] > v[x] \/ (v[z] = v[x] /\ z > x)
      BY <3>1, <3>2, <3>3
    <3> QED
      BY <3>1, <3>4
  <2>4. <<Above(y), m>> \in StrictSubsetOrdering(S)
    BY <1>4, <1>5, <2>1, <2>2, <2>3 DEF StrictSubsetOrdering
  <2> QED
    BY <1>3, <2>1, <2>4
<1>6. \A y \in S : v[y] < v[x] \/ (v[y] = v[x] /\ y <= x)
    BY <1>1, <1>5
<1> QED
    BY <1>6

-----------------------------------------------------------------------------
(* The rows of the topic and the parts that hold them.                       *)

LEMMA TopicTypes ==
    ASSUME IngestTypeOK
    PROVE  /\ Len(topic) \in Nat /\ polled \in Nat /\ committed \in Nat
           /\ committed <= polled /\ polled <= Len(topic)
           /\ \A o \in 1..Len(topic) :
                 /\ topic[o] \in Rows /\ topic[o].key \in Keys
                 /\ topic[o].version \in Int /\ o \in Nat
BY LenProperties, ElementOfSeq, RowsAssumption DEF IngestTypeOK

LEMMA PartTypes ==
    ASSUME IngestTypeOK
    PROVE  /\ Len(parts) \in Nat /\ DOMAIN parts = 1..Len(parts)
           /\ \A x \in 1..Len(parts) :
                 /\ parts[x] \in Parts /\ x \in Nat
                 /\ \A k \in Keys : parts[x].rows[k] \in Nat
<1>1. Len(parts) \in Nat /\ DOMAIN parts = 1..Len(parts)
    BY LenProperties DEF IngestTypeOK
<1>2. ASSUME NEW x \in 1..Len(parts)
      PROVE  parts[x] \in Parts
    BY ElementOfSeq DEF IngestTypeOK
<1>3. \A part \in Parts, k \in Keys : part.rows[k] \in Nat
    BY DEF Parts
<1> QED
    BY <1>1, <1>2, <1>3

\* The parts of p that hold a row of the key, and the version they hold with
\* topic t; the part whose row FINAL shows; that row.
Holders(p, k) == {x \in DOMAIN p : p[x].rows[k] # 0}
VersionIn(p, t, k, x) == t[p[x].rows[k]].version

NoneNewer(p, t, k, x) ==
    \A y \in Holders(p, k) :
        \/ VersionIn(p, t, k, y) < VersionIn(p, t, k, x)
        \/ VersionIn(p, t, k, y) = VersionIn(p, t, k, x) /\ y <= x

Shows(p, t, k, x) == x \in Holders(p, k) /\ NoneNewer(p, t, k, x)

Final(p, t, k) ==
    IF Holders(p, k) = {} THEN 0
    ELSE p[CHOOSE x \in Holders(p, k) : NoneNewer(p, t, k, x)].rows[k]

\* The holders of a key have an age and a version.
Ordered(p, t, k) ==
    \A x \in Holders(p, k) : x \in Nat /\ VersionIn(p, t, k, x) \in Int

LEMMA CanonicalIsFinal ==
    \A k : /\ Canonical(k) = Final(parts, topic, k)
           /\ Canonical(k)' = Final(parts', topic', k)
<1> TAKE k
<1>1. Canonical(k) = Final(parts, topic, k)
    BY DEF Canonical, Final, Holders, NoneNewer, VersionIn
<1>2. Canonical(k)' = Final(parts', topic', k)
    BY DEF Canonical, Final, Holders, NoneNewer, VersionIn
<1> QED
    BY <1>1, <1>2

LEMMA FinalIs ==
    ASSUME NEW p, NEW t, NEW k, Ordered(p, t, k), NEW x, Shows(p, t, k, x)
    PROVE  Final(p, t, k) = p[x].rows[k]
<1> DEFINE H == Holders(p, k)
           Best(y) == NoneNewer(p, t, k, y)
<1>1. x \in H /\ Best(x)
    BY DEF Shows
<1>2. Final(p, t, k) = p[CHOOSE y \in H : Best(y)].rows[k]
    BY <1>1 DEF Final
<1>3. ASSUME NEW y \in H, Best(y)
      PROVE  y = x
  <2>1. /\ \/ VersionIn(p, t, k, x) < VersionIn(p, t, k, y)
           \/ VersionIn(p, t, k, x) = VersionIn(p, t, k, y) /\ x <= y
        /\ \/ VersionIn(p, t, k, y) < VersionIn(p, t, k, x)
           \/ VersionIn(p, t, k, y) = VersionIn(p, t, k, x) /\ y <= x
    BY <1>1, <1>3 DEF NoneNewer
  <2>2. /\ VersionIn(p, t, k, x) \in Int /\ VersionIn(p, t, k, y) \in Int
        /\ x \in Nat /\ y \in Nat
    BY <1>1, <1>3 DEF Ordered
  <2> QED
    BY <2>1, <2>2
<1> HIDE DEF H, Best
<1>4. (CHOOSE y \in H : Best(y)) = x
    BY <1>1, <1>3
<1> QED
    BY <1>2, <1>4

LEMMA ShownExists ==
    ASSUME NEW n \in Nat, NEW p, DOMAIN p = 1..n, NEW t, NEW k, Ordered(p, t, k),
           Holders(p, k) # {}
    PROVE  \E x \in Holders(p, k) : Shows(p, t, k, x)
<1> DEFINE v == [x \in Holders(p, k) |-> VersionIn(p, t, k, x)]
<1>1. Holders(p, k) \in SUBSET (1..n)
    BY DEF Holders
<1>2. v \in [Holders(p, k) -> Int]
    BY DEF Ordered
<1> HIDE DEF v
<1>3. \E x \in Holders(p, k) : \A y \in Holders(p, k) :
          v[y] < v[x] \/ (v[y] = v[x] /\ y <= x)
    BY <1>1, <1>2, GreatestExists
<1> QED
    BY <1>3 DEF Shows, NoneNewer, v

LEMMA HeldRow ==
    ASSUME IngestTypeOK, HeldInv, NEW k \in Keys, NEW x \in Holders(parts, k)
    PROVE  /\ x \in Nat /\ x \in DOMAIN parts /\ VersionIn(parts, topic, k, x) \in Int
           /\ parts[x].rows[k] \in 1..Len(topic) /\ topic[parts[x].rows[k]].key = k
           /\ parts[x].partition = PartitionOf[k]
BY TopicTypes, PartTypes DEF HeldInv, Holders, VersionIn

\* The canonical view shows a key if a part holds it, and then a row of the key.
LEMMA CanonicalShown ==
    ASSUME IngestTypeOK, HeldInv, NEW k \in Keys
    PROVE  /\ Ordered(parts, topic, k)
           /\ \/ Holders(parts, k) = {} /\ Canonical(k) = 0
              \/ \E x \in Holders(parts, k) :
                    /\ Shows(parts, topic, k, x)
                    /\ Canonical(k) = parts[x].rows[k]
                    /\ Canonical(k) \in 1..Len(topic)
                    /\ topic[Canonical(k)].key = k
                    /\ topic[Canonical(k)].version \in Int
<1>1. Ordered(parts, topic, k)
    BY HeldRow DEF Ordered
<1>2. CASE Holders(parts, k) = {}
    BY <1>1, <1>2, CanonicalIsFinal DEF Final
<1>3. CASE Holders(parts, k) # {}
  <2>1. Len(parts) \in Nat /\ DOMAIN parts = 1..Len(parts)
    BY PartTypes
  <2>2. PICK x \in Holders(parts, k) : Shows(parts, topic, k, x)
    BY <1>1, <1>3, <2>1, ShownExists
  <2>3. Canonical(k) = parts[x].rows[k]
    BY <1>1, <2>2, FinalIs, CanonicalIsFinal
  <2>4. /\ Canonical(k) \in 1..Len(topic) /\ topic[Canonical(k)].key = k
        /\ topic[Canonical(k)].version \in Int
    BY <2>3, HeldRow DEF VersionIn
  <2> QED
    BY <1>1, <2>2, <2>3, <2>4
<1> QED
    BY <1>2, <1>3

\* The row of the block that its part holds of a key.
LEMMA SurvivorIs ==
    ASSUME IngestTypeOK, NEW k \in Keys
    PROVE  \/ /\ Survivor(k) = 0
              /\ \A o \in Block : topic[o].key # k
           \/ /\ Survivor(k) \in Block /\ topic[Survivor(k)].key = k
              /\ \A o \in Block : topic[o].key = k => AtMost(o, Survivor(k))
<1> DEFINE S == {o \in Block : topic[o].key = k}
           Best(o) == \A p \in S : AtMost(p, o)
<1>1. Survivor(k) = IF S = {} THEN 0 ELSE CHOOSE o \in S : Best(o)
    BY DEF Survivor, AtMost
<1>2. CASE S = {}
    BY <1>1, <1>2
<1>3. CASE S # {}
  <2> DEFINE v == [o \in S |-> topic[o].version]
  <2>1. Len(topic) \in Nat /\ S \in SUBSET (1..Len(topic))
    BY TopicTypes DEF Block
  <2>2. v \in [S -> Int]
    BY <2>1, TopicTypes
  <2> HIDE DEF S, v
  <2>3. \E o \in S : \A p \in S : v[p] < v[o] \/ (v[p] = v[o] /\ p <= o)
    BY <1>3, <2>1, <2>2, GreatestExists
  <2>4. \E o \in S : Best(o)
    BY <2>3 DEF AtMost, v
  <2> HIDE DEF Best
  <2>5. Survivor(k) \in S /\ Best(Survivor(k))
    BY <1>1, <1>3, <2>4
  <2> QED
    BY <2>5 DEF S, Best
<1> QED
    BY <1>2, <1>3

-----------------------------------------------------------------------------
(* Inserts and merges.                                                       *)

LEMMA BlockPartType ==
    ASSUME IngestTypeOK, NEW partition \in Partitions
    PROVE  BlockPart(partition) \in Parts
<1>1. ASSUME NEW k \in Keys
      PROVE  Survivor(k) \in Nat
  <2>1. Block \subseteq Nat
    BY TopicTypes DEF Block
  <2>2. Survivor(k) = 0 \/ Survivor(k) \in Block
    BY SurvivorIs
  <2>3. 0 \in Nat
    OBVIOUS
  <2> QED
    BY <2>1, <2>2, <2>3, Zenon
<1>2. [k \in Keys |-> IF PartitionOf[k] = partition THEN Survivor(k) ELSE 0]
        \in [Keys -> Nat]
    BY <1>1
<1> QED
    BY <1>2 DEF BlockPart, Parts

LEMMA InsertParts ==
    ASSUME IngestTypeOK, NEW partition \in waiting, Insert(partition)
    PROVE  /\ parts' \in Seq(Parts) /\ Len(parts') = Len(parts) + 1
           /\ DOMAIN parts' = 1..(Len(parts) + 1)
           /\ \A x \in DOMAIN parts : parts'[x] = parts[x]
           /\ parts'[Len(parts) + 1] = BlockPart(partition)
<1>1. partition \in Partitions /\ parts \in Seq(Parts) /\ Len(parts) \in Nat
    BY PartTypes DEF IngestTypeOK
<1>2. parts' = Append(parts, BlockPart(partition))
    BY DEF Insert
<1>3. BlockPart(partition) \in Parts
    BY <1>1, BlockPartType
<1>4. /\ parts' \in Seq(Parts) /\ Len(parts') = Len(parts) + 1
      /\ \A x \in 1..Len(parts) : parts'[x] = parts[x]
      /\ parts'[Len(parts) + 1] = BlockPart(partition)
    BY <1>1, <1>2, <1>3, AppendProperties
<1> QED
    BY <1>4, PartTypes, LenProperties

\* Row by row, a merge is a replacement in the older part, and the parts after
\* the younger one move up.
LEMMA MergeParts ==
    ASSUME IngestTypeOK, NEW i \in DOMAIN parts, NEW j \in DOMAIN parts, Merge(i, j)
    PROVE  /\ i \in Nat /\ j \in Nat /\ i < j
           /\ parts' \in Seq(Parts) /\ DOMAIN parts' = 1..(Len(parts) - 1)
           /\ \A x \in DOMAIN parts' :
                 LET y == IF x < j THEN x ELSE x + 1
                 IN  /\ parts'[x].partition = parts[y].partition
                     /\ \A k \in Keys : parts'[x].rows[k] =
                           IF x = i
                           THEN Replacing(parts[i].rows[k], parts[j].rows[k])
                           ELSE parts[y].rows[k]
<1> DEFINE merged == [parts[i] EXCEPT !.rows =
                         [k \in Keys |-> Replacing(@[k], parts[j].rows[k])]]
           n == Len(parts) - 1
<1>1. /\ i \in Nat /\ j \in Nat /\ i < j /\ n \in Nat /\ j <= n + 1 /\ i >= 1
      /\ DOMAIN parts = 1..(n + 1)
    BY PartTypes DEF Merge
<1>2. /\ parts[i] \in Parts /\ parts[j] \in Parts
      /\ \A x \in 1..(n + 1) : parts[x] \in Parts
    BY <1>1, PartTypes
<1>3. parts' = [x \in 1..n |-> IF x = i THEN merged
                               ELSE IF x < j THEN parts[x] ELSE parts[x + 1]]
    BY DEF Merge
<1>4. \A k \in Keys : Replacing(parts[i].rows[k], parts[j].rows[k]) \in Nat
    BY <1>2 DEF Replacing, Parts
<1>5. /\ merged \in Parts /\ merged.partition = parts[i].partition
      /\ \A k \in Keys : merged.rows[k] = Replacing(parts[i].rows[k], parts[j].rows[k])
    BY <1>2, <1>4 DEF Parts
<1> HIDE DEF merged
<1>6. parts' \in [1..n -> Parts]
    BY <1>1, <1>2, <1>3, <1>5
<1>7. parts' \in Seq(Parts) /\ DOMAIN parts' = 1..n
    BY <1>1, <1>6, SeqDef
<1>8. ASSUME NEW x \in 1..n, NEW y, y = IF x < j THEN x ELSE x + 1
      PROVE  /\ parts'[x].partition = parts[y].partition
             /\ \A k \in Keys : parts'[x].rows[k] =
                   IF x = i THEN Replacing(parts[i].rows[k], parts[j].rows[k])
                   ELSE parts[y].rows[k]
    BY <1>1, <1>3, <1>5, <1>8
<1> QED
    BY <1>1, <1>7, <1>8

LEMMA IngestTypeStep ==
    ASSUME IngestTypeOK, [Next]_vars
    PROVE  IngestTypeOK'
<1>0. /\ Len(topic) \in Nat /\ polled \in Nat /\ committed \in Nat
      /\ committed <= polled /\ polled <= Len(topic)
    BY TopicTypes
<1>1. CASE \E row \in Rows : Produce(row)
  <2>1. PICK row \in Rows : Produce(row)
    BY <1>1
  <2>2. topic' \in Seq(Rows) /\ Len(topic') = Len(topic) + 1
    BY <2>1, AppendProperties DEF Produce, IngestTypeOK
  <2> QED
    BY <1>0, <2>1, <2>2 DEF Produce, IngestTypeOK
<1>2. CASE \E last \in 1..Len(topic) : Poll(last)
  <2>1. PICK last \in 1..Len(topic) : Poll(last)
    BY <1>2
  <2>2. \A o \in (committed + 1)..last : PartitionOf[topic[o].key] \in Partitions
    BY <1>0, <2>1, TopicTypes DEF Partitions
  <2> QED
    BY <1>0, <2>1, <2>2 DEF Poll, IngestTypeOK
<1>3. CASE \E partition \in waiting : Insert(partition)
    BY <1>3, InsertParts DEF Insert, IngestTypeOK
<1>4. CASE Commit
    BY <1>0, <1>4 DEF Commit, IngestTypeOK
<1>5. CASE Abort
    BY <1>0, <1>5 DEF Abort, IngestTypeOK
<1>6. CASE \E i, j \in DOMAIN parts : Merge(i, j)
  <2>1. parts' \in Seq(Parts)
    BY <1>6, MergeParts
  <2> QED
    BY <1>6, <2>1 DEF Merge, IngestTypeOK
<1>7. CASE UNCHANGED vars
    BY <1>7 DEF vars, IngestTypeOK
<1> QED
    BY <1>1, <1>2, <1>3, <1>4, <1>5, <1>6, <1>7 DEF Next

LEMMA HeldStep ==
    ASSUME IngestTypeOK, HeldInv, [Next]_vars
    PROVE  HeldInv'
<1>0. /\ Len(topic) \in Nat /\ polled \in Nat /\ committed \in Nat
      /\ committed <= polled /\ polled <= Len(topic)
    BY TopicTypes
<1>1. CASE \E row \in Rows : Produce(row)
  <2>1. /\ parts' = parts /\ Len(topic') = Len(topic) + 1
        /\ \A o \in 1..Len(topic) : topic'[o] = topic[o]
    BY <1>1, AppendProperties DEF Produce, IngestTypeOK
  <2>2. 1..Len(topic) \subseteq 1..Len(topic')
    BY <1>0, <2>1
  <2> QED
    BY <2>1, <2>2 DEF HeldInv
<1>2. CASE \E partition \in waiting : Insert(partition)
  <2>1. PICK partition \in waiting : Insert(partition)
    BY <1>2
  <2>2. topic' = topic
    BY <2>1 DEF Insert
  <2>3. ASSUME NEW x \in DOMAIN parts', NEW k \in Keys, parts'[x].rows[k] # 0
        PROVE  /\ parts'[x].rows[k] \in 1..Len(topic)
               /\ topic[parts'[x].rows[k]].key = k
               /\ parts'[x].partition = PartitionOf[k]
    <3>1. CASE x \in DOMAIN parts
      BY <2>1, <2>3, <3>1, InsertParts DEF HeldInv
    <3>2. CASE x \notin DOMAIN parts
      <4>1. parts'[x] = BlockPart(partition)
        <5>1. x = Len(parts) + 1
          BY <2>1, <2>3, <3>2, InsertParts, PartTypes
        <5> QED
          BY <2>1, <5>1, InsertParts
      <4>2. /\ parts'[x].partition = partition
            /\ parts'[x].rows[k] = IF PartitionOf[k] = partition THEN Survivor(k) ELSE 0
        BY <4>1 DEF BlockPart
      <4>3. Survivor(k) \in Block /\ topic[Survivor(k)].key = k
        BY <2>3, <4>2, SurvivorIs
      <4> QED
        BY <1>0, <2>3, <4>2, <4>3 DEF Block
    <3> QED
      BY <3>1, <3>2
  <2> QED
    BY <2>2, <2>3 DEF HeldInv
<1>3. CASE \E i, j \in DOMAIN parts : Merge(i, j)
  <2>1. PICK i \in DOMAIN parts, j \in DOMAIN parts : Merge(i, j)
    BY <1>3
  <2>2. topic' = topic /\ parts[i].partition = parts[j].partition
    BY <2>1 DEF Merge
  <2>3. ASSUME NEW x \in DOMAIN parts', NEW k \in Keys, parts'[x].rows[k] # 0
        PROVE  /\ parts'[x].rows[k] \in 1..Len(topic)
               /\ topic[parts'[x].rows[k]].key = k
               /\ parts'[x].partition = PartitionOf[k]
    <3>1. PICK y : /\ y = IF x < j THEN x ELSE x + 1
                   /\ parts'[x].partition = parts[y].partition
                   /\ parts'[x].rows[k] =
                         IF x = i THEN Replacing(parts[i].rows[k], parts[j].rows[k])
                         ELSE parts[y].rows[k]
      BY <2>1, MergeParts
    <3>2. i < j /\ i \in Nat /\ j \in Nat /\ y \in DOMAIN parts
      BY <2>1, <2>3, <3>1, MergeParts, PartTypes
    <3>3. CASE x = i
      <4>1. y = i
        BY <3>1, <3>2, <3>3
      <4>2. \E z \in {i, j} : parts'[x].rows[k] = parts[z].rows[k]
        BY <3>1, <3>3 DEF Replacing
      <4> QED
        BY <2>2, <2>3, <3>1, <4>1, <4>2 DEF HeldInv
    <3>4. CASE x # i
      BY <2>3, <3>1, <3>2, <3>4 DEF HeldInv
    <3> QED
      BY <3>3, <3>4
  <2> QED
    BY <2>2, <2>3 DEF HeldInv
<1>4. CASE UNCHANGED <<topic, parts>>
    BY <1>4 DEF HeldInv
<1> QED
    BY <1>1, <1>2, <1>3, <1>4 DEF Next, Poll, Commit, Abort, vars

-----------------------------------------------------------------------------
(* What a step does to the canonical view.                                   *)

\* The parts and topic of the next state hold a key in order, too.
LEMMA OrderedStep ==
    ASSUME IngestTypeOK, HeldInv, [Next]_vars, NEW k \in Keys
    PROVE  Ordered(parts', topic', k)
<1>1. IngestTypeOK' /\ HeldInv'
    BY IngestTypeStep, HeldStep
<1>2. /\ \A x \in DOMAIN parts' : x \in Nat
      /\ \A o \in 1..Len(topic') : topic'[o].version \in Int
    BY <1>1, LenProperties, ElementOfSeq, RowsAssumption DEF IngestTypeOK
<1> QED
    BY <1>1, <1>2 DEF HeldInv, Ordered, Holders, VersionIn

\* A part is seen once a reader's query has it: nothing else changes the view.
LEMMA CanonicalKept ==
    ASSUME IngestTypeOK, HeldInv, [Next]_vars, parts' = parts, NEW k \in Keys
    PROVE  /\ Canonical(k)' = Canonical(k)
           /\ \A o \in 1..Len(topic) : topic'[o] = topic[o]
<1>1. \A o \in 1..Len(topic) : topic'[o] = topic[o]
  <2>1. CASE \E row \in Rows : Produce(row)
    BY <2>1, AppendProperties DEF Produce, IngestTypeOK
  <2> QED
    BY <2>1 DEF Next, Poll, Insert, Commit, Abort, Merge, vars
<1>2. Ordered(parts', topic', k)
    BY OrderedStep
<1>3. CASE Holders(parts, k) = {}
    BY <1>1, <1>3, CanonicalIsFinal DEF Final
<1>4. CASE Holders(parts, k) # {}
  <2>1. PICK x \in Holders(parts, k) : /\ Shows(parts, topic, k, x)
                                       /\ Canonical(k) = parts[x].rows[k]
    BY <1>4, CanonicalShown
  <2>2. \A y \in Holders(parts, k) :
            VersionIn(parts', topic', k, y) = VersionIn(parts, topic, k, y)
    BY <1>1, HeldRow DEF VersionIn
  <2>3. Shows(parts', topic', k, x)
    BY <2>1, <2>2 DEF Shows, NoneNewer
  <2>4. Canonical(k)' = parts'[x].rows[k]
    BY <1>2, <2>3, FinalIs, CanonicalIsFinal
  <2> QED
    BY <1>1, <2>1, <2>4
<1> QED
    BY <1>1, <1>3, <1>4

\* An inserted part replaces what was shown by its own row of the key.
LEMMA CanonicalInserted ==
    ASSUME IngestTypeOK, HeldInv, NEW partition \in waiting, Insert(partition),
           NEW k \in Keys
    PROVE  Canonical(k)' = IF PartitionOf[k] = partition
                           THEN Replacing(Canonical(k), Survivor(k)) ELSE Canonical(k)
<1> DEFINE n == Len(parts) + 1
           r == IF PartitionOf[k] = partition THEN Survivor(k) ELSE 0
<1>0. /\ Len(parts) \in Nat /\ DOMAIN parts = 1..Len(parts) /\ n \in Nat
      /\ n \notin DOMAIN parts
    BY PartTypes
<1>1. /\ DOMAIN parts' = DOMAIN parts \cup {n} /\ topic' = topic
      /\ \A x \in DOMAIN parts : parts'[x] = parts[x]
      /\ parts'[n].rows[k] = r
    BY <1>0, InsertParts DEF BlockPart, Insert
<1>2. /\ Ordered(parts', topic', k)
      /\ \A x \in Holders(parts, k) : x < n
    BY <1>0, OrderedStep DEF Next, Holders
<1>3. /\ \A x \in Holders(parts, k) :
            VersionIn(parts', topic', k, x) = VersionIn(parts, topic, k, x)
      /\ VersionIn(parts', topic', k, n) = topic[r].version
    BY <1>1 DEF VersionIn, Holders
<1>4. Holders(parts', k) = Holders(parts, k) \cup (IF r = 0 THEN {} ELSE {n})
    BY <1>0, <1>1 DEF Holders
<1>5. CASE r = 0
  <2>1. Canonical(k)' = Canonical(k)
    <3>1. CASE Holders(parts, k) = {}
      BY <1>4, <1>5, <3>1, CanonicalIsFinal DEF Final
    <3>2. CASE Holders(parts, k) # {}
      <4>1. PICK x \in Holders(parts, k) : /\ Shows(parts, topic, k, x)
                                           /\ Canonical(k) = parts[x].rows[k]
        BY <3>2, CanonicalShown
      <4>2. Shows(parts', topic', k, x)
        BY <1>3, <1>4, <1>5, <4>1 DEF Shows, NoneNewer
      <4>3. Canonical(k)' = parts'[x].rows[k]
        BY <1>2, <4>2, FinalIs, CanonicalIsFinal
      <4> QED
        BY <1>1, <4>1, <4>3 DEF Holders
    <3> QED
      BY <3>1, <3>2
  <2> QED
    BY <1>5, <2>1 DEF Replacing
<1>6. CASE r # 0
  <2>1. r = Survivor(k) /\ PartitionOf[k] = partition
    BY <1>6
  <2>2. topic[r].version \in Int
    BY <1>6, <2>1, SurvivorIs, TopicTypes DEF Block
  <2> HIDE DEF n, r
  <2>3. n \in Holders(parts', k)
    BY <1>4, <1>6
  <2>4. CASE Canonical(k) = 0
    <3>1. Holders(parts, k) = {}
      BY <2>4, CanonicalShown
    <3>2. Shows(parts', topic', k, n)
      BY <1>0, <1>4, <2>3, <3>1 DEF Shows, NoneNewer
    <3>3. Canonical(k)' = parts'[n].rows[k]
      BY <1>2, <3>2, FinalIs, CanonicalIsFinal
    <3> QED
      BY <1>1, <1>6, <2>1, <2>4, <3>3 DEF Replacing
  <2>5. CASE Canonical(k) # 0
    <3>1. PICK x \in Holders(parts, k) :
              /\ Shows(parts, topic, k, x) /\ Canonical(k) = parts[x].rows[k]
              /\ topic[Canonical(k)].version \in Int
      BY <2>5, CanonicalShown
    <3>2. VersionIn(parts, topic, k, x) = topic[Canonical(k)].version
      BY <3>1 DEF VersionIn
    <3>3. \A y \in Holders(parts, k) : /\ VersionIn(parts, topic, k, y) \in Int
                                       /\ y \in Nat
      BY CanonicalShown DEF Ordered
    <3>4. CASE topic[r].version >= topic[Canonical(k)].version
      <4>1. \A y \in Holders(parts, k) :
                VersionIn(parts, topic, k, y) <= topic[r].version
        BY <2>2, <3>1, <3>2, <3>3, <3>4 DEF Shows, NoneNewer
      <4>2. Shows(parts', topic', k, n)
        BY <1>0, <1>2, <1>3, <1>4, <2>2, <2>3, <3>3, <4>1 DEF Shows, NoneNewer
      <4>3. Canonical(k)' = parts'[n].rows[k]
        BY <1>2, <4>2, FinalIs, CanonicalIsFinal
      <4> QED
        BY <1>1, <1>6, <2>1, <3>4, <4>3 DEF Replacing
    <3>5. CASE topic[r].version < topic[Canonical(k)].version
      <4>1. Shows(parts', topic', k, x)
        BY <1>3, <1>4, <3>1, <3>2, <3>5 DEF Shows, NoneNewer
      <4>2. Canonical(k)' = parts'[x].rows[k]
        BY <1>2, <4>1, FinalIs, CanonicalIsFinal
      <4>3. Canonical(k)' = Canonical(k)
        BY <1>1, <3>1, <4>2 DEF Holders
      <4>4. ~(topic[r].version >= topic[Canonical(k)].version)
        BY <2>2, <3>1, <3>5
      <4> QED
        BY <2>1, <2>5, <4>3, <4>4 DEF Replacing
    <3> QED
      BY <2>2, <3>1, <3>4, <3>5
  <2> QED
    BY <2>4, <2>5
<1> QED
    BY <1>5, <1>6

\* A merge keeps what is shown: the row shown is the one that stays, the parts
\* keep their order, and none of the key's lies between the two that are merged.
LEMMA CanonicalMerged ==
    ASSUME IngestTypeOK, HeldInv, NEW i \in DOMAIN parts, NEW j \in DOMAIN parts,
           Merge(i, j), NEW k \in Keys
    PROVE  Canonical(k)' = Canonical(k)
<1> DEFINE row(x) == parts[x].rows[k]
           v(x) == VersionIn(parts, topic, k, x)
           H == Holders(parts, k)
           moved(z) == IF z < j THEN z ELSE IF z = j THEN i ELSE z - 1
           from(x) == IF x < j THEN x ELSE x + 1
<1>1. /\ i \in Nat /\ j \in Nat /\ i < j /\ topic' = topic /\ Len(parts) \in Nat
      /\ DOMAIN parts = 1..Len(parts) /\ DOMAIN parts' = 1..(Len(parts) - 1)
    BY MergeParts, PartTypes DEF Merge
<1>2. \A x \in DOMAIN parts' : parts'[x].rows[k] =
          IF x = i THEN Replacing(row(i), row(j)) ELSE row(from(x))
    BY MergeParts
<1>3. /\ Ordered(parts', topic', k)
      /\ \A z \in H : /\ z \in 1..Len(parts) /\ z \in Nat
                      /\ v(z) \in Int /\ row(z) # 0
    BY <1>1, OrderedStep, HeldRow DEF Next, Holders
<1>4. \A z \in H : i < z /\ z < j => i \notin H /\ j \notin H
  <2> SUFFICES ASSUME NEW z \in H, i < z, z < j, i \in H \/ j \in H
               PROVE  FALSE
    OBVIOUS
  <2>1. z \in (i + 1)..(j - 1)
    BY <1>1, <1>3
  <2>2. /\ parts[z].partition # parts[i].partition
        /\ parts[i].partition = parts[j].partition
    BY <2>1 DEF Merge
  <2> QED
    BY <2>2, HeldRow
<1>5. ASSUME NEW x \in Holders(parts', k)
      PROVE  \E z \in H : x = moved(z) /\ parts'[x].rows[k] = row(z)
  <2>1. x \in 1..(Len(parts) - 1) /\ x \in Nat /\ parts'[x].rows[k] # 0
    BY <1>1 DEF Holders
  <2>2. CASE x = i
    <3>1. PICK z \in {i, j} : parts'[x].rows[k] = row(z)
      BY <1>1, <1>2, <2>1, <2>2 DEF Replacing
    <3>2. z \in H
      BY <2>1, <3>1 DEF Holders
    <3>3. moved(z) = i
      BY <1>1, <3>1
    <3> QED
      BY <2>2, <3>1, <3>2, <3>3
  <2>3. CASE x # i
    <3>1. parts'[x].rows[k] = row(from(x)) /\ from(x) \in DOMAIN parts
      BY <1>1, <1>2, <2>1, <2>3
    <3>2. moved(from(x)) = x
      BY <1>1, <2>1
    <3> QED
      BY <2>1, <3>1, <3>2 DEF Holders
  <2> QED
    BY <2>2, <2>3
<1>6. ASSUME NEW a \in H, NEW z \in H, z <= a
      PROVE  moved(z) <= moved(a)
    BY <1>1, <1>3, <1>4, <1>6
<1>7. CASE H = {}
  <2>1. Holders(parts', k) = {}
    BY <1>5, <1>7
  <2> QED
    BY <1>7, <2>1, CanonicalIsFinal DEF Final
<1>8. CASE H # {}
  <2>1. PICK a \in H : Shows(parts, topic, k, a) /\ Canonical(k) = row(a)
    BY <1>8, CanonicalShown
  <2>2. \A z \in H : v(z) < v(a) \/ (v(z) = v(a) /\ z <= a)
    BY <2>1 DEF Shows, NoneNewer
  <2>3. moved(a) \in DOMAIN parts' /\ moved(a) \in Nat
    BY <1>1, <1>3
  <2>4. parts'[moved(a)].rows[k] = row(a)
    <3>1. CASE a = i
      <4>1. moved(a) = i
        BY <1>1, <3>1
      <4>2. row(j) = 0 \/ ~(topic[row(j)].version >= topic[row(i)].version)
        <5>1. CASE row(j) # 0
          <6>1. j \in H /\ i \in H
            BY <3>1, <5>1 DEF Holders
          <6>2. v(j) < v(i) /\ v(i) \in Int /\ v(j) \in Int
            BY <1>1, <1>3, <2>2, <3>1, <6>1
          <6> QED
            BY <6>2 DEF VersionIn
        <5> QED
          BY <5>1
      <4>3. Replacing(row(i), row(j)) = row(i)
        BY <1>3, <3>1, <4>2 DEF Replacing
      <4> QED
        BY <1>2, <2>3, <3>1, <4>1, <4>3
    <3>2. CASE a = j
      <4>1. moved(a) = i
        BY <1>1, <3>2
      <4>2. row(i) = 0 \/ topic[row(j)].version >= topic[row(i)].version
        <5>1. CASE row(i) # 0
          <6>1. j \in H /\ i \in H
            BY <3>2, <5>1 DEF Holders
          <6>2. v(j) >= v(i)
            BY <1>3, <2>2, <3>2, <6>1
          <6> QED
            BY <6>2 DEF VersionIn
        <5> QED
          BY <5>1
      <4>3. Replacing(row(i), row(j)) = row(j)
        BY <1>3, <3>2, <4>2 DEF Replacing
      <4> QED
        BY <1>2, <2>3, <3>2, <4>1, <4>3
    <3>3. CASE a # i /\ a # j
      <4>1. moved(a) # i /\ from(moved(a)) = a
        BY <1>1, <1>3, <3>3
      <4> QED
        BY <1>2, <2>3, <4>1
    <3> QED
      BY <3>1, <3>2, <3>3
  <2>5. VersionIn(parts', topic', k, moved(a)) = v(a)
    BY <1>1, <2>4 DEF VersionIn
  <2>6. ASSUME NEW x \in Holders(parts', k)
        PROVE  \/ VersionIn(parts', topic', k, x) < v(a)
               \/ VersionIn(parts', topic', k, x) = v(a) /\ x <= moved(a)
    <3>1. PICK z \in H : x = moved(z) /\ parts'[x].rows[k] = row(z)
      BY <1>5
    <3>2. VersionIn(parts', topic', k, x) = v(z)
      BY <1>1, <3>1 DEF VersionIn
    <3> QED
      BY <1>6, <2>2, <3>1, <3>2
  <2>7. moved(a) \in Holders(parts', k)
    BY <1>3, <2>3, <2>4 DEF Holders
  <2> HIDE DEF moved
  <2>8. Shows(parts', topic', k, moved(a))
    BY <2>5, <2>6, <2>7 DEF Shows, NoneNewer
  <2>9. Canonical(k)' = parts'[moved(a)].rows[k]
    BY <1>3, <2>8, FinalIs, CanonicalIsFinal
  <2> QED
    BY <2>1, <2>4, <2>9
<1> QED
    BY <1>7, <1>8

LEMMA CanonicalStep ==
    ASSUME IngestTypeOK, HeldInv, [Next]_vars, NEW k \in Keys
    PROVE  \/ Canonical(k)' = Canonical(k)
           \/ \E partition \in waiting :
                 /\ Insert(partition)
                 /\ Canonical(k)' = Replacing(Canonical(k), Survivor(k))
<1>1. CASE \E partition \in waiting : Insert(partition)
    BY <1>1, CanonicalInserted
<1>2. CASE \E i, j \in DOMAIN parts : Merge(i, j)
    BY <1>2, CanonicalMerged
<1>3. CASE parts' = parts
    BY <1>3, CanonicalKept
<1> QED
    BY <1>1, <1>2, <1>3 DEF Next, Produce, Poll, Commit, Abort, vars

-----------------------------------------------------------------------------
(* The rows below the committed offset, and of the block what is in.         *)

LEMMA AtMostReplacing ==
    ASSUME IngestTypeOK, HeldInv, NEW k \in Keys, NEW f, f = Canonical(k),
           NEW s, s = Survivor(k), NEW o \in 1..polled, topic[o].key = k,
           o <= committed => f # 0 /\ AtMost(o, f)
    PROVE  Replacing(f, s) # 0 /\ AtMost(o, Replacing(f, s))
<1>0. /\ Len(topic) \in Nat /\ polled \in Nat /\ committed \in Nat
      /\ committed <= polled /\ polled <= Len(topic) /\ o \in Nat
      /\ topic[o].version \in Int
    BY TopicTypes
<1>1. f = 0 \/ (f # 0 /\ f \in Nat /\ topic[f].version \in Int)
    BY <1>0, CanonicalShown
<1>2. CASE s = 0
  <2>1. 0 \notin Block
    BY <1>0 DEF Block
  <2>2. o \notin Block
    BY <1>2, <2>1, SurvivorIs
  <2>3. o <= committed
    BY <1>0, <2>2 DEF Block
  <2> QED
    BY <1>2, <2>3 DEF Replacing
<1>3. CASE s # 0
  <2>1. s \in Block /\ \A p \in Block : topic[p].key = k => AtMost(p, s)
    BY <1>3, SurvivorIs
  <2>2. s \in Nat /\ s > committed /\ topic[s].version \in Int
    BY <1>0, <2>1, TopicTypes DEF Block
  <2>3. CASE f = 0 \/ topic[s].version >= topic[f].version
    <3>1. Replacing(f, s) = s
      BY <1>3, <2>3 DEF Replacing
    <3>2. AtMost(o, s)
      <4>1. CASE o <= committed
        BY <1>0, <1>1, <2>2, <2>3, <4>1 DEF AtMost
      <4>2. CASE o > committed
        BY <1>0, <2>1, <4>2 DEF Block
      <4> QED
        BY <1>0, <4>1, <4>2
    <3> QED
      BY <1>3, <3>1, <3>2
  <2>4. CASE f # 0 /\ ~(topic[s].version >= topic[f].version)
    <3>1. Replacing(f, s) = f
      BY <2>4 DEF Replacing
    <3>2. AtMost(o, f)
      <4>1. CASE o <= committed
        BY <4>1
      <4>2. CASE o > committed
        <5>1. AtMost(o, s)
          BY <1>0, <2>1, <4>2 DEF Block
        <5> QED
          BY <1>0, <1>1, <2>2, <2>4, <5>1 DEF AtMost
      <4> QED
        BY <1>0, <4>1, <4>2
    <3> QED
      BY <2>4, <3>1, <3>2
  <2> QED
    BY <2>3, <2>4
<1> QED
    BY <1>2, <1>3

CoveredRow(k, o) == Canonical(k) # 0 /\ AtMost(o, Canonical(k))

LEMMA CoveredStep ==
    ASSUME IngestInv, [Next]_vars
    PROVE  CoveredInv'
<1> USE DEF IngestInv
<1>0. /\ Len(topic) \in Nat /\ polled \in Nat /\ committed \in Nat
      /\ committed <= polled /\ polled <= Len(topic)
    BY TopicTypes
<1>1. polled' = committed' => waiting' = {}
    BY <1>0 DEF CoveredInv, Next, Produce, Poll, Insert, Commit, Abort, Merge, vars
<1>2. \A k \in Keys : \A o \in 1..Covered(k) :
          topic[o].key = k => CoveredRow(k, o)
    BY DEF CoveredInv, CoveredRow
<1>3. \A k \in Keys : Covered(k) \in {committed, polled}
    BY DEF Covered
<1> SUFFICES ASSUME NEW k \in Keys, NEW o \in 1..Covered(k)', topic'[o].key = k
             PROVE  CoveredRow(k, o)'
    BY <1>1 DEF CoveredInv, CoveredRow
<1>4. ASSUME o \in 1..Covered(k), Canonical(k)' = Canonical(k),
             \A p \in 1..Len(topic) : topic'[p] = topic[p]
      PROVE  CoveredRow(k, o)'
  <2>1. o \in 1..Len(topic)
    BY <1>0, <1>3, <1>4
  <2>2. CoveredRow(k, o)
    BY <1>2, <1>4, <2>1
  <2>3. Canonical(k) \in 1..Len(topic)
    BY <2>2, CanonicalShown DEF CoveredRow
  <2> QED
    BY <1>4, <2>1, <2>2, <2>3 DEF CoveredRow, AtMost
<1>5. CASE \E row \in Rows : Produce(row)
  <2>1. parts' = parts /\ Covered(k)' = Covered(k)
    BY <1>5 DEF Produce, Covered
  <2> QED
    BY <1>4, <2>1, CanonicalKept
<1>6. CASE \E last \in 1..Len(topic) : Poll(last)
  <2>1. PICK last \in 1..Len(topic) : Poll(last)
    BY <1>6
  <2>2. /\ parts' = parts /\ topic' = topic /\ committed' = committed
        /\ polled' = last /\ polled = committed
        /\ waiting' = {PartitionOf[topic[p].key] : p \in (committed + 1)..last}
    BY <2>1 DEF Poll
  <2>3. o <= committed
    <3>1. CASE PartitionOf[k] \in waiting'
      BY <1>0, <2>2, <3>1 DEF Covered
    <3>2. CASE PartitionOf[k] \notin waiting'
      <4>1. o \in 1..last
        BY <2>2, <3>2 DEF Covered
      <4>2. o \notin (committed + 1)..last
        BY <2>2, <3>2
      <4> QED
        BY <1>0, <4>1, <4>2
    <3> QED
      BY <3>1, <3>2
  <2>4. o \in 1..Covered(k)
    BY <1>0, <1>3, <2>2, <2>3
  <2> QED
    BY <1>4, <2>2, <2>4, CanonicalKept
<1>7. CASE \E partition \in waiting : Insert(partition)
  <2>1. PICK partition \in waiting : Insert(partition)
    BY <1>7
  <2>2. /\ topic' = topic /\ committed' = committed /\ polled' = polled
        /\ waiting' = waiting \ {partition}
    BY <2>1 DEF Insert
  <2>3. CASE PartitionOf[k] = partition
    <3>1. Canonical(k)' = Replacing(Canonical(k), Survivor(k))
      BY <2>1, <2>3, CanonicalInserted
    <3>2. Covered(k) = committed /\ o \in 1..polled
      BY <2>2, <2>3 DEF Covered
    <3>3. o <= committed => Canonical(k) # 0 /\ AtMost(o, Canonical(k))
      BY <1>0, <1>2, <2>2, <3>2 DEF CoveredRow
    <3>4. /\ Replacing(Canonical(k), Survivor(k)) # 0
          /\ AtMost(o, Replacing(Canonical(k), Survivor(k)))
      BY <2>2, <3>2, <3>3, AtMostReplacing
    <3> QED
      BY <2>2, <3>1, <3>4 DEF CoveredRow, AtMost
  <2>4. CASE PartitionOf[k] # partition
    <3>1. Canonical(k)' = Canonical(k)
      BY <2>1, <2>4, CanonicalInserted
    <3>2. Covered(k)' = Covered(k)
      BY <2>2, <2>4 DEF Covered
    <3> QED
      BY <1>4, <2>2, <3>1, <3>2
  <2> QED
    BY <2>3, <2>4
<1>8. CASE Commit \/ Abort
  <2>1. parts' = parts /\ topic' = topic
    BY <1>8 DEF Commit, Abort
  <2>2. Covered(k)' <= Covered(k) /\ Covered(k)' \in Nat /\ Covered(k) \in Nat
    BY <1>0, <1>8 DEF Commit, Abort, Covered
  <2>3. o \in 1..Covered(k)
    BY <2>2
  <2> QED
    BY <1>4, <2>1, <2>3, CanonicalKept
<1>9. CASE \E i, j \in DOMAIN parts : Merge(i, j)
  <2>1. topic' = topic /\ Covered(k)' = Covered(k)
    BY <1>9 DEF Merge, Covered
  <2> QED
    BY <1>4, <1>9, <2>1, CanonicalMerged
<1>10. CASE UNCHANGED vars
  <2>1. parts' = parts /\ Covered(k)' = Covered(k)
    BY <1>10 DEF vars, Covered
  <2> QED
    BY <1>4, <2>1, CanonicalKept
<1> QED
    BY <1>5, <1>6, <1>7, <1>8, <1>9, <1>10 DEF Next

LEMMA IngestInvHolds == Spec => []IngestInv
<1>1. Init => IngestInv
  <2> SUFFICES ASSUME Init
               PROVE  IngestInv
    OBVIOUS
  <2>1. Len(topic) = 0 /\ DOMAIN parts = {}
    BY EmptySeq DEF Init
  <2>2. IngestTypeOK
    BY <2>1, EmptySeq DEF Init, IngestTypeOK
  <2>3. HeldInv /\ CoveredInv
    BY <2>1 DEF Init, HeldInv, CoveredInv, Covered
  <2> QED
    BY <2>2, <2>3 DEF IngestInv
<1>2. IngestInv /\ [Next]_vars => IngestInv'
    BY IngestTypeStep, HeldStep, CoveredStep DEF IngestInv
<1> QED
    BY <1>1, <1>2, PTL DEF Spec

\* A key whose rows are all committed shows its last row of the greatest version,
\* for any number of rows, keys and parts and any sequence of blocks, of blocks
\* given up after some of their parts were in, and of merges.
THEOREM CommittedCanonical == Spec => []CommittedIsCanonical
<1>1. IngestInv => CommittedIsCanonical
  <2> SUFFICES ASSUME IngestInv, NEW k \in Keys, polled = committed,
                      NEW w \in 1..Len(topic), topic[w].key = k,
                      \A o \in 1..Len(topic) : topic[o].key = k => o \in 1..committed
               PROVE  /\ Canonical(k) \in 1..Len(topic)
                      /\ topic[Canonical(k)].key = k
                      /\ \A o \in 1..Len(topic) : topic[o].key = k =>
                            AtMost(o, Canonical(k))
    BY DEF CommittedIsCanonical, AtMost
  <2>1. Covered(k) = committed
    BY DEF Covered, IngestInv, CoveredInv
  <2>2. \A o \in 1..Len(topic) : topic[o].key = k =>
            Canonical(k) # 0 /\ AtMost(o, Canonical(k))
    BY <2>1 DEF IngestInv, CoveredInv
  <2> QED
    BY <2>2, CanonicalShown DEF IngestInv
<1> QED
    BY <1>1, IngestInvHolds, PTL

\* A reader of the canonical view cannot tell whether parts have been merged.
THEOREM MergesInvisible == Spec => MergeInvisible
<1>1. IngestInv /\ [Next]_vars =>
        [(\E i, j \in DOMAIN parts : Merge(i, j))
            => \A k \in Keys : Canonical(k)' = Canonical(k)]_vars
    BY CanonicalMerged DEF IngestInv
<1> QED
    BY <1>1, IngestInvHolds, PTL DEF Spec, MergeInvisible

\* However often a block is read again, no key leaves the canonical view or goes
\* back to a lesser version.
THEOREM VersionsAdvance == Spec => VersionsNeverDecrease
<1>1. ASSUME IngestInv, [Next]_vars, NEW k \in Keys, Canonical(k) # 0
      PROVE  /\ Canonical(k)' # 0
             /\ topic'[Canonical(k)'].version >= topic[Canonical(k)].version
  <2> USE DEF IngestInv
  <2>1. Canonical(k) \in 1..Len(topic) /\ topic[Canonical(k)].version \in Int
    BY <1>1, CanonicalShown
  <2>2. \A o \in 1..Len(topic) : topic'[o] = topic[o]
    <3>1. CASE \E row \in Rows : Produce(row)
      BY <3>1, <1>1, AppendProperties DEF Produce, IngestTypeOK
    <3> QED
      BY <1>1, <3>1 DEF Next, Poll, Insert, Commit, Abort, Merge, vars
  <2>3. CASE Canonical(k)' = Canonical(k)
    BY <1>1, <2>1, <2>2, <2>3
  <2>4. CASE Canonical(k)' = Replacing(Canonical(k), Survivor(k))
    <3>1. CASE Canonical(k)' = Canonical(k)
      BY <2>3, <3>1
    <3>2. CASE Canonical(k)' # Canonical(k)
      <4>1. /\ Survivor(k) # 0 /\ Canonical(k)' = Survivor(k)
            /\ topic[Survivor(k)].version >= topic[Canonical(k)].version
        BY <1>1, <2>4, <3>2 DEF Replacing
      <4>2. Survivor(k) \in 1..Len(topic)
        BY <1>1, <4>1, SurvivorIs, TopicTypes DEF Block
      <4> QED
        BY <2>2, <4>1, <4>2
    <3> QED
      BY <3>1, <3>2
  <2> QED
    BY <1>1, <2>3, <2>4, CanonicalStep
<1>2. IngestInv /\ [Next]_vars =>
        [\A k \in Keys : Canonical(k) # 0 =>
            /\ Canonical(k)' # 0
            /\ topic'[Canonical(k)'].version >= topic[Canonical(k)].version]_vars
    BY <1>1
<1> QED
    BY <1>2, IngestInvHolds, PTL DEF Spec, VersionsNeverDecrease
=============================================================================
