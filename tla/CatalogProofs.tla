--------------------------- MODULE CatalogProofs ---------------------------
(***************************************************************************)
(* The catalog from the source file to ClickHouse, for any source files,   *)
(* batch size, products, and number of runs, updates, loads, failures and  *)
(* rereads.                                                                *)
(*                                                                         *)
(* The generator: the table and the pending rows together count what has   *)
(* been read, so that at the end of the file the table holds the           *)
(* reference's occurrences; and exactly one key of a product in the table  *)
(* is dominant, so that the manifest counts the rows of its catalog.       *)
(*                                                                         *)
(* PostgreSQL, the connector and ClickHouse: what the topic says or is     *)
(* going to say of a product is at or below its row in the table, and that *)
(* row is always among it (the comment above CdcInv's parts).              *)
(***************************************************************************)
EXTENDS CatalogCdc, FiniteSetTheorems, FunctionTheorems, WellFoundedInduction,
        TLAPS

\* The rows read so far that count, and those of one key among a set of rows.
Accepted == {i \in 1..position : KeyAccepted(source[i])}
Counted(rows, k) == {i \in rows : KeyOf(source[i]) = k}

AllRows == [well_formed : BOOLEAN, user : Int, item : Int,
            category : Int, behavior : STRING, timestamp : Int]

-----------------------------------------------------------------------------
LEMMA SmallestExists ==
    ASSUME NEW S \in SUBSET Nat, S # {}
    PROVE  \E n \in S : \A m \in S : n <= m
<1> DEFINE T == {1..n : n \in S}
<1>1. T # {}
    OBVIOUS
<1>2. T \subseteq FiniteSubsetsOf(Nat)
  <2>1. ASSUME NEW n \in S
        PROVE  1..n \in FiniteSubsetsOf(Nat)
    <3>1. n \in Int /\ 1 \in Int /\ 1..n \subseteq Nat
        OBVIOUS
    <3> QED
        BY <3>1, FS_Interval DEF FiniteSubsetsOf
  <2> QED
    BY <2>1
<1>3. PICK x \in T : \A y \in T : <<y, x>> \notin StrictSubsetOrdering(Nat)
  <2> HIDE DEF T
  <2> QED
    BY <1>1, <1>2, FS_StrictSubsetOrderingWellFounded, WFMin
<1>4. PICK n \in S : x = 1..n
    OBVIOUS
<1>5. ASSUME NEW m \in S, m < n
      PROVE  FALSE
  <2>1. 1..m \in T /\ 1..m \subseteq 1..n /\ n \in 1..n /\ n \notin 1..m
    BY <1>5
  <2>2. <<1..m, x>> \in StrictSubsetOrdering(Nat)
    BY <1>4, <2>1 DEF StrictSubsetOrdering
  <2> QED
    BY <1>3, <2>1, <2>2
<1> QED
    BY <1>5

\* A file that is being read, or none, is a sequence of rows.
LEMMA RowsTyped ==
    ASSUME NEW f \in SourceFiles \cup {NoSource}
    PROVE  /\ f \in Seq(AllRows)
           /\ DOMAIN f = 1..Len(f) /\ Len(f) \in Nat
           /\ \A i \in 1..Len(f) : f[i] \in AllRows
<1>1. CASE f \in SourceFiles
  <2>1. f \in Seq(AllRows)
    BY <1>1, SourceFilesAssumption, Zenon DEF AllRows
  <2> QED
    BY <2>1
<1>2. CASE f = NoSource
    BY <1>2 DEF NoSource
<1> QED
    BY <1>1, <1>2

LEMMA KeysArePairs == Keys \subseteq Int \X Int
<1> SUFFICES ASSUME NEW f \in SourceFiles, NEW i \in DOMAIN f
             PROVE  KeyOf(f[i]) \in Int \X Int
    BY DEF Keys
<1>1. f[i] \in AllRows
    BY RowsTyped
<1> QED
    BY <1>1 DEF AllRows, KeyOf

\* _parse_catalog_key accepts what the client sends and the job finds valid.
LEMMA SameRows ==
    ASSUME NEW f \in SourceFiles \cup {NoSource}, NEW i \in 1..Len(f)
    PROVE  KeyAccepted(f[i]) <=> JobAccepts(f, i)
<1>1. f[i] \in AllRows
    BY RowsTyped
<1>2. 1000 * f[i].timestamp <= 0 <=> f[i].timestamp <= 0
    BY <1>1 DEF AllRows
<1> DEFINE e == ParseEvent(f[i], i - 1, "run")
<1>3. e.event_id # BlankId
    BY DEF ParseEvent, UserBehaviorEvent, DeterministicEventId, BlankId
<1>4. /\ e.user = f[i].user /\ e.item = f[i].item /\ e.category = f[i].category
      /\ e.behavior = f[i].behavior /\ e.time = 1000 * f[i].timestamp
    BY DEF ParseEvent, UserBehaviorEvent
<1>5. Valid(e) <=> /\ ~(e.user <= 0 \/ e.item <= 0 \/ e.category <= 0)
                   /\ ~(e.time <= 0)
                   /\ e.behavior \in BehaviorTypes
  <2> HIDE DEF e
  <2> QED
    BY <1>3 DEF Valid, ValidationReason, None
<1>6. /\ f[i].user \in Int /\ f[i].item \in Int /\ f[i].category \in Int
      /\ f[i].timestamp \in Int
    BY <1>1 DEF AllRows
<1> QED
  <2> HIDE DEF e
  <2>1. Valid(e) <=> /\ f[i].user > 0 /\ f[i].item > 0 /\ f[i].category > 0
                     /\ f[i].timestamp > 0
                     /\ f[i].behavior \in BehaviorTypes
    BY <1>2, <1>4, <1>5, <1>6
  <2> QED
    BY <2>1 DEF KeyAccepted, JobAccepts, RowAccepted, e

-----------------------------------------------------------------------------
(* One dominant category per product. *)

LEMMA DominantExists ==
    ASSUME NEW obs \in [Keys -> Nat], NEW b \in Nat,
           \A k \in Keys : obs[k] <= b,
           \A k \in Observed(obs) : k[2] \in Nat,
           NEW k0 \in Observed(obs)
    PROVE  \E k \in Dominant(obs) : k[1] = k0[1]
<1> DEFINE T == {l \in Observed(obs) : l[1] = k0[1]}
<1> DEFINE S == {b - obs[l] : l \in T}
<1>1. k0 \in T /\ T \subseteq Keys
    BY DEF Observed
<1>2. S \in SUBSET Nat /\ S # {}
    BY <1>1
<1>3. PICK n \in S : \A m \in S : n <= m
  <2> HIDE DEF S
  <2> QED
    BY <1>2, SmallestExists
<1>4. PICK l1 \in T : n = b - obs[l1]
    OBVIOUS
<1>5. \A l \in T : obs[l] <= obs[l1]
  <2> TAKE l \in T
  <2>1. b - obs[l] \in S
    OBVIOUS
  <2>2. b - obs[l1] <= b - obs[l]
    BY <1>3, <1>4, <2>1
  <2>3. obs[l] \in Nat /\ obs[l1] \in Nat
    BY <1>1
  <2> QED
    BY <2>2, <2>3
<1> DEFINE R == {l \in T : obs[l] = obs[l1]}
<1> DEFINE C == {l[2] : l \in R}
<1>6. C \in SUBSET Nat /\ C # {}
    BY DEF Observed
<1>7. PICK c \in C : \A d \in C : c <= d
  <2> HIDE DEF C
  <2> QED
    BY <1>6, SmallestExists
<1>8. PICK k \in R : c = k[2]
    OBVIOUS
<1>9. k \in Keys /\ obs[k] > 0 /\ obs[k] = obs[l1] /\ k[1] = k0[1]
    BY DEF Observed
<1>10. ASSUME NEW l \in Keys, l[1] = k[1], l # k
       PROVE  obs[k] > obs[l] \/ (obs[k] = obs[l] /\ k[2] <= l[2])
  <2>1. obs[l] \in Nat /\ obs[k] \in Nat
    BY <1>9
  <2>2. CASE l \in Observed(obs)
    <3>1. l \in T /\ obs[l] <= obs[k]
        BY <1>5, <1>9, <1>10, <2>2
    <3>2. obs[l] = obs[k] => l[2] \in C
        BY <1>9, <3>1
    <3> QED
        BY <1>7, <1>8, <2>1, <3>1, <3>2
  <2>3. CASE l \notin Observed(obs)
    BY <1>9, <2>1, <2>3 DEF Observed
  <2> QED
    BY <2>2, <2>3
<1> QED
    BY <1>9, <1>10 DEF Dominant

LEMMA DominantPerProduct ==
    ASSUME NEW obs \in [Keys -> Nat], NEW b \in Nat,
           \A k \in Keys : obs[k] <= b,
           \A k \in Observed(obs) : k[2] \in Nat,
           IsFiniteSet(Observed(obs))
    PROVE  /\ IsFiniteSet(Products(Observed(obs)))
           /\ Cardinality(Products(Observed(obs))) = Cardinality(Dominant(obs))
<1> DEFINE F == [k \in Dominant(obs) |-> k[1]]
<1>1. Dominant(obs) \subseteq Observed(obs)
    BY DEF Dominant, Observed
<1>2. IsFiniteSet(Dominant(obs))
    BY <1>1, FS_Subset
<1>3. F \in [Dominant(obs) -> Products(Observed(obs))]
    BY <1>1 DEF Products
<1>4. ASSUME NEW k \in Dominant(obs), NEW l \in Dominant(obs), k[1] = l[1]
      PROVE  k = l
  <2> SUFFICES ASSUME k # l
               PROVE  FALSE
    OBVIOUS
  <2>1. k \in Keys /\ l \in Keys /\ obs[k] \in Nat /\ obs[l] \in Nat
    BY DEF Dominant
  <2>2. k[2] \in Int /\ l[2] \in Int /\ k = <<k[1], k[2]>> /\ l = <<l[1], l[2]>>
    BY <2>1, KeysArePairs
  <2>3. obs[k] > obs[l] \/ (obs[k] = obs[l] /\ k[2] <= l[2])
    BY <1>4, <2>1 DEF Dominant
  <2>4. obs[l] > obs[k] \/ (obs[l] = obs[k] /\ l[2] <= k[2])
    BY <1>4, <2>1 DEF Dominant
  <2>5. k[2] = l[2]
    BY <2>1, <2>2, <2>3, <2>4
  <2> QED
    BY <1>4, <2>2, <2>5
<1>5. \A p \in Products(Observed(obs)) : \E k \in Dominant(obs) : F[k] = p
  <2> SUFFICES ASSUME NEW k0 \in Observed(obs)
               PROVE  \E k \in Dominant(obs) : F[k] = k0[1]
    BY DEF Products
  <2>1. PICK k \in Dominant(obs) : k[1] = k0[1]
    BY DominantExists
  <2> QED
    BY <2>1
<1>6. F \in Bijection(Dominant(obs), Products(Observed(obs)))
    BY <1>3, <1>4, <1>5, Fun_IsBij
<1>7. ExistsBijection(Dominant(obs), Products(Observed(obs)))
    BY <1>6 DEF ExistsBijection
<1> QED
    BY <1>2, <1>7, FS_Bijection

-----------------------------------------------------------------------------
(* The inductive invariant. *)

\* What the table holds and what is pending are the rows that count, once each.
CountInv ==
    /\ pending \subseteq Accepted
    /\ \A k \in Keys : observations[k] = Cardinality(Counted(Accepted \ pending, k))
    /\ counts.valid + counts.rejected = position

\* Between the two files the database is complete and the catalog is its own.
ReplacedInv ==
    phase = "replaced" =>
        /\ position = Len(source) /\ pending = {}
        /\ csv.rows = Dominant(observations)

GInv ==
    /\ GeneratorTypeOK
    /\ phase = "idle" => source = NoSource
    /\ CountInv
    /\ ReplacedInv
    /\ GeneratedIsDominant

LEMMA PositionTyped ==
    ASSUME GeneratorTypeOK
    PROVE  /\ position \in Nat /\ Len(source) \in Nat /\ position <= Len(source)
           /\ 1..position \subseteq 1..Len(source)
           /\ \A i \in 1..position : source[i] \in AllRows
           /\ IsFiniteSet(1..position)
<1>1. Len(source) \in Nat /\ \A i \in 1..Len(source) : source[i] \in AllRows
    BY RowsTyped DEF GeneratorTypeOK
<1>2. position \in Int /\ 1 \in Int
    BY <1>1 DEF GeneratorTypeOK
<1>3. IsFiniteSet(1..position)
    BY <1>2, FS_Interval
<1> QED
    BY <1>1, <1>3 DEF GeneratorTypeOK

\* Adding rows that were not counted adds their number.
LEMMA CountsAdd ==
    ASSUME NEW A, NEW B, IsFiniteSet(A), IsFiniteSet(B), A \cap B = {}, NEW k
    PROVE  Cardinality(Counted(A \cup B, k))
               = Cardinality(Counted(A, k)) + Cardinality(Counted(B, k))
<1>1. IsFiniteSet(Counted(A, k)) /\ IsFiniteSet(Counted(B, k))
    BY FS_Subset DEF Counted
<1>2. Counted(A, k) \cap Counted(B, k) = {}
    BY DEF Counted
<1>3. Counted(A \cup B, k) = Counted(A, k) \cup Counted(B, k)
    BY DEF Counted
<1>4. Cardinality(Counted(A, k)) \in Nat /\ Cardinality(Counted(B, k)) \in Nat
    BY <1>1, FS_CardinalityType
<1>5. Cardinality(Counted(A, k) \cup Counted(B, k))
          = Cardinality(Counted(A, k)) + Cardinality(Counted(B, k)) - 0
  <2>1. Cardinality(Counted(A, k) \cap Counted(B, k)) = 0
    BY <1>2, FS_EmptySet
  <2> QED
    BY <1>1, <2>1, FS_Union
<1>6. Cardinality(Counted(A \cup B, k)) = Cardinality(Counted(A, k) \cup Counted(B, k))
    BY <1>3, Zenon
<1> QED
    BY <1>4, <1>5, <1>6

LEMMA GInit ==
    ASSUME GeneratorInit
    PROVE  GInv
<1>1. position = 0 /\ source = << >> /\ Len(source) = 0 /\ pending = {}
    BY DEF GeneratorInit, NoSource
<1>2. Accepted \ pending = {}
    BY <1>1 DEF Accepted
<1>3. \A k \in Keys : observations[k] = Cardinality(Counted(Accepted \ pending, k))
  <2> TAKE k \in Keys
  <2>1. Counted(Accepted \ pending, k) = {} /\ observations[k] = 0
    BY <1>2 DEF Counted, GeneratorInit, NoObservations
  <2> QED
    BY <2>1, FS_EmptySet
<1>4. CountInv
    BY <1>1, <1>3 DEF CountInv, GeneratorInit
<1>5. GeneratorTypeOK
    BY <1>1, MaxGenerationsAssumption
    DEF GeneratorTypeOK, GeneratorInit, NoObservations, NoCatalog, NoManifest, NoSource
<1> QED
    BY <1>4, <1>5
    DEF GInv, GeneratorInit, ReplacedInv, GeneratedIsDominant, NoCatalog, NoManifest

\* A run that ends leaves the invariant to the two files.
LEMMA EndStep ==
    ASSUME GInv, ProcessEnds, UNCHANGED <<csv, generations>>,
           manifest' \in [state : {"absent", "written", "torn"}, source_rows : Nat,
                          valid : Nat, rejected : Nat, unique_products : Nat,
                          conflicts : Nat, catalog : SUBSET Keys],
           manifest'.state = "written" =>
               /\ manifest'.unique_products = Cardinality(manifest'.catalog)
               /\ manifest'.source_rows = manifest'.valid + manifest'.rejected
    PROVE  GInv'
<1>1. position' = 0 /\ source' = << >> /\ Len(source') = 0 /\ pending' = {}
    BY DEF ProcessEnds, NoSource
<1>2. \A k \in Keys : observations'[k] = Cardinality(Counted(Accepted \ pending, k)')
  <2> TAKE k \in Keys
  <2>1. Counted(Accepted \ pending, k)' = {} /\ observations'[k] = 0
    BY <1>1 DEF Counted, Accepted, ProcessEnds, NoObservations
  <2> QED
    BY <2>1, FS_EmptySet
<1>3. CountInv'
    BY <1>1, <1>2 DEF CountInv, ProcessEnds
<1>4. GeneratorTypeOK'
    BY <1>1 DEF GInv, GeneratorTypeOK, ProcessEnds, NoObservations, NoSource
<1> QED
    BY <1>3, <1>4 DEF GInv, ProcessEnds, ReplacedInv, GeneratedIsDominant

LEMMA RejectStep ==
    ASSUME GInv, RejectRow
    PROVE  GInv'
<1>1. /\ position \in Nat /\ position' = position + 1 /\ position' <= Len(source)
      /\ Len(source) \in Nat
    BY PositionTyped DEF GInv, RejectRow
<1>2. Accepted' = Accepted
  <2>1. 1..position' = 1..position \cup {position + 1}
    BY <1>1
  <2> QED
    BY <2>1 DEF RejectRow, Accepted
<1>3. CountInv'
  <2>1. counts'.valid + counts'.rejected = position'
    BY <1>1 DEF GInv, CountInv, GeneratorTypeOK, RejectRow
  <2> QED
    BY <1>2, <2>1 DEF GInv, CountInv, RejectRow, Counted
<1>4. GeneratorTypeOK'
  <2>1. counts' \in [valid : Nat, rejected : Nat]
    BY DEF GInv, GeneratorTypeOK, RejectRow
  <2>2. position' \in 0..Len(source') /\ pending' \subseteq 1..position'
    BY <1>1 DEF GInv, GeneratorTypeOK, RejectRow
  <2> QED
    BY <2>1, <2>2 DEF GInv, GeneratorTypeOK, RejectRow
<1> QED
    BY <1>3, <1>4 DEF GInv, RejectRow, ReplacedInv, GeneratedIsDominant

\* A row that counts joins the pending ones; a full batch reaches the table.
LEMMA ReadStep ==
    ASSUME GInv, ReadRow
    PROVE  GInv'
<1> DEFINE held == pending \cup {position + 1}
<1>1. /\ position \in Nat /\ position' = position + 1 /\ position' <= Len(source)
      /\ Len(source) \in Nat /\ IsFiniteSet(1..position)
    BY PositionTyped DEF GInv, ReadRow
<1>2. Accepted' = Accepted \cup {position + 1}
  <2>1. 1..position' = 1..position \cup {position + 1}
    BY <1>1
  <2> QED
    BY <2>1 DEF ReadRow, Accepted
<1>3. Accepted \subseteq 1..position /\ position + 1 \notin 1..position
    BY <1>1 DEF Accepted
<1>4. held \subseteq Accepted' /\ Accepted' \ held = Accepted \ pending
    BY <1>2, <1>3 DEF GInv, CountInv
<1>5. IsFiniteSet(held) /\ IsFiniteSet(Accepted \ pending)
  <2>1. IsFiniteSet(Accepted) /\ IsFiniteSet(pending)
    BY <1>1, <1>3, FS_Subset DEF GInv, GeneratorTypeOK
  <2> QED
    BY <2>1, FS_AddElement, FS_Difference
<1>6. source' = source
    BY DEF ReadRow
<1>7. \A k \in Keys : observations'[k] = Cardinality(Counted(Accepted \ pending, k)')
  <2>1. CASE observations' = Flushed(held) /\ pending' = {}
    <3> TAKE k \in Keys
    <3>1. observations'[k] = observations[k] + Cardinality(Counted(held, k))
        BY <2>1 DEF Flushed, Counted
    <3>2. Cardinality(Counted((Accepted \ pending) \cup held, k))
              = Cardinality(Counted(Accepted \ pending, k)) + Cardinality(Counted(held, k))
      <4>1. (Accepted \ pending) \cap held = {}
        BY <1>4
      <4> QED
        BY <1>5, <4>1, CountsAdd
    <3>3. Accepted' \ pending' = (Accepted \ pending) \cup held
        BY <1>4, <2>1
    <3>4. Counted(Accepted \ pending, k)' = Counted((Accepted \ pending) \cup held, k)
        BY <1>6, <3>3 DEF Counted
    <3> QED
        BY <3>1, <3>2, <3>4 DEF GInv, CountInv
  <2>2. CASE observations' = observations /\ pending' = held
    BY <1>4, <1>6, <2>2 DEF GInv, CountInv, Counted
  <2> QED
    BY <2>1, <2>2 DEF ReadRow
<1>8. CountInv'
  <2>1. counts'.valid + counts'.rejected = position'
    BY <1>1 DEF GInv, CountInv, GeneratorTypeOK, ReadRow
  <2>2. pending' \subseteq Accepted'
    BY <1>4 DEF ReadRow
  <2> QED
    BY <1>7, <2>1, <2>2 DEF CountInv
<1>9. observations' \in [Keys -> Nat]
  <2>1. \A k \in Keys : Cardinality({i \in held : KeyOf(source[i]) = k}) \in Nat
    <3> TAKE k \in Keys
    <3>1. IsFiniteSet({i \in held : KeyOf(source[i]) = k})
        BY <1>5, FS_Subset
    <3> QED
        BY <3>1, FS_CardinalityType
  <2>2. Flushed(held) \in [Keys -> Nat]
    BY <2>1 DEF Flushed, GInv, GeneratorTypeOK
  <2> QED
    BY <2>2 DEF ReadRow, GInv, GeneratorTypeOK
<1>10. GeneratorTypeOK'
  <2>1. counts' \in [valid : Nat, rejected : Nat]
    BY DEF GInv, GeneratorTypeOK, ReadRow
  <2>2. position' \in 0..Len(source')
    BY <1>1, <1>6
  <2>3. pending' \subseteq 1..position'
    <3>1. pending' \subseteq Accepted'
        BY <1>8 DEF CountInv
    <3> QED
        BY <3>1 DEF Accepted
  <2> QED
    BY <1>9, <2>1, <2>2, <2>3 DEF GInv, GeneratorTypeOK, ReadRow
<1> QED
    BY <1>8, <1>10 DEF GInv, ReadRow, ReplacedInv, GeneratedIsDominant

LEMMA DominantIsReference ==
    ASSUME NEW obs \in [Keys -> Nat], NEW f,
           \A k \in Keys : obs[k] = Occurrences(f, k)
    PROVE  Dominant(obs) = DominantOf(f)
<1>1. ASSUME NEW k \in Keys, NEW l \in Keys, l[1] = k[1], l # k
      PROVE  k[2] \in Int /\ l[2] \in Int /\ k[2] # l[2]
  <2>1. k = <<k[1], k[2]>> /\ l = <<l[1], l[2]>> /\ k[2] \in Int /\ l[2] \in Int
    BY KeysArePairs
  <2> QED
    BY <1>1, <2>1
<1>2. ASSUME NEW k \in Keys
      PROVE  k \in Dominant(obs) <=> k \in DominantOf(f)
  <2>1. ASSUME NEW l \in Keys, l[1] = k[1], l # k
        PROVE  (obs[k] > obs[l] \/ (obs[k] = obs[l] /\ k[2] <= l[2]))
                  <=> \/ Occurrences(f, l) < Occurrences(f, k)
                      \/ Occurrences(f, l) = Occurrences(f, k) /\ l[2] > k[2]
    <3>1. /\ obs[k] \in Nat /\ obs[l] \in Nat
          /\ obs[k] = Occurrences(f, k) /\ obs[l] = Occurrences(f, l)
        OBVIOUS
    <3>2. k[2] \in Int /\ l[2] \in Int /\ k[2] # l[2]
        BY <1>1, <2>1
    <3> QED
        BY <3>1, <3>2
  <2>2. obs[k] > 0 <=> Occurrences(f, k) > 0
    OBVIOUS
  <2> QED
    BY <2>1, <2>2, Zenon DEF Dominant, DominantOf
<1> QED
  <2>1. Dominant(obs) \subseteq Keys /\ DominantOf(f) \subseteq Keys
    BY DEF Dominant, DominantOf
  <2> QED
    BY <1>2, <2>1

\* The table is the reference's when the file has been read to its end.
LEMMA WriteStep ==
    ASSUME GInv, WriteCatalog
    PROVE  GInv'
<1>1. /\ position = Len(source) /\ Len(source) \in Nat /\ IsFiniteSet(1..position)
      /\ source' = source /\ position' = position
    BY PositionTyped DEF GInv, WriteCatalog
<1>2. Accepted' = Accepted
    BY <1>1 DEF Accepted
<1>3. IsFiniteSet(pending) /\ IsFiniteSet(Accepted \ pending)
  <2>1. Accepted \subseteq 1..position /\ pending \subseteq 1..position
    BY DEF GInv, GeneratorTypeOK, Accepted
  <2> QED
    BY <1>1, <2>1, FS_Subset, FS_Difference
<1>4. \A k \in Keys : observations'[k] = Cardinality(Counted(Accepted, k))
  <2> TAKE k \in Keys
  <2>1. observations'[k] = observations[k] + Cardinality(Counted(pending, k))
    BY DEF WriteCatalog, Flushed, Counted
  <2>2. Cardinality(Counted((Accepted \ pending) \cup pending, k))
            = Cardinality(Counted(Accepted \ pending, k)) + Cardinality(Counted(pending, k))
    BY <1>3, CountsAdd
  <2>3. (Accepted \ pending) \cup pending = Accepted
    BY DEF GInv, CountInv
  <2> QED
    BY <2>1, <2>2, <2>3 DEF GInv, CountInv
<1>5. observations' \in [Keys -> Nat]
  <2>1. \A k \in Keys : Cardinality({i \in pending : KeyOf(source[i]) = k}) \in Nat
    <3> TAKE k \in Keys
    <3>1. IsFiniteSet({i \in pending : KeyOf(source[i]) = k})
        BY <1>3, FS_Subset
    <3> QED
        BY <3>1, FS_CardinalityType
  <2>2. Flushed(pending) \in [Keys -> Nat]
    BY <2>1 DEF Flushed, GInv, GeneratorTypeOK
  <2> QED
    BY <2>2 DEF WriteCatalog
<1>6. pending' = {}
    BY DEF WriteCatalog
<1>7. CountInv'
  <2>1. \A k \in Keys : observations'[k] = Cardinality(Counted(Accepted \ pending, k)')
    <3> TAKE k \in Keys
    <3>1. Counted(Accepted \ pending, k)' = Counted(Accepted, k)
        BY <1>1, <1>2, <1>6 DEF Counted
    <3> QED
        BY <1>4, <3>1
  <2> QED
    BY <1>1, <1>2, <1>6, <2>1 DEF GInv, CountInv, WriteCatalog
<1>8. Dominant(observations') = DominantOf(source)
  <2>1. source \in SourceFiles \cup {NoSource}
    BY DEF GInv, GeneratorTypeOK
  <2>2. \A k \in Keys : observations'[k] = Occurrences(source, k)
    <3> TAKE k \in Keys
    <3>1. Counted(Accepted, k) = RowsOf(source, k)
      <4>1. DOMAIN source = 1..position
        BY <1>1, <2>1, RowsTyped
      <4>2. \A i \in 1..position : KeyAccepted(source[i]) <=> JobAccepts(source, i)
        BY <1>1, <2>1, SameRows
      <4> QED
        BY <4>1, <4>2, Zenon DEF Counted, Accepted, RowsOf
    <3> QED
        BY <1>4, <3>1 DEF Occurrences
  <2> QED
    BY <1>5, <2>2, DominantIsReference
<1>9. /\ csv' = [exists |-> TRUE, rows |-> Dominant(observations'), of |-> source]
      /\ Dominant(observations') \subseteq Keys
    BY DEF WriteCatalog, Dominant
<1>10. GeneratorTypeOK'
    BY <1>1, <1>5, <1>6, <1>9 DEF GInv, GeneratorTypeOK, WriteCatalog
<1>11. ReplacedInv'
    BY <1>1, <1>6, <1>9 DEF ReplacedInv
<1>12. GeneratedIsDominant'
  <2>1. ReferenceCatalog[source] = DominantOf(source)
    BY DEF GInv, GeneratorTypeOK, ReferenceCatalog
  <2> QED
    BY <1>8, <1>9, <2>1 DEF GInv, GeneratedIsDominant, WriteCatalog
<1> QED
    BY <1>7, <1>10, <1>11, <1>12 DEF GInv, WriteCatalog

LEMMA StartStep ==
    ASSUME GInv, NEW f \in SourceFiles, StartGeneration(f)
    PROVE  GInv'
<1>1. /\ source = << >> /\ Len(source) = 0 /\ position = 0 /\ position' = 0
      /\ pending = {} /\ pending' = {}
    BY DEF GInv, GeneratorTypeOK, StartGeneration, NoSource
<1>2. Len(f) \in Nat
    BY RowsTyped
<1>3. Accepted \ pending = {} /\ Accepted' \ pending' = {}
    BY <1>1 DEF Accepted
<1>4. CountInv'
  <2>1. \A k \in Keys : Counted(Accepted \ pending, k)' = Counted(Accepted \ pending, k)
    BY <1>3 DEF Counted
  <2> QED
    BY <1>1, <2>1 DEF GInv, CountInv, StartGeneration
<1>5. GeneratorTypeOK'
  <2>1. generations' \in 0..MaxGenerations
    BY MaxGenerationsAssumption DEF GInv, GeneratorTypeOK, StartGeneration
  <2> QED
    BY <1>1, <1>2, <2>1 DEF GInv, GeneratorTypeOK, StartGeneration
<1> QED
    BY <1>4, <1>5 DEF GInv, StartGeneration, ReplacedInv, GeneratedIsDominant

\* What the manifest counts are the rows of the catalog it is written for.
LEMMA ManifestTrue ==
    ASSUME GInv, phase = "replaced"
    PROVE  /\ CatalogManifest \in
                  [state : {"absent", "written", "torn"}, source_rows : Nat,
                   valid : Nat, rejected : Nat, unique_products : Nat,
                   conflicts : Nat, catalog : SUBSET Keys]
           /\ CatalogManifest.unique_products = Cardinality(CatalogManifest.catalog)
           /\ CatalogManifest.source_rows
                  = CatalogManifest.valid + CatalogManifest.rejected
<1> DEFINE R == Accepted \ pending
<1>1. /\ position \in Nat /\ R \subseteq 1..position /\ IsFiniteSet(1..position)
      /\ \A i \in R : source[i] \in AllRows /\ KeyAccepted(source[i])
    BY PositionTyped DEF GInv, Accepted
<1>2. IsFiniteSet(R) /\ Cardinality(R) \in Nat
    BY <1>1, FS_Subset, FS_CardinalityType
<1>3. \A k \in Keys : observations[k] <= Cardinality(R)
  <2> TAKE k \in Keys
  <2>1. Counted(R, k) \in SUBSET R
    BY DEF Counted
  <2>2. Cardinality(Counted(R, k)) <= Cardinality(R)
    BY <1>2, <2>1, FS_Subset
  <2> QED
    BY <2>2 DEF GInv, CountInv
<1> DEFINE F == [i \in R |-> KeyOf(source[i])]
<1> DEFINE T == {KeyOf(source[i]) : i \in R}
<1>4. IsFiniteSet(T)
  <2>1. F \in Surjection(R, T)
    BY Fun_IsSurj
  <2> QED
    BY <1>2, <2>1, FS_Surjection
<1>5. Observed(observations) \subseteq T
  <2> SUFFICES ASSUME NEW k \in Keys, observations[k] > 0
               PROVE  k \in T
    BY DEF Observed
  <2>1. Cardinality(Counted(R, k)) # 0
    <3>1. observations[k] # 0
        BY DEF GInv, GeneratorTypeOK
    <3>2. observations[k] = Cardinality(Counted(R, k))
        BY Zenon DEF GInv, CountInv
    <3> QED
        BY <3>1, <3>2, Zenon
  <2>2. Counted(R, k) # {}
    BY <2>1, FS_EmptySet
  <2> QED
    BY <2>2 DEF Counted
<1>6. IsFiniteSet(Observed(observations))
    BY <1>4, <1>5, FS_Subset
<1>7. \A k \in Observed(observations) : k[2] \in Nat
  <2>1. \A i \in R : KeyOf(source[i])[2] \in Nat
    BY <1>1 DEF KeyOf, KeyAccepted, AllRows
  <2> QED
    BY <1>5, <2>1
<1>8. observations \in [Keys -> Nat]
    BY DEF GInv, GeneratorTypeOK
<1>9. /\ IsFiniteSet(Products(Observed(observations)))
      /\ Cardinality(Products(Observed(observations)))
             = Cardinality(Dominant(observations))
  <2> HIDE DEF R
  <2> QED
    BY <1>2, <1>3, <1>6, <1>7, <1>8, DominantPerProduct
<1>10. /\ Cardinality(Products(Observed(observations))) \in Nat
       /\ Cardinality(Conflicting(Observed(observations))) \in Nat
  <2>1. Conflicting(Observed(observations)) \in SUBSET Products(Observed(observations))
    BY DEF Conflicting, Products
  <2> QED
    BY <1>9, <2>1, FS_Subset, FS_CardinalityType
<1>11. /\ csv.rows \in SUBSET Keys /\ counts.valid \in Nat /\ counts.rejected \in Nat
       /\ counts.valid + counts.rejected = position
       /\ csv.rows = Dominant(observations)
    BY DEF GInv, GeneratorTypeOK, CountInv, ReplacedInv
<1>12. /\ CatalogManifest.unique_products
              = Cardinality(Products(Observed(observations)))
       /\ CatalogManifest.catalog = csv.rows
       /\ CatalogManifest.source_rows = position
       /\ CatalogManifest.valid = counts.valid
       /\ CatalogManifest.rejected = counts.rejected
    BY DEF CatalogManifest
<1>13. Cardinality(CatalogManifest.catalog) = Cardinality(Dominant(observations))
    BY <1>11, <1>12, Zenon
<1> QED
    BY <1>1, <1>9, <1>10, <1>11, <1>12, <1>13 DEF CatalogManifest

LEMMA ManifestStep ==
    ASSUME GInv, WriteManifest
    PROVE  GInv'
    BY ManifestTrue, EndStep DEF WriteManifest

LEMMA KillStep ==
    ASSUME GInv, KillGenerator
    PROVE  GInv'
<1>1. CASE UNCHANGED manifest
    BY <1>1, EndStep DEF GInv, GeneratorTypeOK, GeneratedIsDominant, KillGenerator
<1>2. CASE manifest' = [NoManifest EXCEPT !.state = "torn"]
  <2>1. /\ manifest' \in [state : {"absent", "written", "torn"}, source_rows : Nat,
                           valid : Nat, rejected : Nat, unique_products : Nat,
                           conflicts : Nat, catalog : SUBSET Keys]
        /\ manifest'.state # "written"
    BY <1>2 DEF NoManifest
  <2> QED
    BY <2>1, EndStep DEF KillGenerator
<1> QED
    BY <1>1, <1>2 DEF KillGenerator

LEMMA GStep ==
    ASSUME GInv, [GeneratorNext]_generatorVars
    PROVE  GInv'
<1>1. CASE GeneratorNext
    BY <1>1, StartStep, RejectStep, ReadStep, WriteStep, ManifestStep, KillStep
    DEF GeneratorNext
<1>2. CASE UNCHANGED generatorVars
  <2>1. \A k : Counted(Accepted \ pending, k)' = Counted(Accepted \ pending, k)
    BY <1>2 DEF generatorVars, Counted, Accepted
  <2>2. CountInv'
    BY <1>2, <2>1 DEF generatorVars, GInv, CountInv, Accepted
  <2> QED
    BY <1>2, <2>2
    DEF generatorVars, GInv, GeneratorTypeOK, ReplacedInv, GeneratedIsDominant
<1> QED
    BY <1>1, <1>2

-----------------------------------------------------------------------------
\* For any source files, batch size and number of runs, killed ones included,
\* the catalog file is the reference's for a whole source file, and a manifest
\* counts the products of the catalog it was written for (generator.py:80-201).
THEOREM CatalogIsReference == GeneratorSpec => []GeneratedIsDominant
<1>1. GeneratorInit => GInv
    BY GInit
<1>2. GInv /\ [GeneratorNext]_generatorVars => GInv'
    BY GStep
<1>3. GInv => GeneratedIsDominant
    BY DEF GInv
<1> QED
    BY <1>1, <1>2, <1>3, PTL DEF GeneratorSpec

-----------------------------------------------------------------------------
(***************************************************************************)
(* From PostgreSQL to ClickHouse.  The generator is left alone by every    *)
(* other step, so what is proved of it holds of the whole.                 *)
(*                                                                         *)
(* Everything the connector has sent or is still to send is Told.  While   *)
(* no load is made behind its back, the version trigger keeps what is told *)
(* at or below the version in the table, and of the table's content where  *)
(* the versions are equal; and the row in the table is always among what   *)
(* is told, wherever the task would go on after a failure.                 *)
(***************************************************************************)
Contents == {0} \cup Edits \cup {Seed[p] : p \in DOMAIN Seed} \cup {k[2] : k \in Keys}
CatalogRows == [version : Nat, content : Contents]
Changes == [product : ProductIds, version : Nat \ {0}, content : Contents]
Tasks == [phase : {"none", "starting", "snapshot", "streaming"}, todo : Seq(Changes),
          from : Nat, position : Nat]

CdcTypeOK ==
    /\ table \in [ProductIds -> CatalogRows]
    /\ \A p \in ProductIds : table[p] = NoRow \/ table[p].version > 0
    /\ IsFiniteSet(Present(table))
    /\ wal \in Seq(Changes)
    /\ loaded \in [result : {"none", "ok", "failed"}, unique_products : Nat]
    /\ reloaded \in BOOLEAN /\ registered \in BOOLEAN
    /\ task \in Tasks
    /\ task.phase = "snapshot" => task.from <= Len(wal)
    /\ task.phase = "streaming" => task.position <= Len(wal)
    /\ task.phase # "snapshot" => task.todo = << >>
    /\ stored \in {NoOffset} \cup Nat
    /\ stored # NoOffset => stored <= Len(wal)
    /\ topic \in Seq(Changes)
    /\ current \in [ProductIds -> CatalogRows]
    /\ consumed \in 0..Len(topic)

\* Nothing is told before the registration.
QuietInv == ~registered => task = NoTask /\ stored = NoOffset /\ topic = << >>

Sent(c) == \E i \in DOMAIN topic : topic[i] = c
InSnapshot(c) == \E i \in DOMAIN task.todo : task.todo[i] = c
LoggedAfter(n, c) == \E i \in DOMAIN wal : i > n /\ wal[i] = c

Told(c) ==
    \/ Sent(c)
    \/ InSnapshot(c)
    \/ task.phase = "snapshot" /\ LoggedAfter(task.from, c)
    \/ task.phase = "streaming" /\ LoggedAfter(task.position, c)
    \/ stored # NoOffset /\ LoggedAfter(stored, c)

\* A change is at or below the table's row, and is it if the versions agree.
Behind(c) ==
    /\ c.version <= table[c.product].version
    /\ c.version = table[c.product].version => c.content = table[c.product].content

SameVersion(c, d) == c.product = d.product /\ c.version = d.version

ToldInv ==
    ~reloaded =>
        /\ \A c \in Changes : Told(c) => Behind(c)
        /\ \A c, d \in Changes :
              Told(c) /\ Told(d) /\ SameVersion(c, d) => c.content = d.content

RowChange(p) == Change(p, table[p])

LatestInv ==
    ~reloaded => \A p \in Present(table) :
        /\ task.phase = "snapshot" =>
              Sent(RowChange(p)) \/ InSnapshot(RowChange(p))
                  \/ LoggedAfter(task.from, RowChange(p))
        /\ task.phase = "streaming" =>
              Sent(RowChange(p)) \/ LoggedAfter(task.position, RowChange(p))
        /\ stored # NoOffset =>
              Sent(RowChange(p)) \/ LoggedAfter(stored, RowChange(p))

\* ClickHouse holds the greatest version of what it has consumed.
ConsumedInv ==
    /\ \A i \in 1..consumed : current[topic[i].product].version >= topic[i].version
    /\ \A p \in ProductIds : current[p] = NoRow \/ Sent(Change(p, current[p]))

LoadedInv ==
    loaded.result = "ok" => Cardinality(Present(table)) = loaded.unique_products

CdcInv ==
    CdcTypeOK /\ QuietInv /\ ToldInv /\ LatestInv /\ ConsumedInv /\ LoadedInv

-----------------------------------------------------------------------------
LEMMA AppendsAt ==
    ASSUME NEW S, NEW s \in Seq(S), NEW e \in S, NEW t, t = Append(s, e)
    PROVE  /\ t \in Seq(S) /\ Len(t) = Len(s) + 1 /\ Len(s) \in Nat
           /\ DOMAIN t = 1..(Len(s) + 1) /\ DOMAIN s = 1..Len(s)
           /\ \A i \in DOMAIN s : t[i] = s[i]
           /\ t[Len(s) + 1] = e
    OBVIOUS

LEMMA LogAppended ==
    ASSUME CdcTypeOK, NEW c \in Changes, wal' = Append(wal, c), NEW n \in Nat
    PROVE  /\ \A d : LoggedAfter(n, d)' => LoggedAfter(n, d) \/ d = c
           /\ \A d : LoggedAfter(n, d) => LoggedAfter(n, d)'
           /\ n <= Len(wal) => LoggedAfter(n, c)'
<1>1. /\ Len(wal) \in Nat /\ DOMAIN wal' = 1..(Len(wal) + 1) /\ DOMAIN wal = 1..Len(wal)
      /\ \A i \in DOMAIN wal : wal'[i] = wal[i]
      /\ wal'[Len(wal) + 1] = c
    BY AppendsAt DEF CdcTypeOK
<1>2. \A d : LoggedAfter(n, d)' => LoggedAfter(n, d) \/ d = c
    BY <1>1 DEF LoggedAfter
<1>3. \A d : LoggedAfter(n, d) => LoggedAfter(n, d)'
    BY <1>1 DEF LoggedAfter
<1>4. n <= Len(wal) => LoggedAfter(n, c)'
    BY <1>1 DEF LoggedAfter
<1> QED
    BY <1>2, <1>3, <1>4

LEMMA TopicAppended ==
    ASSUME CdcTypeOK, NEW c \in Changes, topic' = Append(topic, c)
    PROVE  /\ \A d : Sent(d)' <=> Sent(d) \/ d = c
           /\ topic' \in Seq(Changes)
           /\ Len(topic) \in Nat /\ Len(topic') = Len(topic) + 1
           /\ \A i \in 1..Len(topic) : topic'[i] = topic[i]
<1>1. /\ topic' \in Seq(Changes) /\ Len(topic') = Len(topic) + 1 /\ Len(topic) \in Nat
      /\ DOMAIN topic' = 1..(Len(topic) + 1) /\ DOMAIN topic = 1..Len(topic)
      /\ \A i \in DOMAIN topic : topic'[i] = topic[i]
      /\ topic'[Len(topic) + 1] = c
    BY AppendsAt DEF CdcTypeOK
<1>2. \A d : Sent(d)' <=> Sent(d) \/ d = c
    BY <1>1 DEF Sent
<1> QED
    BY <1>1, <1>2

\* Less is told, of the same rows.
LEMMA ToldFewer ==
    ASSUME ToldInv, UNCHANGED <<table, reloaded>>,
           \A c \in Changes : Told(c)' => Told(c)
    PROVE  ToldInv'
<1>1. \A c \in Changes : Behind(c)' <=> Behind(c)
    BY DEF Behind
<1>2. \A c, d : SameVersion(c, d)' <=> SameVersion(c, d)
    BY DEF SameVersion
<1> QED
    BY <1>1, <1>2 DEF ToldInv

LEMMA RowTold ==
    ASSUME CdcTypeOK, NEW p \in Present(table)
    PROVE  /\ RowChange(p) \in Changes /\ Behind(RowChange(p))
           /\ RowChange(p).product = p /\ RowChange(p).version = table[p].version
           /\ RowChange(p).content = table[p].content
<1>1. p \in ProductIds /\ table[p] \in CatalogRows /\ table[p].version > 0
    BY DEF Present, CdcTypeOK
<1>2. table[p].version \in Nat \ {0} /\ table[p].content \in Contents
    BY <1>1 DEF CatalogRows
<1>3. /\ RowChange(p) \in Changes
      /\ RowChange(p).product = p /\ RowChange(p).version = table[p].version
      /\ RowChange(p).content = table[p].content
    BY <1>1, <1>2 DEF RowChange, Change, Changes
<1> QED
    BY <1>2, <1>3 DEF Behind

LEMMA CdcInit ==
    ASSUME Init
    PROVE  CdcInv
<1>1. CdcTypeOK
  <2>1. table \in [ProductIds -> CatalogRows]
    <3>1. \A p \in DOMAIN Seed : [version |-> 1, content |-> Seed[p]] \in CatalogRows
        BY DEF CatalogRows, Contents
    <3>2. NoRow \in CatalogRows
        BY DEF NoRow, CatalogRows, Contents
    <3> QED
        BY <3>1, <3>2 DEF Init
  <2>2. \A p \in ProductIds : table[p] = NoRow \/ table[p].version > 0
      BY DEF Init
  <2>3. current \in [ProductIds -> CatalogRows]
      BY DEF Init, NoRow, CatalogRows, Contents
  <2>4. task \in Tasks
      BY DEF Init, NoTask, Tasks
  <2>5. wal \in Seq(Changes) /\ topic \in Seq(Changes) /\ consumed \in 0..Len(topic)
      BY DEF Init
  <2>6. /\ loaded \in [result : {"none", "ok", "failed"}, unique_products : Nat]
        /\ reloaded \in BOOLEAN /\ registered \in BOOLEAN
        /\ stored = NoOffset
      BY DEF Init
  <2>7. task.phase = "none" /\ task.todo = << >>
      BY DEF Init, NoTask
  <2>8. IsFiniteSet(Present(table))
    <3>1. Present(table) \subseteq DOMAIN Seed
        BY DEF Present, Init
    <3> QED
        BY <3>1, SeedAssumption, FS_Subset
  <2> QED
      BY <2>8, <2>1, <2>2, <2>3, <2>4, <2>5, <2>6, <2>7 DEF CdcTypeOK
<1>2. \A c : ~Told(c)
    BY DEF Told, Sent, InSnapshot, Init, NoTask
<1>3. QuietInv /\ LoadedInv
    BY DEF QuietInv, LoadedInv, Init
<1>4. ToldInv
    BY <1>2 DEF ToldInv
<1>5. LatestInv
    BY DEF LatestInv, Init, NoTask
<1>6. ConsumedInv
    BY DEF ConsumedInv, Init
<1> QED
    BY <1>1, <1>3, <1>4, <1>5, <1>6 DEF CdcInv

-----------------------------------------------------------------------------
(* PostgreSQL. *)

LEMMA UpdateStep ==
    ASSUME CdcInv, NEW p \in ProductIds, NEW row \in UpdatedRows, Update(p, row)
    PROVE  CdcInv'
<1> DEFINE c == Change(p, row)
<1>1. /\ row \in CatalogRows /\ row.version > 0 /\ row # NoRow
      /\ row.version \in Nat \ {0} /\ row.content \in Contents
  <2>1. row.version \in Nat \ {0} /\ row.content \in Edits
      BY CatalogBounds DEF UpdatedRows
  <2> QED
      BY <2>1 DEF UpdatedRows, CatalogRows, Contents, NoRow
<1>2. /\ c \in Changes /\ c.product = p /\ c.version = row.version
      /\ c.content = row.content
    BY <1>1 DEF Change, Changes
<1>3. /\ table \in [ProductIds -> CatalogRows]
      /\ table[p] # NoRow /\ table[p].version \in Nat /\ table[p].content \in Contents
      /\ table' = [table EXCEPT ![p] = row]
      /\ row.version >= table[p].version
      /\ row.version = table[p].version => row.content = table[p].content
    BY DEF CdcInv, CdcTypeOK, Update, TriggerAccepts, CatalogRows
<1>4. wal' = Append(wal, c)
    BY DEF Update
<1>5. /\ UNCHANGED <<loaded, reloaded, registered, task, stored, topic>>
      /\ UNCHANGED <<current, consumed>>
    BY DEF Update, taskVars, sinkVars
<1>6. CdcTypeOK
    BY DEF CdcInv
<1> HIDE DEF c
<1>7. wal' \in Seq(Changes) /\ Len(wal) \in Nat /\ Len(wal') = Len(wal) + 1
    BY <1>2, <1>4, <1>6, AppendsAt DEF CdcTypeOK
<1>8. task \in Tasks /\ task.from \in Nat /\ task.position \in Nat
      /\ (stored # NoOffset => stored \in Nat)
    BY <1>6 DEF CdcTypeOK, Tasks
<1>16. Present(table)' = Present(table)
    BY <1>1, <1>3 DEF Present
<1>9. CdcTypeOK'
  <2>1. table' \in [ProductIds -> CatalogRows]
      BY <1>1, <1>3
  <2>2. \A q \in ProductIds : table'[q] = NoRow \/ table'[q].version > 0
      BY <1>1, <1>3, <1>6 DEF CdcTypeOK
  <2>3. /\ task'.phase = "snapshot" => task'.from <= Len(wal')
        /\ task'.phase = "streaming" => task'.position <= Len(wal')
        /\ stored' # NoOffset => stored' <= Len(wal')
      BY <1>5, <1>6, <1>7, <1>8 DEF CdcTypeOK
  <2> QED
      BY <1>5, <1>6, <1>7, <1>16, <2>1, <2>2, <2>3 DEF CdcTypeOK
<1>10. QuietInv'
    BY <1>5 DEF CdcInv, QuietInv
<1>11. \A d : Told(d)' => Told(d) \/ d = c
  <2>1. \A d : Sent(d)' <=> Sent(d)
      BY <1>5 DEF Sent
  <2>2. \A d : InSnapshot(d)' <=> InSnapshot(d)
      BY <1>5 DEF InSnapshot
  <2>3. \A d : LoggedAfter(task.from, d)' => LoggedAfter(task.from, d) \/ d = c
      BY <1>2, <1>4, <1>5, <1>6, <1>8, LogAppended DEF LoggedAfter
  <2>4. \A d : LoggedAfter(task.position, d)' => LoggedAfter(task.position, d) \/ d = c
      BY <1>2, <1>4, <1>5, <1>6, <1>8, LogAppended DEF LoggedAfter
  <2>5. stored # NoOffset =>
            \A d : LoggedAfter(stored, d)' => LoggedAfter(stored, d) \/ d = c
      BY <1>2, <1>4, <1>5, <1>6, <1>8, LogAppended DEF LoggedAfter
  <2> QED
      BY <1>5, <2>1, <2>2, <2>3, <2>4, <2>5 DEF Told
<1>12. \A d \in Changes : Behind(d) => Behind(d)'
  <2>1. \A q \in ProductIds \ {p} : table'[q] = table[q]
      BY <1>3
  <2>2. table'[p] = row
      BY <1>3
  <2>3. ASSUME NEW d \in Changes, Behind(d)
        PROVE  Behind(d)'
    <3>1. d.product \in ProductIds /\ d.version \in Nat \ {0}
        BY DEF Changes
    <3>2. CASE d.product = p
        BY <1>1, <1>3, <2>2, <2>3, <3>1, <3>2 DEF Behind
    <3>3. CASE d.product # p
        BY <2>1, <2>3, <3>1, <3>3 DEF Behind
    <3> QED
        BY <3>2, <3>3
  <2> QED
      BY <2>3
<1>13. \A d \in Changes : Behind(d) /\ SameVersion(d, c) => d.content = c.content
    BY <1>1, <1>2, <1>3 DEF Behind, SameVersion, Changes
<1>14. Behind(c)'
    BY <1>1, <1>2, <1>3 DEF Behind
<1>15. ToldInv'
  <2> SUFFICES ASSUME ~reloaded'
               PROVE  /\ \A d \in Changes : Told(d)' => Behind(d)'
                      /\ \A d, e \in Changes :
                            Told(d)' /\ Told(e)' /\ SameVersion(d, e) => d.content = e.content
      BY DEF ToldInv, SameVersion
  <2>1. /\ \A d \in Changes : Told(d) => Behind(d)
        /\ \A d, e \in Changes :
              Told(d) /\ Told(e) /\ SameVersion(d, e) => d.content = e.content
      BY <1>5 DEF CdcInv, ToldInv
  <2>2. \A d \in Changes : Told(d)' => Behind(d)'
      BY <1>11, <1>12, <1>14, <2>1
  <2>3. \A d, e : SameVersion(d, e) => SameVersion(e, d)
      BY DEF SameVersion
  <2>4. \A d, e \in Changes :
            Told(d)' /\ Told(e)' /\ SameVersion(d, e) => d.content = e.content
      BY <1>2, <1>11, <1>13, <2>1, <2>3
  <2> QED
      BY <2>2, <2>4
<1>17. LatestInv'
  <2> SUFFICES ASSUME ~reloaded', NEW q \in Present(table)
               PROVE  /\ task'.phase = "snapshot" =>
                            Sent(RowChange(q))' \/ InSnapshot(RowChange(q))'
                                \/ LoggedAfter(task.from, RowChange(q))'
                      /\ task'.phase = "streaming" =>
                            Sent(RowChange(q))' \/ LoggedAfter(task.position, RowChange(q))'
                      /\ stored' # NoOffset =>
                            Sent(RowChange(q))' \/ LoggedAfter(stored, RowChange(q))'
      BY <1>16 DEF LatestInv
  <2>1. CASE q = p
    <3>1. RowChange(q)' = c
        BY <1>3, <2>1 DEF RowChange, c
    <3>2. task.phase = "snapshot" => LoggedAfter(task.from, c)'
        BY <1>2, <1>4, <1>5, <1>6, <1>8, LogAppended DEF LoggedAfter, CdcTypeOK
    <3>3. task.phase = "streaming" => LoggedAfter(task.position, c)'
        BY <1>2, <1>4, <1>5, <1>6, <1>8, LogAppended DEF LoggedAfter, CdcTypeOK
    <3>4. stored # NoOffset => LoggedAfter(stored, c)'
        BY <1>2, <1>4, <1>5, <1>6, <1>8, LogAppended DEF LoggedAfter, CdcTypeOK
    <3> QED
        BY <1>5, <3>1, <3>2, <3>3, <3>4 DEF LoggedAfter
  <2>2. CASE q # p
    <3> DEFINE d == RowChange(q)
    <3>1. d' = d
        BY <1>3, <2>2 DEF RowChange, Present
    <3>2. Sent(d) => Sent(RowChange(q))'
        BY <1>5, <3>1 DEF Sent
    <3>3. InSnapshot(d) => InSnapshot(RowChange(q))'
        BY <1>5, <3>1 DEF InSnapshot
    <3>4. LoggedAfter(task.from, d) => LoggedAfter(task.from, RowChange(q))'
        BY <1>2, <1>4, <1>5, <1>6, <1>8, <3>1, LogAppended DEF LoggedAfter
    <3>5. LoggedAfter(task.position, d) => LoggedAfter(task.position, RowChange(q))'
        BY <1>2, <1>4, <1>5, <1>6, <1>8, <3>1, LogAppended DEF LoggedAfter
    <3>6. stored # NoOffset =>
              (LoggedAfter(stored, d) => LoggedAfter(stored, RowChange(q))')
        BY <1>2, <1>4, <1>5, <1>6, <1>8, <3>1, LogAppended DEF LoggedAfter
    <3> QED
        BY <1>5, <3>2, <3>3, <3>4, <3>5, <3>6 DEF CdcInv, LatestInv
  <2> QED
      BY <2>1, <2>2
<1>18. ConsumedInv'
    BY <1>5 DEF CdcInv, ConsumedInv, Sent
<1>19. LoadedInv'
    BY <1>5, <1>16 DEF CdcInv, LoadedInv
<1> QED
    BY <1>9, <1>10, <1>15, <1>17, <1>18, <1>19 DEF CdcInv

LEMMA ImageFinite ==
    ASSUME NEW S, NEW T, IsFiniteSet(S), NEW f \in [S -> T],
           \A t \in T : \E x \in S : f[x] = t
    PROVE  IsFiniteSet(T)
<1>1. f \in Surjection(S, T)
    BY Fun_IsSurj
<1> QED
    BY <1>1, FS_Surjection

\* A catalog has finitely many rows: those of a file.
LEMMA CatalogFinite ==
    ASSUME GInv, csv.exists
    PROVE  IsFiniteSet(csv.rows)
<1> DEFINE f == csv.of
           K == {KeyOf(f[i]) : i \in DOMAIN f}
           F == [i \in DOMAIN f |-> KeyOf(f[i])]
<1>1. f \in SourceFiles \cup {NoSource}
    BY DEF GInv, GeneratorTypeOK
<1>2. csv.rows = DominantOf(f)
    BY <1>1 DEF GInv, GeneratedIsDominant, ReferenceCatalog
<1>3. DOMAIN f = 1..Len(f) /\ Len(f) \in Nat
    BY <1>1, RowsTyped
<1>4. IsFiniteSet(DOMAIN f)
    BY <1>3, FS_Interval
<1>5. F \in [DOMAIN f -> K] /\ \A k \in K : \E i \in DOMAIN f : F[i] = k
    OBVIOUS
<1>6. IsFiniteSet(K)
  <2> HIDE DEF F, K
  <2> QED
      BY <1>4, <1>5, ImageFinite
<1>7. ASSUME NEW k \in DominantOf(f)
      PROVE  k \in K
  <2>1. Cardinality(RowsOf(f, k)) > 0
      BY <1>7 DEF DominantOf, Occurrences
  <2>2. RowsOf(f, k) # {}
    <3>1. Cardinality({}) = 0
        BY FS_EmptySet
    <3> QED
        BY <2>1, <3>1
  <2> QED
      BY <2>2 DEF RowsOf
<1>8. csv.rows \subseteq K
  <2> HIDE DEF K
  <2> QED
      BY <1>2, <1>7
<1> QED
    BY <1>6, <1>8, FS_Subset

LEMMA GeneratedFinite ==
    ASSUME GInv, csv.exists
    PROVE  IsFiniteSet(Present(GeneratedTable))
<1> DEFINE P == Products(csv.rows)
           F == [k \in csv.rows |-> k[1]]
<1>1. F \in [csv.rows -> P] /\ \A p \in P : \E k \in csv.rows : F[k] = p
    BY DEF Products
<1>2. IsFiniteSet(P)
  <2> HIDE DEF F, P
  <2> QED
      BY <1>1, CatalogFinite, ImageFinite
<1>3. Present(GeneratedTable) \subseteq P
    BY DEF Present, GeneratedTable, Products
<1> QED
    BY <1>2, <1>3, FS_Subset

LEMMA GeneratedTyped ==
    ASSUME GInv
    PROVE  /\ GeneratedTable \in [ProductIds -> CatalogRows]
           /\ \A p \in ProductIds : GeneratedTable[p] = NoRow \/ GeneratedTable[p].version > 0
<1> DEFINE k(p) == CHOOSE k \in csv.rows : k[1] = p
           fresh(p) == [version |-> 1, content |-> k(p)[2]]
<1>1. csv.rows \subseteq Keys
    BY DEF GInv, GeneratorTypeOK
<1>2. ASSUME NEW p \in ProductIds, \E j \in csv.rows : j[1] = p
      PROVE  fresh(p) \in CatalogRows
  <2>1. k(p) \in csv.rows
      BY <1>2
  <2>2. k(p)[2] \in Contents
      BY <1>1, <2>1 DEF Contents
  <2> QED
      BY <2>2 DEF CatalogRows
<1>3. NoRow \in CatalogRows
    BY DEF NoRow, CatalogRows, Contents
<1>4. /\ GeneratedTable = [p \in ProductIds |->
                              IF \E j \in csv.rows : j[1] = p THEN fresh(p) ELSE NoRow]
      /\ \A p : fresh(p).version = 1
    BY DEF GeneratedTable
<1> HIDE DEF fresh
<1> QED
    BY <1>2, <1>3, <1>4

\* The rows of a table, listed.
LEMMA Listed ==
    ASSUME NEW t \in [ProductIds -> CatalogRows],
           \A p \in ProductIds : t[p] = NoRow \/ t[p].version > 0,
           IsFiniteSet(Present(t)),
           NEW s \in ChangesOf(t)
    PROVE  /\ s \in Seq(Changes)
           /\ \A i \in DOMAIN s : \E p \in Present(t) : s[i] = Change(p, t[p])
           /\ \A p \in Present(t) : \E i \in DOMAIN s : s[i] = Change(p, t[p])
<1> DEFINE R == {Change(p, t[p]) : p \in Present(t)}
<1>1. s \in [1..Cardinality(Present(t)) -> R]
    BY DEF ChangesOf
<1>2. \A p \in Present(t) : \E i \in DOMAIN s : s[i] = Change(p, t[p])
    BY DEF ChangesOf
<1>3. \A i \in DOMAIN s : \E p \in Present(t) : s[i] = Change(p, t[p])
    BY <1>1
<1>4. ASSUME NEW p \in Present(t)
      PROVE  Change(p, t[p]) \in Changes
  <2>1. p \in ProductIds /\ t[p] \in CatalogRows /\ t[p].version > 0
      BY DEF Present
  <2>2. t[p].version \in Nat \ {0} /\ t[p].content \in Contents
      BY <2>1 DEF CatalogRows
  <2> QED
      BY <2>1, <2>2 DEF Change, Changes
<1>5. R \subseteq Changes
    BY <1>4
<1>6. s \in Seq(Changes)
  <2>1. s \in [1..Cardinality(Present(t)) -> Changes]
      BY <1>1, <1>5
  <2>2. Cardinality(Present(t)) \in Nat
      BY FS_CardinalityType
  <2> QED
      BY <2>1, <2>2
<1> QED
    BY <1>2, <1>3, <1>6

\* Before the registration a load has nobody to mislead; after it reloaded says so.
LEMMA LoadStep ==
    ASSUME CdcInv, GInv, Load
    PROVE  CdcInv'
<1>1. PICK changes \in ChangesOf(GeneratedTable) : wal' = wal \o changes
    BY DEF Load
<1>2. changes \in Seq(Changes)
    BY GeneratedTyped, GeneratedFinite, Listed DEF Load
<1>3. /\ UNCHANGED <<registered, task, stored, topic, current, consumed>>
      /\ table' = GeneratedTable
      /\ loaded' = [result |-> LoadResult, unique_products |-> manifest.unique_products]
      /\ reloaded' = (reloaded \/ registered)
    BY DEF Load, taskVars, sinkVars
<1>4. CdcTypeOK
    BY DEF CdcInv
<1>5. CdcTypeOK'
  <2>1. wal' \in Seq(Changes) /\ Len(wal) \in Nat /\ Len(wal') >= Len(wal)
      BY <1>1, <1>2, <1>4 DEF CdcTypeOK
  <2>2. loaded' \in [result : {"none", "ok", "failed"}, unique_products : Nat]
    <3>1. manifest.unique_products \in Nat
        BY DEF GInv, GeneratorTypeOK
    <3> QED
        BY <1>3, <3>1 DEF LoadResult
  <2>3. reloaded' \in BOOLEAN
      BY <1>3
  <2>4. /\ task'.phase = "snapshot" => task'.from <= Len(wal')
        /\ task'.phase = "streaming" => task'.position <= Len(wal')
        /\ stored' # NoOffset => stored' <= Len(wal')
      BY <1>3, <1>4, <2>1 DEF CdcTypeOK, Tasks, NoOffset
  <2>5. IsFiniteSet(Present(table)')
      BY <1>3, GeneratedFinite DEF Load, Present
  <2>6. /\ table' \in [ProductIds -> CatalogRows]
        /\ \A p \in ProductIds : table'[p] = NoRow \/ table'[p].version > 0
      BY <1>3, GeneratedTyped
  <2> QED
      BY <1>3, <1>4, <2>1, <2>2, <2>3, <2>4, <2>5, <2>6 DEF CdcTypeOK
<1>6. QuietInv'
    BY <1>3 DEF CdcInv, QuietInv
<1>7. LoadedInv'
    BY <1>3 DEF LoadedInv, LoadResult, Present
<1>8. ConsumedInv'
    BY <1>3 DEF CdcInv, ConsumedInv, Sent
<1>9. CASE ~registered
  <2>1. task' = NoTask /\ stored' = NoOffset /\ topic' = << >>
      BY <1>3, <1>9 DEF CdcInv, QuietInv
  <2>2. \A c : ~Told(c)'
      BY <2>1 DEF Told, Sent, InSnapshot, NoTask
  <2>3. ToldInv'
      BY <2>2 DEF ToldInv
  <2>4. LatestInv'
      BY <2>1 DEF LatestInv, NoTask
  <2> QED
      BY <1>5, <1>6, <1>7, <1>8, <2>3, <2>4 DEF CdcInv
<1>10. CASE registered
  <2>1. reloaded'
      BY <1>3, <1>10
  <2> QED
      BY <1>5, <1>6, <1>7, <1>8, <2>1 DEF CdcInv, ToldInv, LatestInv
<1> QED
    BY <1>9, <1>10, <1>4 DEF CdcTypeOK

-----------------------------------------------------------------------------
(* The task.  PostgreSQL and ClickHouse stay as they are. *)

TableAlone ==
    UNCHANGED <<table, wal, loaded, reloaded, current, consumed>>

LEMMA TaskAlone ==
    ASSUME CdcInv, TableAlone, registered' = registered, task' \in Tasks,
           task'.phase = "snapshot" => task'.from <= Len(wal),
           task'.phase = "streaming" => task'.position <= Len(wal),
           task'.phase # "snapshot" => task'.todo = << >>,
           stored' \in {NoOffset} \cup Nat, stored' # NoOffset => stored' <= Len(wal),
           topic' \in Seq(Changes), Len(topic) <= Len(topic'),
           \A i \in 1..Len(topic) : topic'[i] = topic[i],
           \A c : Sent(c) => Sent(c)'
    PROVE  CdcTypeOK' /\ ConsumedInv' /\ LoadedInv'
<1>1. CdcTypeOK'
  <2>1. consumed' \in 0..Len(topic')
      BY DEF TableAlone, CdcInv, CdcTypeOK
  <2>2. Present(table)' = Present(table)
      BY DEF TableAlone, Present
  <2>3. /\ table' \in [ProductIds -> CatalogRows]
        /\ \A p \in ProductIds : table'[p] = NoRow \/ table'[p].version > 0
        /\ current' \in [ProductIds -> CatalogRows]
      BY DEF TableAlone, CdcInv, CdcTypeOK
  <2>4. /\ loaded' \in [result : {"none", "ok", "failed"}, unique_products : Nat]
        /\ reloaded' \in BOOLEAN /\ registered' \in BOOLEAN /\ wal' \in Seq(Changes)
        /\ wal' = wal /\ IsFiniteSet(Present(table)')
      BY <2>2 DEF TableAlone, CdcInv, CdcTypeOK
  <2> QED
      BY <2>1, <2>3, <2>4 DEF CdcTypeOK
<1>2. ConsumedInv'
  <2>1. \A i \in 1..consumed : topic'[i] = topic[i]
      BY DEF CdcInv, CdcTypeOK
  <2>2. \A p \in ProductIds : current'[p] = NoRow \/ Sent(Change(p, current[p]))'
      BY DEF CdcInv, ConsumedInv, TableAlone
  <2> QED
      BY <2>1, <2>2 DEF CdcInv, ConsumedInv, TableAlone
<1>3. LoadedInv'
    BY DEF CdcInv, LoadedInv, TableAlone, Present
<1> QED
    BY <1>1, <1>2, <1>3

\* What of the log has been told stays the same while the log does.
LEMMA LogAlone ==
    ASSUME TableAlone, NEW n, NEW c
    PROVE  LoggedAfter(n, c)' <=> (\E i \in DOMAIN wal : i > n' /\ wal[i] = c')
    BY DEF TableAlone, LoggedAfter

LEMMA RowAlone ==
    ASSUME TableAlone
    PROVE  /\ \A p : RowChange(p)' = RowChange(p)
           /\ Present(table)' = Present(table)
    BY DEF TableAlone, RowChange, Change, Present

LEMMA StartTaskStep ==
    ASSUME CdcInv, StartTask
    PROVE  CdcInv'
<1>1. /\ TableAlone /\ UNCHANGED <<registered, stored, topic>> /\ registered
      /\ task.phase = "none"
      /\ task' = IF stored = NoOffset
                 THEN [NoTask EXCEPT !.phase = "starting"]
                 ELSE [NoTask EXCEPT !.phase = "streaming", !.position = stored]
    BY DEF StartTask, UNCHANGED_BUT_TASK, TableAlone, tableVars, sinkVars, TaskRunning
<1>2. CdcTypeOK
    BY DEF CdcInv
<1>3. /\ stored = NoOffset => task' = [phase |-> "starting", todo |-> << >>,
                                       from |-> 0, position |-> 0]
      /\ stored # NoOffset => task' = [phase |-> "streaming", todo |-> << >>,
                                       from |-> 0, position |-> stored]
    BY <1>1 DEF NoTask
<1>4. /\ task' \in Tasks
      /\ task'.phase = "snapshot" => task'.from <= Len(wal)
      /\ task'.phase = "streaming" => task'.position <= Len(wal)
      /\ task'.todo = << >>
  <2>1. CASE stored = NoOffset
    <3>1. task'.phase = "starting" /\ task'.todo = << >>
        BY <1>3, <2>1
    <3>2. [phase |-> "starting", todo |-> << >>, from |-> 0, position |-> 0] \in Tasks
        BY DEF Tasks
    <3> QED
        BY <1>3, <2>1, <3>1, <3>2
  <2>2. CASE stored # NoOffset
    <3>1. stored \in Nat /\ stored <= Len(wal)
        BY <1>2, <2>2 DEF CdcTypeOK
    <3>2. task'.phase = "streaming" /\ task'.todo = << >> /\ task'.position = stored
        BY <1>3, <2>2
    <3>3. [phase |-> "streaming", todo |-> << >>, from |-> 0, position |-> stored] \in Tasks
        BY <3>1 DEF Tasks
    <3> QED
        BY <1>3, <2>2, <3>1, <3>2, <3>3
  <2> QED
      BY <2>1, <2>2
<1>5. \A c : Sent(c)' <=> Sent(c)
    BY <1>1 DEF Sent
<1>6. CdcTypeOK' /\ ConsumedInv' /\ LoadedInv'
  <2>1. /\ stored' \in {NoOffset} \cup Nat /\ (stored' # NoOffset => stored' <= Len(wal))
        /\ topic' \in Seq(Changes) /\ Len(topic) <= Len(topic')
        /\ \A i \in 1..Len(topic) : topic'[i] = topic[i]
      BY <1>1, <1>2 DEF CdcTypeOK
  <2> QED
      BY <1>1, <1>4, <1>5, <2>1, TaskAlone
<1>7. QuietInv'
    BY <1>1 DEF QuietInv
<1>8. ToldInv'
  <2>1. \A c \in Changes : Told(c)' => Told(c)
      BY <1>1, <1>3, <1>4, <1>5 DEF Told, InSnapshot, LoggedAfter, TableAlone
  <2> QED
      BY <1>1, <2>1, ToldFewer DEF CdcInv, TableAlone
<1>9. LatestInv'
  <2>1. \A p \in Present(table) : ~reloaded /\ stored # NoOffset =>
            Sent(RowChange(p)) \/ LoggedAfter(stored, RowChange(p))
      BY DEF CdcInv, LatestInv
  <2>2. \A p : RowChange(p)' = RowChange(p)
      BY <1>1, RowAlone
  <2>3. \A p \in Present(table) : ~reloaded /\ stored # NoOffset =>
            Sent(RowChange(p))' \/ LoggedAfter(stored, RowChange(p))'
      BY <1>1, <2>1, <2>2 DEF Sent, LoggedAfter, TableAlone
  <2>4. task'.phase = "streaming" => stored # NoOffset /\ task'.position = stored
      BY <1>3
  <2>5. Present(table)' = Present(table)
      BY <1>1, RowAlone
  <2>6. \A p \in Present(table) :
            ~reloaded /\ task'.phase = "streaming" =>
                Sent(RowChange(p))' \/ LoggedAfter(task.position, RowChange(p))'
      BY <1>1, <2>3, <2>4 DEF LoggedAfter
  <2>7. task'.phase # "snapshot"
      BY <1>3
  <2> QED
      BY <1>1, <2>3, <2>5, <2>6, <2>7 DEF LatestInv, TableAlone
<1> QED
    BY <1>6, <1>7, <1>8, <1>9 DEF CdcInv

LEMMA TakeSnapshotStep ==
    ASSUME CdcInv, TakeSnapshot
    PROVE  CdcInv'
<1>1. PICK changes \in ChangesOf(table) :
          task' = [task EXCEPT !.phase = "snapshot", !.todo = changes, !.from = Len(wal)]
    BY DEF TakeSnapshot
<1>2. /\ TableAlone /\ UNCHANGED <<registered, stored, topic>>
      /\ task.phase = "starting"
    BY DEF TakeSnapshot, UNCHANGED_BUT_TASK, TableAlone, tableVars, sinkVars
<1>3. CdcTypeOK
    BY DEF CdcInv
<1>4. /\ changes \in Seq(Changes)
      /\ \A i \in DOMAIN changes : \E p \in Present(table) : changes[i] = RowChange(p)
      /\ \A p \in Present(table) : \E i \in DOMAIN changes : changes[i] = RowChange(p)
    BY <1>3, Listed DEF CdcTypeOK, RowChange
<1>5. /\ task' \in Tasks /\ task'.phase = "snapshot" /\ task'.todo = changes
      /\ task'.from = Len(wal) /\ Len(wal) \in Nat
  <2>1. Len(wal) \in Nat /\ task \in Tasks
      BY <1>3 DEF CdcTypeOK
  <2> QED
      BY <1>1, <1>4, <2>1 DEF Tasks
<1>6. \A c : Sent(c)' <=> Sent(c)
    BY <1>2 DEF Sent
<1>7. CdcTypeOK' /\ ConsumedInv' /\ LoadedInv'
  <2>1. /\ stored' \in {NoOffset} \cup Nat /\ (stored' # NoOffset => stored' <= Len(wal))
        /\ topic' \in Seq(Changes) /\ Len(topic) <= Len(topic')
        /\ \A i \in 1..Len(topic) : topic'[i] = topic[i]
      BY <1>2, <1>3 DEF CdcTypeOK
  <2> QED
      BY <1>2, <1>5, <1>6, <2>1, TaskAlone
<1>8. QuietInv'
    BY <1>2 DEF CdcInv, QuietInv, NoTask
<1>9. \A c : InSnapshot(c)' <=> \E p \in Present(table) : c = RowChange(p)
    BY <1>4, <1>5 DEF InSnapshot
<1>10. ASSUME NEW c \in Changes, Told(c)'
       PROVE  Told(c) \/ \E p \in Present(table) : c = RowChange(p)
  <2>1. ~LoggedAfter(task.from, c)'
      BY <1>2, <1>3, <1>5 DEF LoggedAfter, TableAlone, CdcTypeOK
  <2> QED
      BY <1>2, <1>5, <1>6, <1>9, <1>10, <2>1 DEF Told, LoggedAfter, TableAlone
<1>11. ToldInv'
  <2> SUFFICES ASSUME ~reloaded
               PROVE  /\ \A c \in Changes : Told(c)' => Behind(c)
                      /\ \A c, d \in Changes :
                            Told(c)' /\ Told(d)' /\ SameVersion(c, d) => c.content = d.content
    <3>1. \A c : Behind(c)' <=> Behind(c)
        BY <1>2 DEF Behind, TableAlone
    <3>2. reloaded' = reloaded
        BY <1>2 DEF TableAlone
    <3> QED
        BY <3>1, <3>2 DEF ToldInv, SameVersion
  <2>1. \A c \in Changes : Told(c)' => Behind(c)
      BY <1>3, <1>10, RowTold DEF CdcInv, ToldInv
  <2>2. ASSUME NEW c \in Changes, NEW p \in Present(table), Behind(c),
               SameVersion(c, RowChange(p))
        PROVE  c.content = RowChange(p).content
      BY <1>3, <2>2, RowTold DEF Behind, SameVersion
  <2>3. \A c, d : SameVersion(c, d) => SameVersion(d, c)
      BY DEF SameVersion
  <2>4. \A c, d \in Changes :
            Told(c)' /\ Told(d)' /\ SameVersion(c, d) => c.content = d.content
      BY <1>10, <2>1, <2>2, <2>3 DEF CdcInv, ToldInv
  <2> QED
      BY <2>1, <2>4
<1>12. LatestInv'
  <2>1. \A p : RowChange(p)' = RowChange(p)
      BY <1>2, RowAlone
  <2>2. Present(table)' = Present(table)
      BY <1>2, RowAlone
  <2>3. \A p \in Present(table) : InSnapshot(RowChange(p))'
      BY <1>4, <1>5, <2>1 DEF InSnapshot
  <2>4. \A p \in Present(table) : ~reloaded /\ stored # NoOffset =>
            Sent(RowChange(p))' \/ LoggedAfter(stored, RowChange(p))'
      BY <1>2, <2>1 DEF CdcInv, LatestInv, Sent, LoggedAfter, TableAlone
  <2> QED
      BY <1>2, <1>5, <2>2, <2>3, <2>4 DEF LatestInv, TableAlone
<1> QED
    BY <1>7, <1>8, <1>11, <1>12 DEF CdcInv

LEMMA SendStep ==
    ASSUME CdcInv, SendSnapshotRow
    PROVE  CdcInv'
<1> DEFINE c == Head(task.todo)
<1>1. /\ TableAlone /\ UNCHANGED <<registered, stored>>
      /\ task.phase = "snapshot" /\ task.todo # << >>
      /\ topic' = Append(topic, c)
      /\ task' = [task EXCEPT !.todo = Tail(@)]
    BY DEF SendSnapshotRow, UNCHANGED_BUT_TASK, TableAlone, tableVars, sinkVars
<1>2. CdcTypeOK
    BY DEF CdcInv
<1>3. task \in Tasks /\ task.todo \in Seq(Changes)
    BY <1>2 DEF CdcTypeOK, Tasks
<1>4. /\ c \in Changes /\ Tail(task.todo) \in Seq(Changes)
      /\ \A d : InSnapshot(d) <=> d = c \/ \E i \in DOMAIN Tail(task.todo) :
                                                 Tail(task.todo)[i] = d
  <2> DEFINE todo == task.todo
  <2>1. /\ Len(todo) \in Nat \ {0} /\ DOMAIN todo = 1..Len(todo)
        /\ DOMAIN Tail(todo) = 1..(Len(todo) - 1)
        /\ \A i \in 1..(Len(todo) - 1) : Tail(todo)[i] = todo[i + 1]
        /\ c = todo[1] /\ c \in Changes /\ Tail(todo) \in Seq(Changes)
      BY <1>1, <1>3
  <2> HIDE DEF todo, c
  <2>2. \A i \in 2..Len(todo) : i - 1 \in 1..(Len(todo) - 1) /\ Tail(todo)[i - 1] = todo[i]
      BY <2>1
  <2>3. ASSUME NEW d, NEW i \in DOMAIN todo, todo[i] = d
        PROVE  d = c \/ \E j \in DOMAIN Tail(todo) : Tail(todo)[j] = d
    <3>1. CASE i = 1
        BY <2>1, <2>3, <3>1
    <3>2. CASE i # 1
      <4>1. i \in 2..Len(todo)
          BY <2>1, <2>3, <3>2
      <4> QED
          BY <2>1, <2>2, <2>3, <4>1
    <3> QED
        BY <3>1, <3>2
  <2>4. ASSUME NEW d, NEW j \in DOMAIN Tail(todo), Tail(todo)[j] = d
        PROVE  \E i \in DOMAIN todo : todo[i] = d
    <3>1. j + 1 \in DOMAIN todo /\ todo[j + 1] = d
        BY <2>1, <2>4
    <3> QED
        BY <3>1
  <2>5. 1 \in DOMAIN todo /\ todo[1] = c
      BY <2>1
  <2> QED
      BY <2>1, <2>3, <2>4, <2>5 DEF InSnapshot, todo
<1> HIDE DEF c
<1>5. /\ task' \in Tasks /\ task'.phase = "snapshot" /\ task'.todo = Tail(task.todo)
      /\ task'.from = task.from
    BY <1>1, <1>3, <1>4 DEF Tasks
<1>6. /\ \A d : Sent(d)' <=> Sent(d) \/ d = c
      /\ topic' \in Seq(Changes) /\ Len(topic) <= Len(topic')
      /\ \A i \in 1..Len(topic) : topic'[i] = topic[i]
    BY <1>1, <1>2, <1>4, TopicAppended
<1>7. \A d : InSnapshot(d) <=> d = c \/ InSnapshot(d)'
    BY <1>4, <1>5 DEF InSnapshot
<1>8. CdcTypeOK' /\ ConsumedInv' /\ LoadedInv'
  <2>1. /\ stored' \in {NoOffset} \cup Nat /\ (stored' # NoOffset => stored' <= Len(wal))
        /\ task'.from <= Len(wal)
      BY <1>1, <1>2, <1>5 DEF CdcTypeOK
  <2> QED
      BY <1>1, <1>5, <1>6, <2>1, TaskAlone
<1>9. QuietInv'
    BY <1>1 DEF CdcInv, QuietInv, NoTask
<1>10. ToldInv'
  <2>1. \A d \in Changes : Told(d)' => Told(d)
      BY <1>1, <1>5, <1>6, <1>7 DEF Told, LoggedAfter, TableAlone
  <2> QED
      BY <1>1, <2>1, ToldFewer DEF CdcInv, TableAlone
<1>11. LatestInv'
  <2>1. \A p : RowChange(p)' = RowChange(p)
      BY <1>1, RowAlone
  <2>2. Present(table)' = Present(table)
      BY <1>1, RowAlone
  <2>3. \A p : Sent(RowChange(p))' <=> Sent(RowChange(p)) \/ RowChange(p) = c
      BY <1>6, <2>1 DEF Sent
  <2>4. \A p : InSnapshot(RowChange(p)) <=> RowChange(p) = c \/ InSnapshot(RowChange(p))'
      BY <1>7, <2>1 DEF InSnapshot
  <2>5. /\ \A p : LoggedAfter(task.from, RowChange(p))' <=> LoggedAfter(task.from, RowChange(p))
        /\ \A p : LoggedAfter(stored, RowChange(p))' <=> LoggedAfter(stored, RowChange(p))
      BY <1>1, <1>5, <2>1 DEF LoggedAfter, TableAlone
  <2>6. task'.phase # "streaming"
      BY <1>5
  <2> QED
      BY <1>1, <1>5, <2>2, <2>3, <2>4, <2>5, <2>6 DEF CdcInv, LatestInv, TableAlone
<1> QED
    BY <1>8, <1>9, <1>10, <1>11 DEF CdcInv

LEMMA FinishStep ==
    ASSUME CdcInv, FinishSnapshot
    PROVE  CdcInv'
<1>1. /\ TableAlone /\ UNCHANGED <<registered, stored, topic>>
      /\ task.phase = "snapshot" /\ task.todo = << >>
      /\ task' = [task EXCEPT !.phase = "streaming", !.position = task.from]
    BY DEF FinishSnapshot, UNCHANGED_BUT_TASK, TableAlone, tableVars, sinkVars
<1>2. CdcTypeOK
    BY DEF CdcInv
<1>3. /\ task' \in Tasks /\ task'.phase = "streaming" /\ task'.todo = << >>
      /\ task'.position = task.from
  <2>1. task \in Tasks /\ task.from \in Nat
      BY <1>2 DEF CdcTypeOK, Tasks
  <2> QED
      BY <1>1, <2>1 DEF Tasks
<1>4. \A c : Sent(c)' <=> Sent(c)
    BY <1>1 DEF Sent
<1>5. CdcTypeOK' /\ ConsumedInv' /\ LoadedInv'
  <2>1. /\ stored' \in {NoOffset} \cup Nat /\ (stored' # NoOffset => stored' <= Len(wal))
        /\ topic' \in Seq(Changes) /\ Len(topic) <= Len(topic')
        /\ \A i \in 1..Len(topic) : topic'[i] = topic[i]
        /\ task.from <= Len(wal)
      BY <1>1, <1>2 DEF CdcTypeOK
  <2> QED
      BY <1>1, <1>3, <1>4, <2>1, TaskAlone
<1>6. QuietInv'
    BY <1>1 DEF CdcInv, QuietInv, NoTask
<1>7. ToldInv'
  <2>1. \A c \in Changes : Told(c)' => Told(c)
      BY <1>1, <1>3, <1>4 DEF Told, InSnapshot, LoggedAfter, TableAlone
  <2> QED
      BY <1>1, <2>1, ToldFewer DEF CdcInv, TableAlone
<1>8. LatestInv'
  <2>1. \A p : RowChange(p)' = RowChange(p)
      BY <1>1, RowAlone
  <2>2. Present(table)' = Present(table)
      BY <1>1, RowAlone
  <2>3. \A p : ~InSnapshot(RowChange(p))
      BY <1>1 DEF InSnapshot
  <2>4. \A p : LoggedAfter(task.position, RowChange(p))' <=> LoggedAfter(task.from, RowChange(p))
      BY <1>1, <1>3, <2>1 DEF LoggedAfter, TableAlone
  <2>5. \A p : LoggedAfter(stored, RowChange(p))' <=> LoggedAfter(stored, RowChange(p))
      BY <1>1, <2>1 DEF LoggedAfter, TableAlone
  <2>6. \A p : Sent(RowChange(p))' <=> Sent(RowChange(p))
      BY <1>1, <2>1 DEF Sent
  <2>7. task'.phase # "snapshot"
      BY <1>3
  <2> QED
      BY <1>1, <2>2, <2>3, <2>4, <2>5, <2>6, <2>7 DEF CdcInv, LatestInv, TableAlone
<1> QED
    BY <1>5, <1>6, <1>7, <1>8 DEF CdcInv

LEMMA StreamStep ==
    ASSUME CdcInv, StreamChange
    PROVE  CdcInv'
<1> DEFINE c == wal[task.position + 1]
<1>1. /\ TableAlone /\ UNCHANGED <<registered, stored>>
      /\ task.phase = "streaming" /\ task.position < Len(wal)
      /\ topic' = Append(topic, c)
      /\ task' = [task EXCEPT !.position = @ + 1]
    BY DEF StreamChange, UNCHANGED_BUT_TASK, TableAlone, tableVars, sinkVars
<1>2. CdcTypeOK
    BY DEF CdcInv
<1>3. /\ task \in Tasks /\ task.position \in Nat /\ task.todo = << >>
      /\ wal \in Seq(Changes) /\ Len(wal) \in Nat /\ DOMAIN wal = 1..Len(wal)
    BY <1>1, <1>2 DEF CdcTypeOK, Tasks
<1>4. /\ c \in Changes
      /\ \A d : LoggedAfter(task.position, d) <=> d = c \/ LoggedAfter(task.position + 1, d)
  <2>1. task.position + 1 \in DOMAIN wal
      BY <1>1, <1>3
  <2>2. c \in Changes
      BY <1>3, <2>1
  <2>3. \A i \in DOMAIN wal : i > task.position <=> i = task.position + 1 \/ i > task.position + 1
      BY <1>3
  <2> QED
      BY <2>1, <2>2, <2>3 DEF LoggedAfter
<1> HIDE DEF c
<1>5. /\ task' \in Tasks /\ task'.phase = "streaming" /\ task'.todo = << >>
      /\ task'.position = task.position + 1
    BY <1>1, <1>3 DEF Tasks
<1>6. /\ \A d : Sent(d)' <=> Sent(d) \/ d = c
      /\ topic' \in Seq(Changes) /\ Len(topic) <= Len(topic')
      /\ \A i \in 1..Len(topic) : topic'[i] = topic[i]
    BY <1>1, <1>2, <1>4, TopicAppended
<1>7. CdcTypeOK' /\ ConsumedInv' /\ LoadedInv'
  <2>1. /\ stored' \in {NoOffset} \cup Nat /\ (stored' # NoOffset => stored' <= Len(wal))
        /\ task'.position <= Len(wal)
      BY <1>1, <1>2, <1>3, <1>5 DEF CdcTypeOK
  <2> QED
      BY <1>1, <1>5, <1>6, <2>1, TaskAlone
<1>8. QuietInv'
    BY <1>1 DEF CdcInv, QuietInv, NoTask
<1>9. ToldInv'
  <2>1. \A d \in Changes : Told(d)' => Told(d)
    <3>1. \A d : LoggedAfter(task.position, d)' <=> LoggedAfter(task.position + 1, d)
        BY <1>1, <1>5 DEF LoggedAfter, TableAlone
    <3>2. \A d : LoggedAfter(stored, d)' <=> LoggedAfter(stored, d)
        BY <1>1 DEF LoggedAfter, TableAlone
    <3>3. \A d : ~InSnapshot(d)'
        BY <1>5 DEF InSnapshot
    <3> QED
        BY <1>1, <1>4, <1>5, <1>6, <3>1, <3>2, <3>3 DEF Told
  <2> QED
      BY <1>1, <2>1, ToldFewer DEF CdcInv, TableAlone
<1>10. LatestInv'
  <2>1. \A p : RowChange(p)' = RowChange(p)
      BY <1>1, RowAlone
  <2>2. Present(table)' = Present(table)
      BY <1>1, RowAlone
  <2>3. \A p : Sent(RowChange(p))' <=> Sent(RowChange(p)) \/ RowChange(p) = c
      BY <1>6, <2>1 DEF Sent
  <2>4. \A p : LoggedAfter(task.position, RowChange(p))' <=>
                   LoggedAfter(task.position + 1, RowChange(p))
      BY <1>1, <1>5, <2>1 DEF LoggedAfter, TableAlone
  <2>5. \A p : LoggedAfter(stored, RowChange(p))' <=> LoggedAfter(stored, RowChange(p))
      BY <1>1, <2>1 DEF LoggedAfter, TableAlone
  <2>6. task'.phase # "snapshot"
      BY <1>5
  <2> QED
      BY <1>1, <1>4, <2>2, <2>3, <2>4, <2>5, <2>6 DEF CdcInv, LatestInv, TableAlone
<1> QED
    BY <1>7, <1>8, <1>9, <1>10 DEF CdcInv

LEMMA StoreStep ==
    ASSUME CdcInv, StoreOffset
    PROVE  CdcInv'
<1>1. /\ TableAlone /\ UNCHANGED <<registered, task, topic>>
      /\ task.phase = "streaming" /\ stored' = task.position
    BY DEF StoreOffset, UNCHANGED_BUT_TASK, TableAlone, tableVars, sinkVars
<1>2. CdcTypeOK
    BY DEF CdcInv
<1>3. \A c : Sent(c)' <=> Sent(c)
    BY <1>1 DEF Sent
<1>4. /\ task.position \in Nat /\ stored' \in {NoOffset} \cup Nat
      /\ stored' <= Len(wal)
    BY <1>1, <1>2 DEF CdcTypeOK, Tasks
<1>5. CdcTypeOK' /\ ConsumedInv' /\ LoadedInv'
  <2>1. /\ topic' \in Seq(Changes) /\ Len(topic) <= Len(topic')
        /\ \A i \in 1..Len(topic) : topic'[i] = topic[i]
        /\ task' \in Tasks /\ (task'.phase = "snapshot" => task'.from <= Len(wal))
        /\ (task'.phase = "streaming" => task'.position <= Len(wal))
        /\ (task'.phase # "snapshot" => task'.todo = << >>)
      BY <1>1, <1>2 DEF CdcTypeOK
  <2> QED
      BY <1>1, <1>3, <1>4, <2>1, TaskAlone
<1>6. QuietInv'
    BY <1>1 DEF CdcInv, QuietInv, NoTask
<1>7. \A c : /\ InSnapshot(c)' <=> InSnapshot(c)
             /\ LoggedAfter(stored, c)' <=> LoggedAfter(task.position, c)
             /\ LoggedAfter(task.position, c)' <=> LoggedAfter(task.position, c)
    BY <1>1 DEF InSnapshot, LoggedAfter, TableAlone
<1>8. ToldInv'
  <2>1. \A c \in Changes : Told(c)' => Told(c)
      BY <1>1, <1>3, <1>7 DEF Told
  <2> QED
      BY <1>1, <2>1, ToldFewer DEF CdcInv, TableAlone
<1>9. LatestInv'
  <2>1. \A p : RowChange(p)' = RowChange(p)
      BY <1>1, RowAlone
  <2>2. Present(table)' = Present(table)
      BY <1>1, RowAlone
  <2>3. \A p : /\ Sent(RowChange(p))' <=> Sent(RowChange(p))
               /\ LoggedAfter(stored, RowChange(p))' <=> LoggedAfter(task.position, RowChange(p))
               /\ LoggedAfter(task.position, RowChange(p))' <=>
                      LoggedAfter(task.position, RowChange(p))
      BY <1>1, <2>1 DEF Sent, LoggedAfter, TableAlone
  <2> QED
      BY <1>1, <2>2, <2>3 DEF CdcInv, LatestInv, TableAlone
<1> QED
    BY <1>5, <1>6, <1>8, <1>9 DEF CdcInv

LEMMA FailStep ==
    ASSUME CdcInv, FailTask
    PROVE  CdcInv'
<1>1. /\ TableAlone /\ UNCHANGED <<registered, stored, topic>>
      /\ task' = NoTask
    BY DEF FailTask, UNCHANGED_BUT_TASK, TableAlone, tableVars, sinkVars
<1>2. CdcTypeOK
    BY DEF CdcInv
<1>3. task' \in Tasks /\ task'.phase = "none" /\ task'.todo = << >>
    BY <1>1 DEF NoTask, Tasks
<1>4. \A c : Sent(c)' <=> Sent(c)
    BY <1>1 DEF Sent
<1>5. CdcTypeOK' /\ ConsumedInv' /\ LoadedInv'
  <2>1. /\ stored' \in {NoOffset} \cup Nat /\ (stored' # NoOffset => stored' <= Len(wal))
        /\ topic' \in Seq(Changes) /\ Len(topic) <= Len(topic')
        /\ \A i \in 1..Len(topic) : topic'[i] = topic[i]
      BY <1>1, <1>2 DEF CdcTypeOK
  <2> QED
      BY <1>1, <1>3, <1>4, <2>1, TaskAlone
<1>6. QuietInv'
    BY <1>1 DEF CdcInv, QuietInv
<1>7. ToldInv'
  <2>1. \A c \in Changes : Told(c)' => Told(c)
      BY <1>1, <1>3, <1>4 DEF Told, InSnapshot, LoggedAfter, TableAlone
  <2> QED
      BY <1>1, <2>1, ToldFewer DEF CdcInv, TableAlone
<1>8. LatestInv'
  <2>1. \A p : RowChange(p)' = RowChange(p)
      BY <1>1, RowAlone
  <2>2. Present(table)' = Present(table)
      BY <1>1, RowAlone
  <2>3. \A p : /\ Sent(RowChange(p))' <=> Sent(RowChange(p))
               /\ LoggedAfter(stored, RowChange(p))' <=> LoggedAfter(stored, RowChange(p))
      BY <1>1, <2>1 DEF Sent, LoggedAfter, TableAlone
  <2> QED
      BY <1>1, <1>3, <2>2, <2>3 DEF CdcInv, LatestInv, TableAlone
<1> QED
    BY <1>5, <1>6, <1>7, <1>8 DEF CdcInv

-----------------------------------------------------------------------------
(* ClickHouse. *)

SentAlone ==
    UNCHANGED <<table, wal, loaded, reloaded, registered, task, stored, topic>>

LEMMA SinkAlone ==
    ASSUME CdcInv, SentAlone, current' \in [ProductIds -> CatalogRows],
           consumed' \in 0..Len(topic), ConsumedInv'
    PROVE  CdcInv'
<1>1. CdcTypeOK'
    BY DEF CdcInv, CdcTypeOK, SentAlone, Present
<1>2. QuietInv' /\ LoadedInv'
    BY DEF CdcInv, QuietInv, LoadedInv, SentAlone, Present
<1>3. ToldInv'
  <2>1. \A c \in Changes : Told(c)' => Told(c)
      BY DEF Told, Sent, InSnapshot, LoggedAfter, SentAlone
  <2> QED
      BY <2>1, ToldFewer DEF CdcInv, SentAlone
<1>4. LatestInv'
    BY DEF CdcInv, LatestInv, SentAlone, RowChange, Change, Present, Sent, InSnapshot,
           LoggedAfter
<1> QED
    BY <1>1, <1>2, <1>3, <1>4 DEF CdcInv

LEMMA ConsumeStep ==
    ASSUME CdcInv, Consume
    PROVE  CdcInv'
<1> DEFINE c == topic[consumed + 1]
           row == [version |-> c.version, content |-> c.content]
<1>1. /\ SentAlone
      /\ consumed < Len(topic) /\ consumed' = consumed + 1
      /\ current' = [current EXCEPT ![c.product] = CurrentRow(@, row)]
    BY DEF Consume, SentAlone, tableVars, taskVars
<1>2. /\ topic \in Seq(Changes) /\ Len(topic) \in Nat /\ consumed \in Nat
      /\ DOMAIN topic = 1..Len(topic) /\ \A i \in 1..Len(topic) : topic[i] \in Changes
      /\ current \in [ProductIds -> CatalogRows]
    BY DEF CdcInv, CdcTypeOK
<1>3. consumed + 1 \in 1..Len(topic) /\ c \in Changes
    BY <1>1, <1>2
<1>4. /\ c.product \in ProductIds /\ c.version \in Nat /\ c.content \in Contents
      /\ row \in CatalogRows /\ row.version = c.version /\ Change(c.product, row) = c
    BY <1>3 DEF Changes, CatalogRows, Change
<1>5. \A p \in ProductIds : current[p] \in CatalogRows /\ current[p].version \in Nat
    BY <1>2 DEF CatalogRows
<1> HIDE DEF c, row
<1>6. /\ current'[c.product] = CurrentRow(current[c.product], row)
      /\ \A p \in ProductIds \ {c.product} : current'[p] = current[p]
      /\ current' \in [ProductIds -> CatalogRows]
    BY <1>1, <1>2, <1>4 DEF CurrentRow
<1>7. \A p \in ProductIds : current'[p].version >= current[p].version
    BY <1>4, <1>5, <1>6 DEF CurrentRow
<1>8. current'[c.product].version >= c.version
    BY <1>4, <1>5, <1>6 DEF CurrentRow
<1>9. ASSUME NEW i \in 1..consumed'
      PROVE  current'[topic[i].product].version >= topic[i].version
  <2>1. CASE i = consumed + 1
      BY <1>8, <2>1 DEF c
  <2>2. CASE i # consumed + 1
    <3>1. i \in 1..consumed /\ i \in 1..Len(topic)
        BY <1>1, <1>2, <2>2
    <3>2. topic[i].product \in ProductIds /\ topic[i].version \in Nat
        BY <1>2, <3>1 DEF Changes
    <3>3. current[topic[i].product].version >= topic[i].version
        BY <3>1 DEF CdcInv, ConsumedInv
    <3>4. current'[topic[i].product].version \in Nat
        BY <1>6, <3>2 DEF CatalogRows
    <3> QED
        BY <1>5, <1>7, <3>2, <3>3, <3>4
  <2> QED
      BY <2>1, <2>2
<1>10. ASSUME NEW p \in ProductIds, current'[p] # NoRow
       PROVE  Sent(Change(p, current[p]))'
  <2>1. CASE current'[p] = current[p]
    <3>1. Sent(Change(p, current[p]))
        BY <1>10, <2>1 DEF CdcInv, ConsumedInv
    <3> QED
        BY <1>1, <2>1, <3>1 DEF Sent, Change, SentAlone
  <2>2. CASE p = c.product /\ current'[p] = row
    <3>1. Change(p, current'[p]) = c
        BY <1>4, <2>2
    <3>2. \E i \in DOMAIN topic : topic[i] = c
        BY <1>2, <1>3 DEF c
    <3> QED
        BY <1>1, <3>1, <3>2 DEF Sent, Change, SentAlone
  <2> QED
      BY <1>6, <2>1, <2>2 DEF CurrentRow
<1>11. ConsumedInv'
    BY <1>1, <1>9, <1>10 DEF ConsumedInv, SentAlone
<1>12. consumed' \in 0..Len(topic)
    BY <1>1, <1>2
<1> QED
    BY <1>1, <1>6, <1>11, <1>12, SinkAlone

LEMMA RereadStep ==
    ASSUME CdcInv, Reread
    PROVE  CdcInv'
<1>1. /\ SentAlone /\ current' = current /\ consumed' \in 0..(consumed - 1)
    BY DEF Reread, SentAlone, tableVars, taskVars
<1>2. /\ consumed \in Nat /\ consumed' \in 0..Len(topic)
      /\ current' \in [ProductIds -> CatalogRows]
      /\ \A i \in 1..consumed' : i \in 1..consumed
    BY <1>1 DEF CdcInv, CdcTypeOK
<1>3. ConsumedInv'
    BY <1>1, <1>2 DEF CdcInv, ConsumedInv, Sent, Change, SentAlone
<1> QED
    BY <1>1, <1>2, <1>3, SinkAlone

LEMMA RegisterStep ==
    ASSUME CdcInv, PutConfig
    PROVE  CdcInv'
<1>1. /\ TableAlone /\ UNCHANGED <<task, stored, topic>> /\ registered' = TRUE
    BY DEF PutConfig, TableAlone, tableVars, taskVars, sinkVars
<1>2. CdcTypeOK'
    BY <1>1 DEF CdcInv, CdcTypeOK, TableAlone, Present
<1>3. QuietInv' /\ LoadedInv'
    BY <1>1 DEF CdcInv, QuietInv, LoadedInv, TableAlone, Present
<1>4. ToldInv'
  <2>1. \A c \in Changes : Told(c)' => Told(c)
      BY <1>1 DEF Told, Sent, InSnapshot, LoggedAfter, TableAlone
  <2> QED
      BY <1>1, <2>1, ToldFewer DEF CdcInv, TableAlone
<1>5. LatestInv'
    BY <1>1 DEF CdcInv, LatestInv, TableAlone, RowChange, Change, Present, Sent, InSnapshot,
           LoggedAfter
<1>6. ConsumedInv'
    BY <1>1 DEF CdcInv, ConsumedInv, TableAlone, Sent, Change
<1> QED
    BY <1>2, <1>3, <1>4, <1>5, <1>6 DEF CdcInv

\* The generator's steps, and none.
LEMMA CdcStutter ==
    ASSUME CdcInv, UNCHANGED <<tableVars, registered, taskVars, sinkVars>>
    PROVE  CdcInv'
<1>1. SentAlone /\ current' = current /\ consumed' = consumed
    BY DEF SentAlone, tableVars, taskVars, sinkVars
<1>2. ConsumedInv'
    BY <1>1 DEF CdcInv, ConsumedInv, Sent, Change, SentAlone
<1>3. current' \in [ProductIds -> CatalogRows] /\ consumed' \in 0..Len(topic)
    BY <1>1 DEF CdcInv, CdcTypeOK
<1> QED
    BY <1>1, <1>2, <1>3, SinkAlone

LEMMA GeneratorAlone ==
    ASSUME [Next]_vars
    PROVE  [GeneratorNext]_generatorVars
<1>1. CASE UNCHANGED vars
    BY <1>1 DEF vars
<1>2. CASE Generate
    BY <1>2 DEF Generate, GeneratorNext
<1>3. ASSUME NEW p \in ProductIds, NEW row \in UpdatedRows, Update(p, row)
      PROVE  UNCHANGED generatorVars
    BY <1>3 DEF Update
<1>4. CASE Load \/ PutConfig \/ Consume \/ Reread
    BY <1>4 DEF Load, PutConfig, Consume, Reread
<1>5. CASE StartTask \/ TakeSnapshot \/ SendSnapshotRow \/ FinishSnapshot
    BY <1>5 DEF StartTask, TakeSnapshot, SendSnapshotRow, FinishSnapshot, UNCHANGED_BUT_TASK
<1>6. CASE StreamChange \/ StoreOffset \/ FailTask
    BY <1>6 DEF StreamChange, StoreOffset, FailTask, UNCHANGED_BUT_TASK
<1> QED
    BY <1>1, <1>2, <1>3, <1>4, <1>5, <1>6 DEF Next

LEMMA CdcStep ==
    ASSUME GInv, CdcInv, [Next]_vars
    PROVE  CdcInv'
<1>1. CASE UNCHANGED vars
    BY <1>1, CdcStutter DEF vars
<1>2. CASE Generate /\ UNCHANGED <<tableVars, registered, taskVars, sinkVars>>
    BY <1>2, CdcStutter
<1>3. CASE \E p \in ProductIds, row \in UpdatedRows : Update(p, row)
    BY <1>3, UpdateStep
<1>4. CASE Load \/ PutConfig \/ Consume \/ Reread
    BY <1>4, LoadStep, RegisterStep, ConsumeStep, RereadStep
<1>5. CASE StartTask \/ TakeSnapshot \/ SendSnapshotRow \/ FinishSnapshot
    BY <1>5, StartTaskStep, TakeSnapshotStep, SendStep, FinishStep
<1>6. CASE StreamChange \/ StoreOffset \/ FailTask
    BY <1>6, StreamStep, StoreStep, FailStep
<1> QED
    BY <1>1, <1>2, <1>3, <1>4, <1>5, <1>6 DEF Next

THEOREM CatalogInvariant == Spec => [](GInv /\ CdcInv)
<1>1. Init => GInv /\ CdcInv
    BY GInit, CdcInit DEF Init
<1>2. GInv /\ CdcInv /\ [Next]_vars => GInv' /\ CdcInv'
    BY GStep, CdcStep, GeneratorAlone
<1> QED
    BY <1>1, <1>2, PTL DEF Spec

-----------------------------------------------------------------------------
\* The generator's catalog is the reference's also while it is loaded, sent and
\* updated (generator.py:80-201, load_product_catalog.sh).
THEOREM CatalogStaysReference == Spec => []GeneratedIsDominant
<1>1. GInv => GeneratedIsDominant
    BY DEF GInv
<1> QED
    BY <1>1, CatalogInvariant, PTL

\* For any number of updates, loads before the registration, failures of the
\* task and rereads, what the topic says of one version of a product it says
\* everywhere (init.sql:11-37).
THEOREM OneContentPerVersion == Spec => []VersionNamesContent
<1>1. ASSUME CdcInv, ~reloaded, NEW i \in DOMAIN topic, NEW j \in DOMAIN topic,
             topic[i].product = topic[j].product, topic[i].version = topic[j].version
      PROVE  topic[i].content = topic[j].content
  <2>1. topic[i] \in Changes /\ topic[j] \in Changes
      BY <1>1 DEF CdcInv, CdcTypeOK
  <2>2. Told(topic[i]) /\ Told(topic[j])
      BY DEF Told, Sent
  <2> QED
      BY <1>1, <2>1, <2>2 DEF CdcInv, ToldInv, SameVersion
<1>2. CdcInv => VersionNamesContent
    BY <1>1 DEF VersionNamesContent
<1> QED
    BY <1>2, CatalogInvariant, PTL

\* Once everything logged is sent and consumed, ClickHouse shows PostgreSQL's
\* rows and the counts of the reconciliation agree, for any snapshot, failure,
\* redelivery and reread on the way (load_product_catalog.sh:46-49).
THEOREM DrainedCurrent == Spec => []DrainedIsCurrent
<1>1. ASSUME CdcInv, Drained, ~reloaded, NEW p \in ProductIds
      PROVE  current[p] = table[p]
  <2>1. /\ task.phase = "streaming" /\ task.position = Len(wal) /\ Len(wal) \in Nat
        /\ consumed = Len(topic) /\ topic \in Seq(Changes) /\ DOMAIN topic = 1..Len(topic)
        /\ \A i \in DOMAIN topic : topic[i] \in Changes
      BY <1>1 DEF Drained, CdcInv, CdcTypeOK
  <2>2. \A c : ~LoggedAfter(task.position, c)
      BY <2>1 DEF LoggedAfter, CdcInv, CdcTypeOK
  <2>3. /\ table[p] \in CatalogRows /\ current[p] \in CatalogRows
        /\ table[p].version \in Nat /\ current[p].version \in Nat
        /\ table[p] = [version |-> table[p].version, content |-> table[p].content]
        /\ current[p] = [version |-> current[p].version, content |-> current[p].content]
        /\ table[p] = NoRow \/ table[p].version > 0
      BY <1>1 DEF CdcInv, CdcTypeOK, CatalogRows
  <2>4. CASE current[p] = NoRow
    <3> SUFFICES ASSUME table[p] # NoRow
                 PROVE  FALSE
        BY <2>4
    <3>1. Sent(RowChange(p))
        BY <1>1, <2>1, <2>2 DEF CdcInv, LatestInv, Present
    <3>2. PICK i \in 1..consumed : topic[i] = RowChange(p)
        BY <2>1, <3>1 DEF Sent
    <3>3. current[p].version >= table[p].version
        BY <1>1, <3>2 DEF CdcInv, ConsumedInv, RowChange, Change
    <3> QED
        BY <2>3, <2>4, <3>3 DEF NoRow
  <2>5. CASE current[p] # NoRow
    <3> DEFINE c == Change(p, current[p])
    <3>1. Sent(c)
        BY <1>1, <2>5 DEF CdcInv, ConsumedInv
    <3>2. /\ c \in Changes /\ c.product = p /\ c.version = current[p].version
          /\ c.content = current[p].content
        BY <2>1, <3>1 DEF Sent, Change
    <3>3. c.version > 0
        BY <3>2 DEF Changes
    <3>4. Behind(c)
        BY <1>1, <3>1, <3>2 DEF CdcInv, ToldInv, Told
    <3>5. /\ current[p].version <= table[p].version
          /\ current[p].version = table[p].version => current[p].content = table[p].content
        BY <3>2, <3>4 DEF Behind
    <3>6. p \in Present(table)
        BY <2>3, <3>2, <3>3, <3>5 DEF Present, NoRow
    <3>7. Sent(RowChange(p))
        BY <1>1, <2>1, <2>2, <3>6 DEF CdcInv, LatestInv
    <3>8. PICK i \in 1..consumed : topic[i] = RowChange(p)
        BY <2>1, <3>7 DEF Sent
    <3>9. current[p].version >= table[p].version
        BY <1>1, <3>8 DEF CdcInv, ConsumedInv, RowChange, Change
    <3>10. current[p].version = table[p].version
        BY <2>3, <3>5, <3>9
    <3> QED
        BY <2>3, <3>5, <3>10
  <2> QED
      BY <2>4, <2>5
<1>2. ASSUME CdcInv, Drained, ~reloaded
      PROVE  current = table
    BY <1>1, <1>2 DEF CdcInv, CdcTypeOK
<1>3. CdcInv => DrainedIsCurrent
    BY <1>2 DEF DrainedIsCurrent, CdcInv, LoadedInv, Present
<1> QED
    BY <1>3, CatalogInvariant, PTL
=============================================================================
