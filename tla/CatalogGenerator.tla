-------------------------- MODULE CatalogGenerator --------------------------
(***************************************************************************)
(* generate_catalog: stream the behavior file into a SQLite table of       *)
(* (product, category) observations, in batches of FlushSize pending rows, *)
(* then write the catalog, one row per product with its most frequent      *)
(* category and the lowest of those that tie, and after it the manifest.   *)
(* The catalog replaces the old file at once; the manifest is written in   *)
(* place.  The database lives in a temporary directory, so a run that is   *)
(* killed leaves nothing but what has reached these two files.             *)
(*                                                                         *)
(* pending holds row numbers; a catalog is a set of <<product, category>>, *)
(* the other columns being functions of the product.  The SHA-256 of the   *)
(* catalog is modelled by the catalog itself.                              *)
(***************************************************************************)
EXTENDS EventContract, FiniteSets

CONSTANTS
    SourceFiles,    \* the behavior files there may be: sequences of rows
    FlushSize,      \* pending rows that force a flush (10_000)
    MaxGenerations  \* bound: runs of the generator

ASSUME FlushSizeAssumption == FlushSize \in Nat \ {0}
ASSUME MaxGenerationsAssumption == MaxGenerations \in Nat
ASSUME SourceFilesAssumption ==
    \A f \in SourceFiles :
        /\ f \in Seq([well_formed : BOOLEAN, user : Int, item : Int,
                      category : Int, behavior : STRING, timestamp : Int])

VARIABLES
    source,        \* the file this run reads
    phase,         \* idle, reading, or replaced (catalog written, manifest not)
    position,      \* rows read
    pending,       \* rows accepted and not yet in the table
    observations,  \* the table product_categories; 0: no such row
    counts,        \* valid_source_rows and rejected_source_rows
    csv,           \* the catalog file, and the file it was made of
    manifest,      \* the manifest file
    generations

generatorVars == <<source, phase, position, pending, observations, counts, csv,
                   manifest, generations>>

NoSource == << >>
NoCatalog == [exists |-> FALSE, rows |-> {}, of |-> NoSource]
NoManifest == [state |-> "absent", source_rows |-> 0, valid |-> 0, rejected |-> 0,
               unique_products |-> 0, conflicts |-> 0, catalog |-> {}]

\* _parse_catalog_key: a row counts if it parses and every field is sound.
KeyAccepted(row) ==
    /\ row.well_formed
    /\ row.user > 0 /\ row.item > 0 /\ row.category > 0 /\ row.timestamp > 0
    /\ row.behavior \in BehaviorTypes

KeyOf(row) == <<row.item, row.category>>
Keys == UNION {{KeyOf(f[i]) : i \in DOMAIN f} : f \in SourceFiles}

NoObservations == [k \in Keys |-> 0]

GeneratorInit ==
    /\ source = NoSource
    /\ phase = "idle"
    /\ position = 0
    /\ pending = {}
    /\ observations = NoObservations
    /\ counts = [valid |-> 0, rejected |-> 0]
    /\ csv = NoCatalog
    /\ manifest = NoManifest
    /\ generations = 0

\* The process and its temporary directory are gone.
ProcessEnds ==
    /\ phase' = "idle"
    /\ source' = NoSource
    /\ position' = 0
    /\ pending' = {}
    /\ observations' = NoObservations
    /\ counts' = [valid |-> 0, rejected |-> 0]

StartGeneration(f) ==
    /\ phase = "idle"
    /\ generations < MaxGenerations
    /\ generations' = generations + 1
    /\ phase' = "reading"
    /\ source' = f
    /\ UNCHANGED <<position, pending, observations, counts, csv, manifest>>

\* flush_pending: the grouped counts are added to the table's.
Flushed(rows) ==
    [k \in Keys |-> observations[k]
                        + Cardinality({i \in rows : KeyOf(source[i]) = k})]

RejectRow ==
    /\ phase = "reading" /\ position < Len(source)
    /\ ~KeyAccepted(source[position + 1])
    /\ position' = position + 1
    /\ counts' = [counts EXCEPT !.rejected = @ + 1]
    /\ UNCHANGED <<source, phase, pending, observations, csv, manifest, generations>>

ReadRow ==
    LET held == pending \cup {position + 1}
    IN  /\ phase = "reading" /\ position < Len(source)
        /\ KeyAccepted(source[position + 1])
        /\ position' = position + 1
        /\ counts' = [counts EXCEPT !.valid = @ + 1]
        /\ IF Cardinality(held) = FlushSize
           THEN observations' = Flushed(held) /\ pending' = {}
           ELSE observations' = observations /\ pending' = held
        /\ UNCHANGED <<source, phase, csv, manifest, generations>>

\* ROW_NUMBER() OVER (PARTITION BY product_id
\*                    ORDER BY observations DESC, category_id ASC) = 1
Dominant(obs) ==
    {k \in Keys : /\ obs[k] > 0
                  /\ \A l \in Keys : l[1] = k[1] /\ l # k =>
                        obs[k] > obs[l] \/ (obs[k] = obs[l] /\ k[2] <= l[2])}

Observed(obs) == {k \in Keys : obs[k] > 0}
Products(keys) == {k[1] : k \in keys}
Conflicting(keys) == {k[1] : k \in {j \in keys : \E l \in keys : l[1] = j[1] /\ l # j}}

\* Mutant: the rows still pending at the end of the file are not flushed.
WriteCatalogUnflushed ==
    /\ phase = "reading" /\ position = Len(source)
    /\ csv' = [exists |-> TRUE, rows |-> Dominant(observations), of |-> source]
    /\ pending' = {}
    /\ phase' = "replaced"
    /\ UNCHANGED <<source, position, observations, counts, manifest, generations>>

\* The last flush, then the temporary catalog, renamed over the old one.
WriteCatalog ==
    /\ phase = "reading" /\ position = Len(source)
    /\ observations' = Flushed(pending)
    /\ pending' = {}
    /\ csv' = [exists |-> TRUE, rows |-> Dominant(observations'), of |-> source]
    /\ phase' = "replaced"
    /\ UNCHANGED <<source, position, counts, manifest, generations>>

\* Mutant: every row of the table counts as a product.
ManifestCountsPairs ==
    [state |-> "written", source_rows |-> position,
     valid |-> counts.valid, rejected |-> counts.rejected,
     unique_products |-> Cardinality(Observed(observations)),
     conflicts |-> Cardinality(Conflicting(Observed(observations))),
     catalog |-> csv.rows]

CatalogManifest ==
    [state |-> "written", source_rows |-> position,
     valid |-> counts.valid, rejected |-> counts.rejected,
     unique_products |-> Cardinality(Products(Observed(observations))),
     conflicts |-> Cardinality(Conflicting(Observed(observations))),
     catalog |-> csv.rows]

WriteManifest ==
    /\ phase = "replaced"
    /\ manifest' = CatalogManifest
    /\ ProcessEnds
    /\ UNCHANGED <<csv, generations>>

\* The process is killed; while the manifest is being written it may be left
\* empty or cut, and nothing reads it then.
KillGenerator ==
    /\ phase # "idle"
    /\ ProcessEnds
    /\ \/ UNCHANGED manifest
       \/ phase = "replaced" /\ manifest' = [NoManifest EXCEPT !.state = "torn"]
    /\ UNCHANGED <<csv, generations>>

GeneratorNext ==
    \/ \E f \in SourceFiles : StartGeneration(f)
    \/ RejectRow
    \/ ReadRow
    \/ WriteCatalog
    \/ WriteManifest
    \/ KillGenerator

GeneratorSpec == GeneratorInit /\ [][GeneratorNext]_generatorVars

-----------------------------------------------------------------------------
(* The reference: the rows of a file that the replay client sends and the  *)
(* job finds valid, counted as a whole.                                    *)

JobAccepts(f, i) ==
    RowAccepted(f[i]) /\ Valid(ParseEvent(f[i], i - 1, "run"))

RowsOf(f, k) == {i \in DOMAIN f : JobAccepts(f, i) /\ KeyOf(f[i]) = k}

Occurrences(f, k) == Cardinality(RowsOf(f, k))

DominantOf(f) ==
    {k \in Keys : /\ Occurrences(f, k) > 0
                  /\ \A l \in Keys \ {k} : l[1] = k[1] =>
                        \/ Occurrences(f, l) < Occurrences(f, k)
                        \/ Occurrences(f, l) = Occurrences(f, k) /\ l[2] > k[2]}

ReferenceCatalog == [f \in SourceFiles \cup {NoSource} |-> DominantOf(f)]

\* Whatever the batch size and however many runs were killed, the catalog file
\* is that of a whole source file: a product for every item of an event the job
\* accepts and for no other, with its most frequent category, the lowest one on
\* a tie.  A manifest, also one older than the catalog beside it, counts the
\* products of the catalog it was written for (generator.py:42-63, 111-201).
GeneratedIsDominant ==
    /\ csv.exists => csv.rows = ReferenceCatalog[csv.of]
    /\ manifest.state = "written" =>
          /\ manifest.unique_products = Cardinality(manifest.catalog)
          /\ manifest.source_rows = manifest.valid + manifest.rejected

GeneratorTypeOK ==
    /\ source \in SourceFiles \cup {NoSource}
    /\ phase \in {"idle", "reading", "replaced"}
    /\ position \in 0..Len(source)
    /\ pending \subseteq 1..position
    /\ observations \in [Keys -> Nat]
    /\ counts \in [valid : Nat, rejected : Nat]
    /\ csv \in [exists : BOOLEAN, rows : SUBSET Keys, of : SourceFiles \cup {NoSource}]
    /\ manifest \in [state : {"absent", "written", "torn"}, source_rows : Nat,
                     valid : Nat, rejected : Nat, unique_products : Nat,
                     conflicts : Nat, catalog : SUBSET Keys]
    /\ generations \in 0..MaxGenerations
=============================================================================
