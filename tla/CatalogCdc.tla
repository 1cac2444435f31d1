----------------------------- MODULE CatalogCdc -----------------------------
(***************************************************************************)
(* The product catalog from its file to ClickHouse: the loader replaces    *)
(* the rows of PostgreSQL, whose trigger guards the versions of updates;   *)
(* register_connector.py creates the Debezium connector;                   *)
(* the connector sends a snapshot of the table and then its changes to     *)
(* product-catalog-cdc, from which ClickHouse keeps the row of greatest    *)
(* version per product.                                                    *)
(*                                                                         *)
(* A row has a version and a content: the category of a generated row, or  *)
(* another number for a seeded or edited one.  Debezium and Kafka Connect  *)
(* are external, as the connector's configuration asks of them: a snapshot *)
(* of one point of the log and the log from there on, the source offset    *)
(* stored now and then, TRUNCATE not passed on, a failed task left failed. *)
(* ClickHouseIngest models how the table keeps that row.                   *)
(***************************************************************************)
EXTENDS CatalogGenerator

CONSTANTS
    Seed,             \* product -> content of the rows of init.sql
    Edits,            \* contents that an UPDATE may give a row
    MaxVersion,       \* bound: catalog_version
    MaxUpdates,       \* bound: UPDATE statements that change or rewrite a row
    MaxLoads,         \* bound: runs of load_product_catalog.sh that commit
    MaxTaskFailures,  \* bound: failures of the connector's task
    MaxRereads        \* bound: times ClickHouse reads records again

ASSUME SeedAssumption == IsFiniteSet(DOMAIN Seed)
ASSUME CatalogBounds ==
    {MaxVersion, MaxUpdates, MaxLoads, MaxTaskFailures, MaxRereads} \subseteq Nat

VARIABLES
    table,      \* PostgreSQL product_catalog: product -> row, or NoRow
    wal,        \* its row changes: [product, version, content]
    loaded,     \* the last load: its result and the manifest's unique_products
    reloaded,   \* a load has committed after the connector was registered
    registered, \* Kafka Connect holds the connector's configuration
    task,       \* the connector's task: [phase, todo, from, position]
    stored,     \* the source offset Connect has stored, or NoOffset
    topic,      \* product-catalog-cdc
    current,    \* product_catalog_current_canonical: product -> row, or NoRow
    consumed,   \* offset of the ClickHouse consumer
    updates, loads, failures, rereads

tableVars == <<table, wal, loaded, reloaded, updates, loads>>
taskVars == <<task, stored, topic, failures>>
sinkVars == <<current, consumed, rereads>>
vars == <<generatorVars, tableVars, registered, taskVars, sinkVars>>

ProductIds == Products(Keys) \cup DOMAIN Seed
NoRow == [version |-> 0, content |-> 0]
Present(t) == {p \in ProductIds : t[p] # NoRow}
NoOffset == -1
NoTask == [phase |-> "none", todo |-> << >>, from |-> 0, position |-> 0]

Init ==
    /\ GeneratorInit
    /\ table = [p \in ProductIds |->
                   IF p \in DOMAIN Seed THEN [version |-> 1, content |-> Seed[p]]
                                        ELSE NoRow]
    /\ wal = << >>
    /\ loaded = [result |-> "none", unique_products |-> 0]
    /\ reloaded = FALSE
    /\ registered = FALSE
    /\ task = NoTask /\ stored = NoOffset /\ topic = << >>
    /\ current = [p \in ProductIds |-> NoRow]
    /\ consumed = 0
    /\ updates = 0 /\ loads = 0 /\ failures = 0 /\ rereads = 0

-----------------------------------------------------------------------------
(* PostgreSQL. *)

Change(p, row) == [product |-> p, version |-> row.version, content |-> row.content]

\* Mutant: the trigger compares versions only.
TriggerComparesVersions(old, new) == new.version >= old.version

\* product_catalog_version_guard lets the new row pass.
TriggerAccepts(old, new) ==
    /\ new.version >= old.version
    /\ new.version = old.version => new.content = old.content

\* An UPDATE of an existing row, committed at once; one that the trigger
\* rejects changes nothing, and neither does a DELETE.
Update(p, row) ==
    /\ updates < MaxUpdates
    /\ table[p] # NoRow
    /\ TriggerAccepts(table[p], row)
    /\ table' = [table EXCEPT ![p] = row]
    /\ wal' = Append(wal, Change(p, row))
    /\ updates' = updates + 1
    /\ UNCHANGED <<generatorVars, loaded, reloaded, loads, registered, taskVars,
                   sinkVars>>

GeneratedTable ==
    [p \in ProductIds |->
        IF \E k \in csv.rows : k[1] = p
        THEN [version |-> 1, content |-> (CHOOSE k \in csv.rows : k[1] = p)[2]]
        ELSE NoRow]

\* The rows of a table in the order of their keys: the one such sequence.
ChangesOf(t) ==
    {s \in [1..Cardinality(Present(t)) -> {Change(p, t[p]) : p \in Present(t)}] :
        /\ \A i, j \in DOMAIN s : i < j => s[i].product < s[j].product
        /\ \A p \in Present(t) : \E i \in DOMAIN s : s[i] = Change(p, t[p])}

\* Mutant: the count is not compared with the manifest's.
LoadResultUnchecked == "ok"

LoadResult ==
    IF Cardinality(Present(GeneratedTable)) = manifest.unique_products
    THEN "ok" ELSE "failed"

\* The script runs with both files there and a manifest that parses: TRUNCATE
\* and INSERT in one transaction, past the triggers, and the comparison of the
\* counts when that has been committed.
Load ==
    /\ loads < MaxLoads
    /\ csv.exists /\ manifest.state = "written"
    /\ table' = GeneratedTable
    /\ \E changes \in ChangesOf(GeneratedTable) : wal' = wal \o changes
    /\ loaded' = [result |-> LoadResult, unique_products |-> manifest.unique_products]
    /\ reloaded' = (reloaded \/ registered)
    /\ loads' = loads + 1
    /\ UNCHANGED <<generatorVars, updates, registered, taskVars, sinkVars>>

-----------------------------------------------------------------------------
(* register_connector.py. *)

\* A PUT that fails for the script may have been done, and the script may be
\* run again; the status it then polls changes nothing, and RUNNING is not a
\* finished snapshot.
PutConfig ==
    /\ registered' = TRUE
    /\ UNCHANGED <<generatorVars, tableVars, taskVars, sinkVars>>

-----------------------------------------------------------------------------
(* The connector's task. *)

TaskRunning == task.phase # "none"

UNCHANGED_BUT_TASK == UNCHANGED <<generatorVars, tableVars, registered, sinkVars>>

\* snapshot.mode initial: a snapshot unless an offset has been stored.
StartTask ==
    /\ registered /\ ~TaskRunning
    /\ task' = IF stored = NoOffset
               THEN [NoTask EXCEPT !.phase = "starting"]
               ELSE [NoTask EXCEPT !.phase = "streaming", !.position = stored]
    /\ UNCHANGED <<stored, topic, failures>>
    /\ UNCHANGED_BUT_TASK

TakeSnapshot ==
    /\ task.phase = "starting"
    /\ \E changes \in ChangesOf(table) :
          task' = [task EXCEPT !.phase = "snapshot", !.todo = changes,
                               !.from = Len(wal)]
    /\ UNCHANGED <<stored, topic, failures>>
    /\ UNCHANGED_BUT_TASK

SendSnapshotRow ==
    /\ task.phase = "snapshot" /\ task.todo # << >>
    /\ topic' = Append(topic, Head(task.todo))
    /\ task' = [task EXCEPT !.todo = Tail(@)]
    /\ UNCHANGED <<stored, failures>>
    /\ UNCHANGED_BUT_TASK

\* Mutant: streaming starts where the log ends when the snapshot is through.
FinishSnapshotAtEnd ==
    /\ task.phase = "snapshot" /\ task.todo = << >>
    /\ task' = [task EXCEPT !.phase = "streaming", !.position = Len(wal)]
    /\ UNCHANGED <<stored, topic, failures>>
    /\ UNCHANGED_BUT_TASK

FinishSnapshot ==
    /\ task.phase = "snapshot" /\ task.todo = << >>
    /\ task' = [task EXCEPT !.phase = "streaming", !.position = task.from]
    /\ UNCHANGED <<stored, topic, failures>>
    /\ UNCHANGED_BUT_TASK

StreamChange ==
    /\ task.phase = "streaming" /\ task.position < Len(wal)
    /\ topic' = Append(topic, wal[task.position + 1])
    /\ task' = [task EXCEPT !.position = @ + 1]
    /\ UNCHANGED <<stored, failures>>
    /\ UNCHANGED_BUT_TASK

StoreOffset ==
    /\ task.phase = "streaming" /\ stored # task.position
    /\ stored' = task.position
    /\ UNCHANGED <<task, topic, failures>>
    /\ UNCHANGED_BUT_TASK

FailTask ==
    /\ TaskRunning /\ failures < MaxTaskFailures
    /\ failures' = failures + 1
    /\ task' = NoTask
    /\ UNCHANGED <<stored, topic>>
    /\ UNCHANGED_BUT_TASK

-----------------------------------------------------------------------------
(* ClickHouse. *)

\* ReplacingMergeTree(catalog_version): of equal versions the last inserted.
CurrentRow(old, new) == IF new.version >= old.version THEN new ELSE old

Consume ==
    /\ consumed < Len(topic)
    /\ LET c == topic[consumed + 1]
       IN  current' = [current EXCEPT ![c.product] =
                          CurrentRow(@, [version |-> c.version, content |-> c.content])]
    /\ consumed' = consumed + 1
    /\ UNCHANGED <<generatorVars, tableVars, registered, taskVars, rereads>>

Reread ==
    /\ rereads < MaxRereads
    /\ rereads' = rereads + 1
    /\ consumed' \in 0..(consumed - 1)
    /\ UNCHANGED <<generatorVars, tableVars, registered, taskVars, current>>

-----------------------------------------------------------------------------
UpdatedRows == [version : 1..MaxVersion, content : Edits]

Generate ==
    \/ \E f \in SourceFiles : StartGeneration(f)
    \/ RejectRow
    \/ ReadRow
    \/ WriteCatalog
    \/ WriteManifest
    \/ KillGenerator

Next ==
    \/ Generate /\ UNCHANGED <<tableVars, registered, taskVars, sinkVars>>
    \/ \E p \in ProductIds, row \in UpdatedRows : Update(p, row)
    \/ Load
    \/ PutConfig
    \/ StartTask
    \/ TakeSnapshot
    \/ SendSnapshotRow
    \/ FinishSnapshot
    \/ StreamChange
    \/ StoreOffset
    \/ FailTask
    \/ Consume
    \/ Reread

Spec == Init /\ [][Next]_vars

\* A running task and the consumer proceed; a failed task stays
\* failed until somebody restarts it, and nobody has to run anything.
Fairness ==
    /\ WF_vars(TakeSnapshot) /\ WF_vars(SendSnapshotRow)
    /\ WF_vars(FinishSnapshot) /\ WF_vars(StreamChange)
    /\ WF_vars(Consume)
FairSpec == Spec /\ Fairness

-----------------------------------------------------------------------------
\* What the topic says of one version of a product it says everywhere: a
\* snapshot taken again, changes sent again and the loader's rows included, so
\* that which of equal versions is inserted last cannot matter.  Holds while no
\* load is made after the registration (init.sql:11-37, RUNBOOK.md:475-477).
VersionNamesContent ==
    ~reloaded =>
        \A i, j \in DOMAIN topic :
            topic[i].product = topic[j].product /\ topic[i].version = topic[j].version
                => topic[i].content = topic[j].content

Drained ==
    /\ task.phase = "streaming" /\ task.position = Len(wal)
    /\ consumed = Len(topic)

\* When all that PostgreSQL has logged is sent and consumed, ClickHouse shows
\* PostgreSQL's rows, whatever was updated during the snapshot, sent twice or
\* read twice; and the three counts of the reconciliation agree after a load
\* that succeeded (OPERATIONS.md:95-98, load_product_catalog.sh:46-49).
DrainedIsCurrent ==
    Drained /\ ~reloaded =>
        /\ current = table
        /\ loaded.result = "ok" =>
              Cardinality(Present(current)) = loaded.unique_products

\* If the task is up in the end, ClickHouse ends at PostgreSQL's rows.
CatalogConverges ==
    <>[](TaskRunning /\ ~reloaded) => <>[](current = table)
=============================================================================
