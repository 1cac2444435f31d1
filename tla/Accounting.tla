----------------------------- MODULE Accounting -----------------------------
(***************************************************************************)
(* The accounting that closes a verification: verify.py counts what the    *)
(* canonical raw and quality views hold, decodes the fixture file again,   *)
(* once for each of its fixed run ids, and derives the volume of           *)
(* duplicates and of on-time events by subtraction, as neither has rows of *)
(* its own.  It never looks at the topic: a run may have delivered only a  *)
(* part of the file, and rows of other runs or files may be in the views.  *)
(* Here the same arithmetic is done on the job's outputs, and the          *)
(* properties compare it with what the source topic really holds.          *)
(*                                                                         *)
(* The views are ClickHouse's: one row per event_id, one per               *)
(* quality_event_id, whatever was written more than once.                  *)
(***************************************************************************)
EXTENDS StreamJob

CONSTANTS
    Fixture,      \* the events the rows of SOURCE_FIXTURE decode to
    ReplayRunIds  \* REPLAY_RUN_IDS

ASSUME FixtureAssumption == IsFiniteSet(Fixture) /\ IsFiniteSet(ReplayRunIds)

\* The topic holds the events of the fixture and of invalid rows built like
\* them: an id is taken of every field but the run (UserBehaviorEvent).
ASSUME IdentityAssumption ==
    \A e, f \in Events :
        e.event_id = f.event_id =>
            <<e.user, e.item, e.category, e.behavior, e.time, e.seq>>
                = <<f.user, f.item, f.category, f.behavior, f.time, f.seq>>

\* Mutant: the run is left out of the identity of a quality row.
QualityIdWithoutRun(q) ==
    <<q.type, source[q.at].event_id, source[q.at].seq,
      IF q.type = "LATE" THEN "LATE_FOR_AGGREGATION"
                         ELSE ValidationReason(source[q.at])>>

\* The SHA-256 of the joined fields, modelled by the tuple of them.
QualityEventId(q) ==
    <<q.type, source[q.at].event_id, source[q.at].run, source[q.at].seq,
      IF q.type = "LATE" THEN "LATE_FOR_AGGREGATION"
                         ELSE ValidationReason(source[q.at])>>

CanonicalRaw == {source[o].event_id : o \in out.raw}

\* Mutant: the rows of every run are selected.
QualityOfAllRuns(type) ==
    {QualityEventId(q) : q \in {r \in out.quality : r.type = type}}

\* Unlike the raw rows, those of other runs are filtered out.
CanonicalQuality(type) ==
    {QualityEventId(q) : q \in {r \in out.quality :
        r.type = type /\ source[r.at].run \in ReplayRunIds}}

\* The whole fixture for every run id, delivered or not.
Decoded == {<<e.event_id, r>> : e \in Fixture, r \in ReplayRunIds}

\* Mutant: every accepted event is taken for an aggregated one.
AccountingWithoutLate ==
    LET invalid == Cardinality(CanonicalQuality("INVALID"))
        valid == Cardinality(Decoded) - invalid
        accepted == Cardinality(CanonicalRaw)
    IN  [invalid |-> invalid, valid |-> valid,
         duplicate |-> valid - accepted, accepted_unique |-> accepted,
         late |-> 0, metrics_input |-> accepted]

ReconcileAccounting ==
    LET invalid == Cardinality(CanonicalQuality("INVALID"))
        late == Cardinality(CanonicalQuality("LATE"))
        valid == Cardinality(Decoded) - invalid
        accepted == Cardinality(CanonicalRaw)
    IN  [invalid |-> invalid, valid |-> valid,
         duplicate |-> valid - accepted, accepted_unique |-> accepted,
         late |-> late, metrics_input |-> accepted - late]

\* "canonical and quality counts exceed fixture input"
ReconciliationRaises ==
    \/ ReconcileAccounting.duplicate < 0
    \/ ReconcileAccounting.late > ReconcileAccounting.accepted_unique

-----------------------------------------------------------------------------
\* Deliveries of a valid event by a run other than the one accepted first.
Redelivered ==
    {<<source[o].event_id, source[o].run>> :
        o \in {p \in Offsets :
                  /\ Valid(source[p])
                  /\ \E f \in Offsets : /\ FirstOccurrence(f)
                                        /\ SameId(f, p)
                                        /\ source[f].run # source[p].run}}

\* Deliveries whose rows the two views show.
Shown ==
    {<<source[o].event_id, source[o].run>> :
        o \in {p \in Offsets : Valid(source[p]) \/ source[p].run \in ReplayRunIds}}

Undelivered == Decoded \ Shown

\* Deliveries of other runs, or of rows that are not in the fixture.
Foreign == Shown \ Decoded

\* Once the job has read everything, the difference verify.py takes for
\* duplicates is the number of deliveries that repeat an accepted event in
\* another run, plus the fixture's rows that were never delivered, less the
\* deliveries the fixture does not account for: exact if each run delivered the
\* whole fixture and nothing else did.  It raises just when the last of the
\* three outweighs the others.  All through lost output and output written
\* again, restores, fresh submissions, a run repeated under its id and invalid
\* rows delivered by several runs (verify.py:110-125).  When a dedup entry
\* expires an event may be late in two runs: two audit rows for one accepted
\* id, and the reconciliation may raise for that reason too.
DuplicatesAccounted ==
    Idle =>
        /\ ReconcileAccounting.duplicate + Cardinality(Foreign)
                = Cardinality(Redelivered) + Cardinality(Undelivered)
        /\ expiries = 0 =>
              (ReconciliationRaises <=>
                  Cardinality(Foreign) > Cardinality(Redelivered) + Cardinality(Undelivered))

\* Late events of a run whose audit rows are filtered out.
HiddenLate ==
    {o \in Offsets : FirstOccurrence(o) /\ IsLate(o) /\ source[o].run \notin ReplayRunIds}

\* Without a restore, what verify.py calls metrics_input, canonical raw less
\* the late audit, is the number of accepted events that an open window holds
\* or both aggregates count, a fresh submission's rows included, and of the
\* late ones that another run delivered first: their audit rows are filtered
\* out, their raw rows are not.  Holds while no dedup entry expires: a second
\* acceptance may be late where the first was not (verify.py:117-138, 194-201).
MetricsInputAccounted ==
    Idle /\ expiries = 0 =>
        ReconcileAccounting.metrics_input =
            Cardinality(HiddenLate) +
            Cardinality({o \in Offsets :
                /\ FirstOccurrence(o)
                /\ o \in job.open \/ (InMetrics(o) /\ InFeatures(o))})
=============================================================================
