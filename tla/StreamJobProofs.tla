-------------------------- MODULE StreamJobProofs --------------------------
(***************************************************************************)
(* What holds of the Flink job for every set of events, delay, window      *)
(* size and number of failures, submissions and expiries.                  *)
(***************************************************************************)
EXTENDS StreamJob, TLAPS, FiniteSetTheorems, SequenceTheorems

-----------------------------------------------------------------------------
(* The operators steps are built from. *)

LEMMA RowsFinite ==
    ASSUME NEW S, IsFiniteSet(S)
    PROVE  IsFiniteSet(FeatureRows(S)) /\ IsFiniteSet(MetricRows(S))
<1> DEFINE frow(o) == [user |-> source[o].user, end |-> WindowEnd(source[o]),
                       events |-> {p \in S : /\ source[p].user = source[o].user
                                             /\ WindowEnd(source[p]) = WindowEnd(source[o])}]
           f == [o \in S |-> frow(o)]
           mrow(o) == [item |-> source[o].item, category |-> source[o].category,
                       end |-> WindowEnd(source[o]),
                       events |-> {p \in S : /\ source[p].item = source[o].item
                                             /\ source[p].category = source[o].category
                                             /\ WindowEnd(source[p]) = WindowEnd(source[o])}]
           m == [o \in S |-> mrow(o)]
<1>1. FeatureRows(S) = {frow(o) : o \in S} /\ MetricRows(S) = {mrow(o) : o \in S}
    BY DEF FeatureRows, MetricRows
<1> HIDE DEF frow, mrow
<1>2. f \in Surjection(S, {frow(o) : o \in S})
    BY DEF Surjection
<1>3. m \in Surjection(S, {mrow(o) : o \in S})
    BY DEF Surjection
<1> QED
    BY <1>1, <1>2, <1>3, FS_Surjection

LEMMA RowsType ==
    ASSUME TypeOK, NEW S \in SUBSET Offsets
    PROVE  /\ FeatureRows(S) \in SUBSET FeatureRow
           /\ MetricRows(S) \in SUBSET MetricRow
<1>1. ASSUME NEW o \in Offsets
      PROVE  source[o] \in Events
    BY <1>1, ElementOfSeq DEF TypeOK, Offsets
<1>2. ASSUME NEW o \in Offsets
      PROVE  WindowEnd(source[o]) \in Int
    BY <1>1, EventsAssumption, WindowAssumption DEF WindowEnd
<1> QED
    BY <1>1, <1>2, EventsAssumption DEF FeatureRows, MetricRows, FeatureRow, MetricRow

LEMMA EmissionsType ==
    ASSUME NEW T, NEW rows \in SUBSET T, IsFiniteSet(rows),
           NEW s \in Emissions(rows)
    PROVE  s \in Seq(T)
<1>1. Cardinality(rows) \in Nat
    BY FS_CardinalityType
<1> QED
    BY <1>1 DEF Emissions

\* A step that reads a record keeps the types, whatever it writes.
LEMMA ReadEventType ==
    ASSUME TypeOK, Ready,
           NEW seen \in SUBSET Ids, NEW buffered \in SUBSET Offsets,
           NEW top \in [CartKeys -> 0..Len(source)], NEW written \in Outputs,
           ReadEvent(seen, buffered, top, written)
    PROVE  TypeOK'
<1> DEFINE watermark == Later(wm, WatermarkOf(Event))
           windowWm == Later(job.windowWm, watermark)
           due == {o \in buffered : Closed(source[o], windowWm)}
<1>1. At \in Offsets /\ Event \in Events
    BY ElementOfSeq DEF TypeOK, JobState, Ready, At, Event, Offsets
<1>2. watermark \in Int
    BY <1>1, EventsAssumption, DelayAssumption DEF TypeOK, Later, WatermarkOf
<1>3. windowWm \in Int
    BY <1>2 DEF TypeOK, JobState, Later
<1>4. due \in SUBSET Offsets /\ IsFiniteSet(due)
  <2>1. Len(source) \in Int /\ 1 \in Int
    BY LenProperties DEF TypeOK
  <2>2. IsFiniteSet(Offsets)
    BY <2>1, FS_Interval DEF Offsets
  <2>3. due \in SUBSET Offsets
    OBVIOUS
  <2> QED
    BY <2>2, <2>3, FS_Subset
<1>5. PICK f \in Emissions(FeatureRows(due)), m \in Emissions(MetricRows(due)) :
          out' = [written EXCEPT !.features = @ \o f, !.metrics = @ \o m]
    BY DEF ReadEvent
<1>6. f \in Seq(FeatureRow) /\ m \in Seq(MetricRow)
    BY <1>4, RowsFinite, RowsType, EmissionsType
<1>7. written.features \o f \in Seq(FeatureRow) /\ written.metrics \o m \in Seq(MetricRow)
    BY <1>6, ConcatProperties DEF Outputs
<1>8. out' \in Outputs
    BY <1>5, <1>7 DEF Outputs
<1>9. job' = [position |-> At, seen |-> seen, windowWm |-> windowWm,
              open |-> buffered \ due, top |-> top]
    BY DEF ReadEvent
<1> HIDE DEF watermark, windowWm, due
<1>10. job' \in JobState
    BY <1>1, <1>3, <1>4, <1>9 DEF JobState, Offsets
<1>11. UNCHANGED <<source, ckpt, durable, status, restarts, resubmits, expiries>>
       /\ wm' = watermark
    BY DEF ReadEvent, watermark
<1> QED
    BY <1>2, <1>8, <1>10, <1>11 DEF TypeOK, JobState, Outputs, FeatureRow, MetricRow, Offsets

\* What the operators hold and write for the record read is well typed.
LEMMA HandledType ==
    ASSUME TypeOK, Ready
    PROVE  /\ At \in Offsets /\ Event \in Events /\ Event.event_id \in Ids
           /\ Buffered(At) \in SUBSET Offsets
           /\ TopAfter(At) \in [CartKeys -> 0..Len(source)]
           /\ CartAfter(At) \in Seq(Offsets)
<1>1. At \in Offsets /\ Event \in Events
    BY ElementOfSeq DEF TypeOK, JobState, Ready, At, Event, Offsets
<1>2. Event.event_id \in Ids
    BY <1>1 DEF Ids
<1>3. Buffered(At) \in SUBSET Offsets
    BY <1>1 DEF TypeOK, JobState, Buffered
<1>4. TopAfter(At) \in [CartKeys -> 0..Len(source)]
  <2>1. job.top \in [CartKeys -> 0..Len(source)] /\ At \in 0..Len(source)
    BY <1>1 DEF TypeOK, JobState, Offsets
  <2> QED
    BY <2>1 DEF TopAfter
<1>5. CartAfter(At) \in Seq(Offsets)
    BY <1>1, AppendProperties DEF TypeOK, Outputs, CartAfter
<1> QED
    BY <1>1, <1>2, <1>3, <1>4, <1>5

\* An audit record, with or without the accepted event it belongs to.
LEMMA WrittenType ==
    ASSUME out \in Outputs, NEW o \in Offsets, NEW cart \in Seq(Offsets),
           NEW type \in {"INVALID", "LATE"}
    PROVE  /\ [out EXCEPT !.quality = @ \cup {[type |-> type, at |-> o]}] \in Outputs
           /\ [out EXCEPT !.raw = @ \cup {o}, !.cart = cart,
                          !.quality = @ \cup {[type |-> type, at |-> o]}] \in Outputs
<1> DEFINE audit == [type |-> type, at |-> o]
<1>1. out.quality \cup {audit} \in SUBSET [type : {"INVALID", "LATE"}, at : Offsets]
    BY DEF Outputs
<1>2. out.raw \cup {o} \in SUBSET Offsets
    BY DEF Outputs
<1> HIDE DEF audit
<1>3. [out EXCEPT !.quality = @ \cup {audit}] \in Outputs
    BY <1>1 DEF Outputs
<1>4. [out EXCEPT !.raw = @ \cup {o}, !.cart = cart,
                  !.quality = @ \cup {audit}] \in Outputs
    BY <1>1, <1>2 DEF Outputs
<1> QED
    BY <1>3, <1>4 DEF audit

LEMMA SurvivorsType ==
    ASSUME TypeOK, NEW kept \in Survivors
    PROVE  kept \in Outputs
<1>1. /\ out.features \in Seq(FeatureRow) /\ durable.features \in Seq(FeatureRow)
      /\ out.metrics \in Seq(MetricRow) /\ durable.metrics \in Seq(MetricRow)
      /\ out.cart \in Seq(Offsets) /\ durable.cart \in Seq(Offsets)
    BY DEF TypeOK, Outputs
<1>2. ASSUME NEW T, NEW s \in Seq(T), NEW n \in 0..Len(s)
      PROVE  SubSeq(s, 1, n) \in Seq(T)
    BY <1>2, SubSeqProperties, ElementOfSeq
<1>3. /\ Len(durable.features) \in Nat /\ Len(out.features) \in Nat
      /\ Len(durable.metrics) \in Nat /\ Len(out.metrics) \in Nat
      /\ Len(durable.cart) \in Nat /\ Len(out.cart) \in Nat
    BY <1>1, LenProperties
<1>4. /\ \E n \in 0..Len(out.features) : kept.features = SubSeq(out.features, 1, n)
      /\ \E n \in 0..Len(out.metrics) : kept.metrics = SubSeq(out.metrics, 1, n)
      /\ \E n \in 0..Len(out.cart) : kept.cart = SubSeq(out.cart, 1, n)
    BY <1>3 DEF Survivors
<1>5. kept.features \in Seq(FeatureRow)
    BY <1>4, <1>1, <1>2
<1>6. kept.metrics \in Seq(MetricRow)
    BY <1>4, <1>1, <1>2
<1>7. kept.cart \in Seq(Offsets)
    BY <1>4, <1>1, <1>2
<1>8. kept.raw \in SUBSET Offsets
    BY DEF Survivors, TypeOK, Outputs
<1>9. kept.quality \in SUBSET [type : {"INVALID", "LATE"}, at : Offsets]
    BY DEF Survivors, TypeOK, Outputs
<1>10. kept = [raw |-> kept.raw, quality |-> kept.quality,
              features |-> kept.features, metrics |-> kept.metrics,
              cart |-> kept.cart]
    BY DEF Survivors
<1> QED
    BY <1>5, <1>6, <1>7, <1>8, <1>9, <1>10 DEF Outputs

-----------------------------------------------------------------------------
(* Type correctness. *)

LEMMA FreshType ==
    ASSUME source \in Seq(Events)
    PROVE  FreshJob \in JobState /\ NoOutputs \in Outputs
<1>1. Len(source) \in Nat
    BY LenProperties
<1> QED
    BY <1>1, NoWatermarkAssumption DEF FreshJob, JobState, NoOutputs, Outputs

LEMMA TypeStep ==
    ASSUME TypeOK, [Next]_vars
    PROVE  TypeOK'
<1>0. source' = source => JobState' = JobState /\ Outputs' = Outputs
    BY DEF JobState, Outputs, Offsets, FeatureRow, MetricRow
<1>1. CASE \E e \in Events : Produce(e)
  <2>1. PICK e \in Events : Produce(e)
    BY <1>1
  <2>2. /\ source' \in Seq(Events) /\ Len(source') = Len(source) + 1
        /\ Len(source) \in Nat
    BY <2>1, AppendProperties, LenProperties DEF TypeOK, Produce
  <2>3. Offsets \subseteq Offsets'
    BY <2>2 DEF Offsets
  <2>4. JobState \subseteq JobState'
    BY <2>2, <2>3 DEF JobState
  <2>5. Outputs \subseteq Outputs'
    <3>1. FeatureRow \subseteq FeatureRow' /\ MetricRow \subseteq MetricRow'
        BY <2>3 DEF FeatureRow, MetricRow
    <3>2. ASSUME NEW S, NEW T, S \subseteq T
          PROVE  Seq(S) \subseteq Seq(T)
        BY <3>2, SeqMonotonic
    <3> QED
        BY <2>3, <3>1, <3>2 DEF Outputs
  <2> QED
    BY <2>1, <2>2, <2>4, <2>5 DEF TypeOK, Produce
<1>2. CASE ProcessInvalid
  <2>1. [out EXCEPT !.quality = @ \cup {[type |-> "INVALID", at |-> At]}] \in Outputs
    BY <1>2, HandledType, WrittenType DEF TypeOK, ProcessInvalid
  <2> QED
    BY <1>2, <2>1, ReadEventType DEF TypeOK, JobState, ProcessInvalid
<1>3. CASE ProcessDuplicate
    BY <1>3, ReadEventType DEF TypeOK, JobState, ProcessDuplicate
<1>4. CASE ProcessOnTime
  <2>1. [out EXCEPT !.raw = @ \cup {At}, !.cart = CartAfter(At)] \in Outputs
    BY <1>4, HandledType DEF TypeOK, ProcessOnTime, Outputs
  <2>2. job.seen \cup {Event.event_id} \in SUBSET Ids
    BY <1>4, HandledType DEF TypeOK, ProcessOnTime, JobState
  <2> QED
    BY <1>4, <2>1, <2>2, HandledType, ReadEventType DEF ProcessOnTime
<1>5. CASE ProcessLate
  <2>1. [out EXCEPT !.raw = @ \cup {At}, !.cart = CartAfter(At),
                    !.quality = @ \cup {[type |-> "LATE", at |-> At]}] \in Outputs
    BY <1>5, HandledType, WrittenType DEF TypeOK, ProcessLate
  <2>2. job.seen \cup {Event.event_id} \in SUBSET Ids /\ job.open \in SUBSET Offsets
    BY <1>5, HandledType DEF TypeOK, ProcessLate, JobState
  <2> QED
    BY <1>5, <2>1, <2>2, HandledType, ReadEventType DEF ProcessLate
<1>6. CASE Checkpoint
    BY <1>0, <1>6 DEF TypeOK, Checkpoint
<1>7. CASE TaskFailure
  <2>1. out' \in Outputs /\ durable' \in Outputs
    BY <1>7, SurvivorsType DEF TaskFailure, LoseInFlight
  <2>2. restarts' \in 0..RestartAttempts /\ status' \in {"RESTARTING", "GONE"}
    BY <1>7, BoundsAssumption DEF TypeOK, TaskFailure
  <2> QED
    BY <1>0, <1>7, <2>1, <2>2, NoWatermarkAssumption
    DEF TypeOK, TaskFailure
<1>8. CASE Restart
    BY <1>0, <1>8 DEF TypeOK, Restart
<1>9. CASE JobManagerLoss
  <2>1. out' \in Outputs /\ durable' \in Outputs
    BY <1>9, SurvivorsType DEF JobManagerLoss, LoseInFlight
  <2> QED
    BY <1>0, <1>9, <2>1, NoWatermarkAssumption DEF TypeOK, JobManagerLoss
<1>10. CASE Resubmit
  <2>1. FreshJob \in JobState
    BY FreshType DEF TypeOK
  <2> QED
    BY <1>0, <1>10, <2>1, NoWatermarkAssumption, BoundsAssumption
    DEF TypeOK, Resubmit
<1>11. CASE Expire
  <2>1. CASE \E id \in job.seen : ExpireId(id)
    <3>1. job' \in JobState
        BY <2>1 DEF TypeOK, ExpireId, JobState
    <3> QED
        BY <1>0, <2>1, <3>1, BoundsAssumption DEF TypeOK, ExpireId
  <2>2. CASE \E k \in CartKeys : ExpireTop(k)
    <3>1. job' \in JobState
      <4>1. PICK k \in CartKeys : ExpireTop(k)
        BY <2>2
      <4>2. 0 \in 0..Len(source)
        BY LenProperties DEF TypeOK
      <4>3. [job.top EXCEPT ![k] = 0] \in [CartKeys -> 0..Len(source)]
        BY <4>2 DEF TypeOK, JobState
      <4> QED
        BY <4>1, <4>3 DEF TypeOK, ExpireTop, JobState
    <3> QED
        BY <1>0, <2>2, <3>1, BoundsAssumption DEF TypeOK, ExpireTop
  <2> QED
    BY <1>11, <2>1, <2>2 DEF Expire
<1>12. CASE UNCHANGED vars
    BY <1>0, <1>12 DEF vars, TypeOK
<1> QED
    BY <1>1, <1>2, <1>3, <1>4, <1>5, <1>6, <1>7, <1>8, <1>9, <1>10, <1>11, <1>12
    DEF Next

\* The state of the job, its checkpoint and its output topics is well typed.
THEOREM TypeCorrect == Spec => []TypeOK
<1>1. Init => TypeOK
  <2> SUFFICES ASSUME Init
               PROVE  TypeOK
    OBVIOUS
  <2>1. source \in Seq(Events)
    BY EmptySeq DEF Init
  <2> QED
    BY <2>1, FreshType, NoWatermarkAssumption, BoundsAssumption DEF Init, TypeOK
<1>2. TypeOK /\ [Next]_vars => TypeOK'
    BY TypeStep
<1> QED
    BY <1>1, <1>2, PTL DEF Spec

-----------------------------------------------------------------------------
(* No event is lost.  The job's state is covered by what it has written, and *)
(* the state it may be restored to by what the brokers have acknowledged:    *)
(* every remembered id and every record read stands in the topics.           *)

Stands(o, outputs) ==
    IF Valid(source[o])
    THEN \E p \in outputs.raw : SameId(p, o)
    ELSE [type |-> "INVALID", at |-> o] \in outputs.quality

Covers(outputs, state) ==
    /\ \A id \in state.seen : \E p \in outputs.raw : source[p].event_id = id
    /\ \A o \in 1..state.position : Stands(o, outputs)

Extends(outputs, kept) ==
    kept.raw \subseteq outputs.raw /\ kept.quality \subseteq outputs.quality

NoLossInv ==
    /\ Covers(out, job)
    /\ Covers(durable, ckpt)
    /\ Extends(out, durable)

LEMMA CoversMore ==
    ASSUME NEW outputs, NEW more, NEW state, Covers(outputs, state),
           Extends(more, outputs)
    PROVE  Covers(more, state)
BY DEF Covers, Extends, Stands

LEMMA SurvivorsExtend ==
    ASSUME TypeOK, NEW kept \in Survivors
    PROVE  Extends(kept, durable)
BY DEF Survivors, Extends

LEMMA NoOutputsCover == Covers(NoOutputs, FreshJob)
BY DEF Covers, FreshJob, NoOutputs

\* Reading one record: what it adds covers what it remembers.
LEMMA ReadCovers ==
    ASSUME TypeOK, Ready, NoLossInv,
           NEW seen, NEW buffered, NEW top, NEW written \in Outputs,
           ReadEvent(seen, buffered, top, written),
           Extends(written, out),
           \A id \in seen \ job.seen : \E p \in written.raw : source[p].event_id = id,
           Stands(At, written)
    PROVE  NoLossInv'
<1>1. /\ job'.position = At /\ job'.seen = seen
      /\ source' = source /\ ckpt' = ckpt /\ durable' = durable
    BY DEF ReadEvent
<1>2. out'.raw = written.raw /\ out'.quality = written.quality
    BY DEF ReadEvent, Outputs
<1>3. Extends(out', out)
    BY <1>2 DEF Extends
<1>4. Covers(out', job)
    BY <1>3, CoversMore DEF NoLossInv
<1>5. Stands(At, out')
    BY <1>2 DEF Stands
<1>6. 1..At = (1..job.position) \cup {At}
    BY DEF At, TypeOK, JobState
<1>7. Covers(out, job)'
  <2>1. \A id \in seen : \E p \in out'.raw : source[p].event_id = id
    BY <1>2, <1>4 DEF Covers
  <2>2. \A o \in 1..At : Stands(o, out')
    BY <1>4, <1>5, <1>6 DEF Covers
  <2> QED
    BY <1>1, <2>1, <2>2 DEF Covers, Stands, SameId
<1>8. Covers(durable, ckpt)'
    BY <1>1 DEF NoLossInv, Covers, Stands, SameId
<1>9. Extends(out, durable)'
    BY <1>1, <1>3 DEF NoLossInv, Extends
<1> QED
    BY <1>7, <1>8, <1>9 DEF NoLossInv

LEMMA NoLossStep ==
    ASSUME TypeOK, NoLossInv, [Next]_vars
    PROVE  NoLossInv'
<1>0. job.position \in Nat /\ ckpt.position \in Nat /\ Len(source) \in Nat
    BY LenProperties DEF TypeOK, JobState
<1>1. CASE \E e \in Events : Produce(e)
  <2>1. PICK e \in Events : Produce(e)
    BY <1>1
  <2>2. \A o \in Offsets : source'[o] = source[o]
    BY <2>1, AppendProperties DEF TypeOK, Produce, Offsets
  <2>3. /\ 1..job.position \subseteq Offsets /\ 1..ckpt.position \subseteq Offsets
        /\ out.raw \subseteq Offsets /\ durable.raw \subseteq Offsets
    BY <1>0 DEF TypeOK, JobState, Outputs, Offsets
  <2>4. Covers(out, job)'
    <3>1. \A id \in job.seen : \E p \in out.raw : source'[p].event_id = id
      <4>1. \A id \in job.seen : \E p \in out.raw : source[p].event_id = id
        BY DEF NoLossInv, Covers
      <4> QED
        BY <2>2, <2>3, <4>1
    <3>2. ASSUME NEW o \in 1..job.position
          PROVE  IF Valid(source'[o])
                 THEN \E p \in out.raw : source'[p].event_id = source'[o].event_id
                 ELSE [type |-> "INVALID", at |-> o] \in out.quality
      <4>1. Stands(o, out) /\ source'[o] = source[o]
        BY <2>2, <2>3 DEF NoLossInv, Covers
      <4> QED
        BY <2>2, <2>3, <4>1 DEF Stands, SameId
    <3>3. out' = out /\ job' = job
        BY <2>1 DEF Produce
    <3> QED
        BY <3>1, <3>2, <3>3 DEF Covers, Stands, SameId
  <2>5. Covers(durable, ckpt)'
    <3>1. \A id \in ckpt.seen : \E p \in durable.raw : source'[p].event_id = id
      <4>1. \A id \in ckpt.seen : \E p \in durable.raw : source[p].event_id = id
        BY DEF NoLossInv, Covers
      <4> QED
        BY <2>2, <2>3, <4>1
    <3>2. ASSUME NEW o \in 1..ckpt.position
          PROVE  IF Valid(source'[o])
                 THEN \E p \in durable.raw : source'[p].event_id = source'[o].event_id
                 ELSE [type |-> "INVALID", at |-> o] \in durable.quality
      <4>1. Stands(o, durable) /\ source'[o] = source[o]
        BY <2>2, <2>3 DEF NoLossInv, Covers
      <4> QED
        BY <2>2, <2>3, <4>1 DEF Stands, SameId
    <3>3. durable' = durable /\ ckpt' = ckpt
        BY <2>1 DEF Produce
    <3> QED
        BY <3>1, <3>2, <3>3 DEF Covers, Stands, SameId
  <2> QED
    BY <2>1, <2>4, <2>5 DEF NoLossInv, Extends, Produce
<1>2. CASE ProcessInvalid
  <2> DEFINE written == [out EXCEPT !.quality = @ \cup {[type |-> "INVALID", at |-> At]}]
  <2>1. written \in Outputs
    BY <1>2, HandledType, WrittenType DEF TypeOK, ProcessInvalid
  <2>2. /\ Extends(written, out) /\ Stands(At, written)
    BY <1>2 DEF ProcessInvalid, Extends, Stands, Event, TypeOK, Outputs
  <2>3. ReadEvent(job.seen, job.open, job.top, written)
    BY <1>2 DEF ProcessInvalid
  <2> QED
    BY <1>2, <2>1, <2>2, <2>3, ReadCovers DEF ProcessInvalid
<1>3. CASE ProcessDuplicate
  <2>1. Extends(out, out) /\ Stands(At, out)
    BY <1>3 DEF ProcessDuplicate, Extends, Stands, NoLossInv, Covers, Event, SameId
  <2> QED
    BY <1>3, <2>1, ReadCovers DEF ProcessDuplicate, TypeOK
<1>4. CASE ProcessOnTime
  <2> DEFINE written == [out EXCEPT !.raw = @ \cup {At}, !.cart = CartAfter(At)]
  <2>1. written \in Outputs
    BY <1>4, HandledType DEF TypeOK, ProcessOnTime, Outputs
  <2>2. /\ Extends(written, out) /\ Stands(At, written) /\ At \in written.raw
    BY <1>4 DEF ProcessOnTime, Extends, Stands, SameId, Event, TypeOK, Outputs
  <2>3. ReadEvent(job.seen \cup {Event.event_id}, Buffered(At), TopAfter(At), written)
    BY <1>4 DEF ProcessOnTime
  <2> QED
    BY <1>4, <2>1, <2>2, <2>3, ReadCovers DEF ProcessOnTime, Event
<1>5. CASE ProcessLate
  <2> DEFINE written == [out EXCEPT !.raw = @ \cup {At}, !.cart = CartAfter(At),
                             !.quality = @ \cup {[type |-> "LATE", at |-> At]}]
  <2>1. written \in Outputs
    BY <1>5, HandledType, WrittenType DEF TypeOK, ProcessLate
  <2>2. /\ Extends(written, out) /\ Stands(At, written) /\ At \in written.raw
    BY <1>5 DEF ProcessLate, Extends, Stands, SameId, Event, TypeOK, Outputs
  <2>3. ReadEvent(job.seen \cup {Event.event_id}, job.open, TopAfter(At), written)
    BY <1>5 DEF ProcessLate
  <2> QED
    BY <1>5, <2>1, <2>2, <2>3, ReadCovers DEF ProcessLate, Event
<1>6. CASE Checkpoint
    BY <1>6 DEF Checkpoint, NoLossInv, Covers, Extends, Stands, SameId
<1>7. CASE TaskFailure \/ JobManagerLoss
  <2>1. PICK kept \in Survivors : out' = kept /\ durable' = kept
    BY <1>7 DEF TaskFailure, JobManagerLoss, LoseInFlight
  <2>2. source' = source /\ job' = ckpt /\ ckpt' = ckpt
    BY <1>7 DEF TaskFailure, JobManagerLoss
  <2>3. Covers(kept, ckpt)
    BY SurvivorsExtend, CoversMore DEF NoLossInv
  <2> QED
    BY <2>1, <2>2, <2>3 DEF NoLossInv, Covers, Extends, Stands, SameId
<1>8. CASE Restart
    BY <1>8 DEF Restart, NoLossInv, Covers, Extends, Stands, SameId
<1>9. CASE Resubmit
  <2>1. Covers(out, FreshJob) /\ Covers(durable, FreshJob)
    BY DEF Covers, FreshJob
  <2> QED
    BY <1>9, <2>1 DEF Resubmit, NoLossInv, Covers, Extends, Stands, SameId
<1>10. CASE Expire
  <2>1. /\ job'.seen \subseteq job.seen /\ job'.position = job.position
        /\ UNCHANGED <<source, ckpt, out, durable>>
    BY <1>10 DEF Expire, ExpireId, ExpireTop, TypeOK, JobState
  <2> QED
    BY <2>1 DEF NoLossInv, Covers, Extends, Stands, SameId
<1>11. CASE UNCHANGED vars
    BY <1>11 DEF vars, NoLossInv, Covers, Extends, Stands, SameId
<1> QED
    BY <1>1, <1>2, <1>3, <1>4, <1>5, <1>6, <1>7, <1>8, <1>9, <1>10, <1>11 DEF Next

\* Every record the job has moved past stands in canonical raw (by its id) or
\* in the INVALID audit, through restores, fresh submissions and TTL.
THEOREM NothingLost == Spec => []NoEventLost
<1>1. Init => NoLossInv
  <2> SUFFICES ASSUME Init
               PROVE  NoLossInv
    OBVIOUS
  <2> QED
    BY NoOutputsCover DEF Init, NoLossInv, Extends
<1>2. TypeOK /\ NoLossInv /\ [Next]_vars => NoLossInv'
    BY NoLossStep
<1>3. NoLossInv => NoEventLost
    BY DEF NoLossInv, Covers, Stands, NoEventLost
<1> QED
    BY <1>1, <1>2, <1>3, TypeCorrect, PTL DEF Spec

-----------------------------------------------------------------------------
(* Canonical raw is exact.  While no entry expires, the dedup state is the   *)
(* set of valid ids among the records read, in the running job as in its     *)
(* checkpoint; so a record is written only if it is the first of its id in   *)
(* the topic, however often the job reads it.                                *)

ValidRead(n) == {o \in 1..n : Valid(source[o])}
Remembers(state) ==
    state.seen = {source[o].event_id : o \in ValidRead(state.position)}

ExactInv ==
    expiries = 0 =>
        /\ Remembers(job)
        /\ Remembers(ckpt)
        /\ \A o \in out.raw : FirstOccurrence(o)

\* An accepted record is a first occurrence.
LEMMA AcceptedIsFirst ==
    ASSUME TypeOK, Remembers(job), Ready, Valid(Event),
           Event.event_id \notin job.seen
    PROVE  FirstOccurrence(At)
<1>1. job.position \in Nat
    BY DEF TypeOK, JobState
<1>2. 1..(At - 1) = 1..job.position
    BY <1>1 DEF At
<1>3. ASSUME NEW p \in 1..job.position, Valid(source[p])
      PROVE  source[p].event_id # Event.event_id
    BY <1>3 DEF Remembers, ValidRead
<1> QED
    BY <1>2, <1>3 DEF FirstOccurrence, SameId, Event

\* What reading one record does to the dedup state and to canonical raw.
LEMMA ReadExact ==
    ASSUME TypeOK, Ready, expiries = 0 => Remembers(job),
           NEW seen, NEW buffered, NEW top, NEW written \in Outputs,
           ReadEvent(seen, buffered, top, written),
           expiries = 0 => seen = IF Valid(Event) THEN job.seen \cup {Event.event_id}
                                  ELSE job.seen
    PROVE  /\ expiries' = 0 => Remembers(job)'
           /\ out'.raw = written.raw
           /\ UNCHANGED <<source, ckpt, expiries>>
<1>1. job'.position = At /\ job'.seen = seen /\ UNCHANGED <<source, ckpt, expiries>>
    BY DEF ReadEvent
<1>2. ValidRead(At) = ValidRead(job.position) \cup (IF Valid(Event) THEN {At} ELSE {})
    BY DEF At, TypeOK, JobState, ValidRead, Event
<1>3. ASSUME expiries = 0
      PROVE  seen = {source[o].event_id : o \in ValidRead(At)}
    BY <1>2, <1>3 DEF Remembers, Event
<1> QED
    BY <1>1, <1>3 DEF ReadEvent, Outputs, Remembers, ValidRead

LEMMA ExactStep ==
    ASSUME TypeOK, NoLossInv, ExactInv, [Next]_vars
    PROVE  ExactInv'
<1>0. job.position \in Nat /\ ckpt.position \in Nat /\ Len(source) \in Nat
    BY LenProperties DEF TypeOK, JobState
<1>1. CASE \E e \in Events : Produce(e)
  <2>1. PICK e \in Events : Produce(e)
    BY <1>1
  <2>2. /\ UNCHANGED <<job, ckpt, out, expiries>>
        /\ \A o \in Offsets : source'[o] = source[o]
    BY <2>1, AppendProperties DEF TypeOK, Produce, Offsets
  <2>3. /\ 1..job.position \subseteq Offsets /\ 1..ckpt.position \subseteq Offsets
        /\ out.raw \subseteq Offsets
    BY <1>0 DEF TypeOK, JobState, Outputs, Offsets
  <2>4. ASSUME NEW state \in {job, ckpt}, Remembers(state)
        PROVE  state.seen = {source'[o].event_id :
                                o \in {p \in 1..state.position : Valid(source'[p])}}
    <3>1. ValidRead(state.position) = {p \in 1..state.position : Valid(source'[p])}
        BY <2>2, <2>3 DEF ValidRead
    <3>2. \A o \in ValidRead(state.position) : source'[o] = source[o]
        BY <2>2, <2>3 DEF ValidRead
    <3> QED
        BY <2>4, <3>1, <3>2 DEF Remembers
  <2>5. ASSUME NEW o \in out.raw, FirstOccurrence(o)
        PROVE  FirstOccurrence(o)'
    <3>1. o \in Offsets /\ 1..(o - 1) \subseteq Offsets
        BY <2>3 DEF Offsets
    <3> QED
        BY <2>2, <2>5, <3>1 DEF FirstOccurrence, SameId
  <2> QED
    BY <2>2, <2>4, <2>5 DEF ExactInv, Remembers, ValidRead
<1>2. CASE ProcessInvalid
  <2> DEFINE written == [out EXCEPT !.quality = @ \cup {[type |-> "INVALID", at |-> At]}]
  <2>1. written \in Outputs
    BY <1>2, HandledType, WrittenType DEF TypeOK, ProcessInvalid
  <2>2. Ready /\ ~Valid(Event) /\ ReadEvent(job.seen, job.open, job.top, written)
    BY <1>2 DEF ProcessInvalid
  <2>3. /\ expiries' = 0 => Remembers(job)' /\ out'.raw = written.raw
        /\ UNCHANGED <<source, ckpt, expiries>>
    BY <2>1, <2>2, ReadExact DEF ExactInv
  <2>4. written.raw = out.raw
    BY DEF TypeOK, Outputs
  <2> HIDE DEF written
  <2> QED
    BY <2>2, <2>3, <2>4 DEF ExactInv, Remembers, ValidRead, FirstOccurrence, SameId, ReadEvent, Outputs
<1>3. CASE ProcessDuplicate
  <2>1. Ready /\ Valid(Event) /\ Event.event_id \in job.seen /\ out \in Outputs
        /\ ReadEvent(job.seen, job.open, job.top, out)
    BY <1>3 DEF ProcessDuplicate, TypeOK
  <2>2. /\ expiries' = 0 => Remembers(job)' /\ out'.raw = out.raw
        /\ UNCHANGED <<source, ckpt, expiries>>
    BY <2>1, ReadExact DEF ExactInv
  <2> QED
    BY <2>2 DEF ExactInv, Remembers, ValidRead, FirstOccurrence, SameId
<1>4. CASE ProcessOnTime \/ ProcessLate
  <2>1. PICK buffered \in SUBSET Offsets, written \in Outputs :
          /\ written.raw = out.raw \cup {At}
          /\ ReadEvent(job.seen \cup {Event.event_id}, buffered, TopAfter(At), written)
    <3>1. CASE ProcessOnTime
      <4> DEFINE written == [out EXCEPT !.raw = @ \cup {At}, !.cart = CartAfter(At)]
      <4>1. written \in Outputs /\ written.raw = out.raw \cup {At}
        BY <3>1, HandledType DEF ProcessOnTime, TypeOK, Outputs
      <4>2. ReadEvent(job.seen \cup {Event.event_id}, Buffered(At), TopAfter(At), written)
            /\ Ready
        BY <3>1 DEF ProcessOnTime
      <4> HIDE DEF written
      <4> QED
        BY <4>1, <4>2, HandledType
    <3>2. CASE ProcessLate
      <4> DEFINE written == [out EXCEPT !.raw = @ \cup {At}, !.cart = CartAfter(At),
                                 !.quality = @ \cup {[type |-> "LATE", at |-> At]}]
      <4>1. written \in Outputs
        BY <3>2, HandledType, WrittenType DEF ProcessLate, TypeOK
      <4>2. written.raw = out.raw \cup {At} /\ job.open \in SUBSET Offsets
        BY DEF TypeOK, JobState, Outputs
      <4>3. ReadEvent(job.seen \cup {Event.event_id}, job.open, TopAfter(At), written)
        BY <3>2 DEF ProcessLate
      <4> HIDE DEF written
      <4> QED
        BY <4>1, <4>2, <4>3
    <3> QED
        BY <1>4, <3>1, <3>2
  <2>2. Ready /\ Valid(Event) /\ Event.event_id \notin job.seen
    BY <1>4 DEF ProcessOnTime, ProcessLate
  <2>3. /\ expiries' = 0 => Remembers(job)' /\ out'.raw = written.raw
        /\ UNCHANGED <<source, ckpt, expiries>>
    BY <2>1, <2>2, ReadExact DEF ExactInv
  <2>4. expiries = 0 => FirstOccurrence(At)
    BY <2>2, AcceptedIsFirst DEF ExactInv
  <2> QED
    BY <2>1, <2>3, <2>4 DEF ExactInv, Remembers, ValidRead, FirstOccurrence, SameId
<1>5. CASE Checkpoint
    BY <1>5 DEF Checkpoint, ExactInv, Remembers, ValidRead, FirstOccurrence, SameId
<1>6. CASE TaskFailure \/ JobManagerLoss
  <2>1. PICK kept \in Survivors : out' = kept
    BY <1>6 DEF TaskFailure, JobManagerLoss, LoseInFlight
  <2>2. UNCHANGED <<source, ckpt, expiries>> /\ job' = ckpt
    BY <1>6 DEF TaskFailure, JobManagerLoss
  <2>3. kept.raw \subseteq out.raw
    BY DEF Survivors, NoLossInv, Extends
  <2> QED
    BY <2>1, <2>2, <2>3 DEF ExactInv, Remembers, ValidRead, FirstOccurrence, SameId
<1>7. CASE Restart
    BY <1>7 DEF Restart, ExactInv, Remembers, ValidRead, FirstOccurrence, SameId
<1>8. CASE Resubmit
  <2>1. Remembers(FreshJob)
    BY DEF Remembers, FreshJob, ValidRead
  <2> QED
    BY <1>8, <2>1 DEF Resubmit, ExactInv, Remembers, ValidRead, FirstOccurrence, SameId
<1>9. CASE Expire
    BY <1>9, BoundsAssumption DEF Expire, ExpireId, ExpireTop, ExactInv, TypeOK
<1>10. CASE UNCHANGED vars
    BY <1>10 DEF vars, ExactInv, Remembers, ValidRead, FirstOccurrence, SameId
<1> QED
    BY <1>1, <1>2, <1>3, <1>4, <1>5, <1>6, <1>7, <1>8, <1>9, <1>10 DEF Next

\* Canonical raw holds first valid occurrences only, whatever is read again.
THEOREM RawExact == Spec => []CanonicalRawExact
<1>1. Init => NoLossInv /\ ExactInv
  <2> SUFFICES ASSUME Init
               PROVE  NoLossInv /\ ExactInv
    OBVIOUS
  <2>1. Remembers(FreshJob)
    BY DEF Remembers, FreshJob, ValidRead
  <2> QED
    BY <2>1, NoOutputsCover DEF Init, NoLossInv, ExactInv, Extends, NoOutputs
<1>2. TypeOK /\ NoLossInv /\ ExactInv /\ [Next]_vars => NoLossInv' /\ ExactInv'
    BY NoLossStep, ExactStep
<1>3. ExactInv => CanonicalRawExact
    BY DEF ExactInv, CanonicalRawExact
<1> QED
    BY <1>1, <1>2, <1>3, TypeCorrect, PTL DEF Spec

-----------------------------------------------------------------------------
(* The cart topic converges.  While no entry expires, the Top-1 state of the *)
(* job and of its checkpoint is the newest transition among the records      *)
(* read.  The topic may be ahead of a job that reads again what it had read  *)
(* before a failure or in an earlier submission; what it then holds last for *)
(* a key was the newest one when it was read, so the job writes it again     *)
(* once it gets there.                                                       *)

AmongRead(n, k) ==
    {o \in 1..n : /\ FirstOccurrence(o)
                  /\ IsCartTransition(source[o])
                  /\ CartKey(source[o]) = k}

NewestOf(S, o) ==
    /\ o \in S
    /\ \A p \in S : /\ ~Newer(source[p], source[o])
                    /\ p < o => Newer(source[o], source[p])

NewestWhenRead(o) == NewestOf(AmongRead(o, CartKey(source[o])), o)

HoldsNewest(state) ==
    \A k \in CartKeys :
        IF state.top[k] = 0 THEN AmongRead(state.position, k) = {}
        ELSE NewestOf(AmongRead(state.position, k), state.top[k])

LastIn(cart, o, k) ==
    \E i \in DOMAIN cart :
        /\ cart[i] = o
        /\ CartKey(source[o]) = k
        /\ \A j \in DOMAIN cart : j > i => CartKey(source[cart[j]]) # k

\* What a topic holds for a key is the job's Top-1 or is still to be read.
Follows(cart, state) ==
    \A k \in CartKeys :
        /\ state.top[k] # 0 => \E i \in DOMAIN cart : CartKey(source[cart[i]]) = k
        /\ \A o \in Offsets :
              LastIn(cart, o, k) => o = state.top[k] \/ o > state.position

\* The acknowledged mutations are the first ones, and the others were written
\* after the checkpoint.
InFlightInv ==
    /\ ckpt.position <= job.position
    /\ Len(durable.cart) <= Len(out.cart)
    /\ \A i \in DOMAIN durable.cart : durable.cart[i] = out.cart[i]
    /\ \A i \in DOMAIN out.cart : i > Len(durable.cart) => out.cart[i] > ckpt.position

CartInv ==
    expiries = 0 =>
        /\ HoldsNewest(job) /\ HoldsNewest(ckpt)
        /\ Follows(out.cart, job) /\ Follows(durable.cart, ckpt)
        /\ \A i \in DOMAIN out.cart : NewestWhenRead(out.cart[i])
        /\ InFlightInv

LEMMA NewerOrder ==
    ASSUME TypeOK, NEW o \in Offsets, NEW p \in Offsets, NEW q \in Offsets
    PROVE  /\ ~Newer(source[o], source[o])
           /\ Newer(source[o], source[p]) => ~Newer(source[p], source[o])
           /\ Newer(source[o], source[p]) /\ ~Newer(source[q], source[p])
                => Newer(source[o], source[q])
<1>1. source[o] \in Events /\ source[p] \in Events /\ source[q] \in Events
    BY ElementOfSeq DEF TypeOK, Offsets
<1>2. \A e \in Events : e.time \in Int /\ e.seq \in Int
    BY EventsAssumption
<1> QED
    BY <1>1, <1>2 DEF Newer

LEMMA CartType ==
    ASSUME TypeOK
    PROVE  /\ job.position \in 0..Len(source) /\ ckpt.position \in 0..Len(source)
           /\ Len(source) \in Nat
           /\ job.top \in [CartKeys -> 0..Len(source)]
           /\ ckpt.top \in [CartKeys -> 0..Len(source)]
           /\ out.cart \in Seq(Offsets) /\ durable.cart \in Seq(Offsets)
           /\ Len(out.cart) \in Nat /\ DOMAIN out.cart = 1..Len(out.cart)
           /\ Len(durable.cart) \in Nat /\ DOMAIN durable.cart = 1..Len(durable.cart)
           /\ \A i \in DOMAIN out.cart : out.cart[i] \in Offsets
           /\ \A i \in DOMAIN durable.cart : durable.cart[i] \in Offsets
           /\ \A o \in Offsets : source[o] \in Events /\ CartKey(source[o]) \in CartKeys
<1>1. out.cart \in Seq(Offsets) /\ durable.cart \in Seq(Offsets) /\ source \in Seq(Events)
    BY DEF TypeOK, Outputs
<1>2. \A o \in Offsets : source[o] \in Events /\ CartKey(source[o]) \in CartKeys
    BY <1>1, ElementOfSeq DEF Offsets, CartKeys, CartKey
<1>3. /\ Len(out.cart) \in Nat /\ DOMAIN out.cart = 1..Len(out.cart)
      /\ Len(durable.cart) \in Nat /\ DOMAIN durable.cart = 1..Len(durable.cart)
      /\ Len(source) \in Nat
    BY <1>1, LenProperties
<1>4. /\ \A i \in DOMAIN out.cart : out.cart[i] \in Offsets
      /\ \A i \in DOMAIN durable.cart : durable.cart[i] \in Offsets
    BY <1>1, <1>3, ElementOfSeq
<1> QED
    BY <1>1, <1>2, <1>3, <1>4 DEF TypeOK, JobState

\* What a step that reads a record does to the Top-1 and to the cart topic.
Accepts == Valid(Event) /\ Event.event_id \notin job.seen

LEMMA ReadCart ==
    ASSUME TypeOK, Process
    PROVE  /\ Ready /\ job'.position = At
           /\ UNCHANGED <<source, ckpt, durable, status, restarts, resubmits, expiries>>
           /\ Accepts => job'.top = TopAfter(At) /\ out'.cart = CartAfter(At)
           /\ ~Accepts => job'.top = job.top /\ out'.cart = out.cart
<1>1. CASE ProcessInvalid
    BY <1>1 DEF ProcessInvalid, ReadEvent, Accepts, TypeOK, Outputs
<1>2. CASE ProcessDuplicate
    BY <1>2 DEF ProcessDuplicate, ReadEvent, Accepts, TypeOK, Outputs
<1>3. CASE ProcessOnTime
    BY <1>3 DEF ProcessOnTime, ReadEvent, Accepts, TypeOK, Outputs
<1>4. CASE ProcessLate
    BY <1>4 DEF ProcessLate, ReadEvent, Accepts, TypeOK, Outputs
<1> QED
    BY <1>1, <1>2, <1>3, <1>4 DEF Process

LEMMA AcceptsFirst ==
    ASSUME TypeOK, Remembers(job), Ready
    PROVE  Accepts <=> FirstOccurrence(At)
<1>1. Accepts => FirstOccurrence(At)
    BY AcceptedIsFirst DEF Accepts
<1>2. ASSUME FirstOccurrence(At)
      PROVE  Accepts
  <2>1. job.position \in Nat /\ 1..(At - 1) = 1..job.position
    BY DEF TypeOK, JobState, At
  <2>2. \A p \in ValidRead(job.position) : source[p].event_id # Event.event_id
    BY <1>2, <2>1 DEF FirstOccurrence, SameId, ValidRead, Event
  <2> QED
    BY <1>2, <2>2 DEF FirstOccurrence, Remembers, Accepts, Event
<1> QED
    BY <1>1, <1>2

\* Reading one record: the Top-1 of every key, and when the record becomes it.
LEMMA ReadNewest ==
    ASSUME TypeOK, Remembers(job), HoldsNewest(job), Ready
    PROVE  /\ \A k \in CartKeys :
                 AmongRead(At, k) =
                    AmongRead(job.position, k)
                        \cup {o \in {At} : /\ FirstOccurrence(o)
                                           /\ IsCartTransition(source[o])
                                           /\ CartKey(source[o]) = k}
           /\ Accepts /\ BecomesTop(At) <=> NewestWhenRead(At)
<1>1. /\ At \in Offsets /\ At = job.position + 1 /\ job.position \in Nat
      /\ CartKey(source[At]) \in CartKeys
    BY CartType DEF At, Ready, Offsets
<1>2. 1..At = (1..job.position) \cup {At}
    BY <1>1
<1>3. ASSUME NEW k \in CartKeys
      PROVE  AmongRead(At, k) =
                AmongRead(job.position, k)
                    \cup {o \in {At} : /\ FirstOccurrence(o)
                                       /\ IsCartTransition(source[o])
                                       /\ CartKey(source[o]) = k}
    BY <1>2 DEF AmongRead
<1> DEFINE key == CartKey(source[At])
           top == job.top[key]
           S == AmongRead(job.position, key)
<1>4. ASSUME Accepts, BecomesTop(At)
      PROVE  NewestWhenRead(At)
  <2>1. FirstOccurrence(At) /\ IsCartTransition(source[At])
    BY <1>4, AcceptsFirst DEF BecomesTop
  <2>2. AmongRead(At, key) = S \cup {At}
    BY <1>1, <1>3, <2>1
  <2>3. S \subseteq Offsets /\ \A p \in S : p < At
    BY <1>1, CartType DEF AmongRead, Offsets
  <2>4. ASSUME NEW p \in S
        PROVE  Newer(source[At], source[p]) /\ ~Newer(source[p], source[At])
    <3>1. top # 0 /\ NewestOf(S, top)
        BY <1>1, <2>4 DEF HoldsNewest
    <3>2. Newer(source[At], source[top]) /\ ~Newer(source[p], source[top]) /\ top \in Offsets
        BY <1>4, <2>3, <2>4, <3>1 DEF BecomesTop, NewestOf
    <3>3. Newer(source[At], source[p])
        BY <1>1, <2>3, <2>4, <3>2, NewerOrder
    <3> QED
        BY <1>1, <2>3, <2>4, <3>3, NewerOrder
  <2>5. ~Newer(source[At], source[At])
    BY <1>1, NewerOrder
  <2> QED
    BY <1>1, <2>2, <2>3, <2>4, <2>5 DEF NewestWhenRead, NewestOf
<1>5. ASSUME NewestWhenRead(At)
      PROVE  Accepts /\ BecomesTop(At)
  <2>1. FirstOccurrence(At) /\ IsCartTransition(source[At])
    BY <1>5 DEF NewestWhenRead, NewestOf, AmongRead
  <2>2. ASSUME top # 0
        PROVE  Newer(source[At], source[top])
    <3>1. top \in S
        BY <1>1, <2>2 DEF HoldsNewest, NewestOf
    <3>2. top < At /\ top \in AmongRead(At, key)
        BY <1>1, <1>3, <3>1 DEF AmongRead
    <3> QED
        BY <1>5, <3>2 DEF NewestWhenRead, NewestOf
  <2> QED
    BY <2>1, <2>2, AcceptsFirst DEF BecomesTop
<1> QED
    BY <1>3, <1>4, <1>5

LEMMA ReadKeepsNewest ==
    ASSUME TypeOK, Process, Remembers(job), HoldsNewest(job)
    PROVE  HoldsNewest(job)'
<1>1. /\ Ready /\ job'.position = At /\ source' = source
      /\ Accepts => job'.top = TopAfter(At)
      /\ ~Accepts => job'.top = job.top
    BY ReadCart
<1>2. /\ At \in Offsets /\ At = job.position + 1 /\ job.position \in Nat
      /\ At # 0 /\ job.top \in [CartKeys -> 0..Len(source)]
    BY <1>1, CartType DEF At, Ready, Offsets
<1>3. ASSUME NEW k \in CartKeys
      PROVE  IF job'.top[k] = 0 THEN AmongRead(At, k) = {}
             ELSE NewestOf(AmongRead(At, k), job'.top[k])
  <2> DEFINE S == AmongRead(job.position, k)
             new == {o \in {At} : /\ FirstOccurrence(o)
                                  /\ IsCartTransition(source[o])
                                  /\ CartKey(source[o]) = k}
  <2>1. AmongRead(At, k) = S \cup new
    BY <1>1, ReadNewest
  <2>2. CASE Accepts /\ BecomesTop(At) /\ CartKey(source[At]) = k
    <3>1. job'.top[k] = At
        BY <1>1, <1>2, <2>2 DEF TopAfter
    <3> QED
        BY <1>1, <1>2, <2>2, <3>1, ReadNewest DEF NewestWhenRead
  <2>3. CASE ~(Accepts /\ BecomesTop(At) /\ CartKey(source[At]) = k)
    <3>1. job'.top[k] = job.top[k]
      <4>1. CASE ~Accepts
        BY <1>1, <4>1
      <4>2. CASE Accepts /\ ~BecomesTop(At)
        BY <1>1, <4>2 DEF TopAfter
      <4>3. CASE Accepts /\ BecomesTop(At) /\ CartKey(source[At]) # k
        BY <1>1, <1>2, <4>3 DEF TopAfter
      <4> QED
        BY <2>3, <4>1, <4>2, <4>3
    <3>2. CASE new = {}
        BY <2>1, <3>1, <3>2 DEF HoldsNewest
    <3>3. CASE new # {}
      <4>1. new = {At} /\ FirstOccurrence(At) /\ IsCartTransition(source[At])
            /\ CartKey(source[At]) = k
        BY <3>3
      <4>2. Accepts /\ ~BecomesTop(At)
        BY <1>1, <2>3, <4>1, AcceptsFirst
      <4>3. job.top[k] # 0 /\ ~Newer(source[At], source[job.top[k]])
        BY <4>1, <4>2 DEF BecomesTop
      <4>4. NewestOf(S, job.top[k]) /\ job.top[k] < At
        BY <1>2, <4>3 DEF HoldsNewest, NewestOf, AmongRead
      <4> QED
        BY <2>1, <1>2, <3>1, <4>1, <4>3, <4>4 DEF NewestOf
    <3> QED
        BY <3>2, <3>3
  <2> QED
    BY <2>2, <2>3
<1> QED
    BY <1>1, <1>3 DEF HoldsNewest, NewestOf, AmongRead, FirstOccurrence, SameId

\* What the topic holds for a key when it grows by one mutation.
LEMMA LastAfterAppend ==
    ASSUME NEW cart \in Seq(Offsets), NEW n \in Offsets, NEW o, NEW k,
           LastIn(Append(cart, n), o, k)
    PROVE  IF CartKey(source[n]) = k THEN o = n ELSE LastIn(cart, o, k)
<1>1. /\ Len(cart) \in Nat /\ DOMAIN cart = 1..Len(cart)
      /\ DOMAIN Append(cart, n) = 1..(Len(cart) + 1)
      /\ Append(cart, n)[Len(cart) + 1] = n
      /\ \A i \in 1..Len(cart) : Append(cart, n)[i] = cart[i]
    BY AppendProperties, LenProperties
<1>2. PICK c : c = Append(cart, n)
    OBVIOUS
<1>3. PICK i \in DOMAIN c :
          /\ c[i] = o /\ CartKey(source[o]) = k
          /\ \A j \in DOMAIN c : j > i => CartKey(source[c[j]]) # k
    BY <1>2 DEF LastIn
<1>4. CASE i = Len(cart) + 1
    BY <1>1, <1>2, <1>3, <1>4
<1>5. CASE i # Len(cart) + 1
  <2>1. i \in 1..Len(cart) /\ Len(cart) + 1 > i /\ Len(cart) + 1 \in DOMAIN c
    BY <1>1, <1>2, <1>3, <1>5
  <2>2. CartKey(source[n]) # k
    BY <1>1, <1>2, <1>3, <2>1
  <2>3. \A j \in 1..Len(cart) : j > i => CartKey(source[cart[j]]) # k
    BY <1>1, <1>2, <1>3
  <2> QED
    BY <1>1, <1>2, <1>3, <2>1, <2>2, <2>3 DEF LastIn
<1> QED
    BY <1>4, <1>5

LEMMA ReadKeepsFollows ==
    ASSUME TypeOK, Process, Remembers(job), HoldsNewest(job), Follows(out.cart, job),
           \A i \in DOMAIN out.cart : NewestWhenRead(out.cart[i])
    PROVE  Follows(out.cart, job)' /\ \A i \in DOMAIN out'.cart : NewestWhenRead(out'.cart[i])
<1>1. /\ Ready /\ job'.position = At /\ source' = source
      /\ Accepts => job'.top = TopAfter(At) /\ out'.cart = CartAfter(At)
      /\ ~Accepts => job'.top = job.top /\ out'.cart = out.cart
    BY ReadCart
<1>2. /\ At \in Offsets /\ At = job.position + 1 /\ job.position \in Nat
      /\ job.top \in [CartKeys -> 0..Len(source)] /\ CartKey(source[At]) \in CartKeys
      /\ out.cart \in Seq(Offsets) /\ Len(out.cart) \in Nat /\ DOMAIN out.cart = 1..Len(out.cart)
      /\ Offsets \subseteq Nat
  <2>1. /\ At \in Offsets /\ At = job.position + 1 /\ job.position \in Nat
        /\ Offsets \subseteq Nat
    BY <1>1, CartType DEF At, Ready, Offsets
  <2> QED
    BY <2>1, CartType
<1>3. Offsets' = Offsets
    BY <1>1 DEF Offsets
<1>4. CASE Accepts /\ BecomesTop(At)
  <2>1. /\ job'.top = [job.top EXCEPT ![CartKey(source[At])] = At]
        /\ out'.cart = Append(out.cart, At)
    BY <1>1, <1>4 DEF TopAfter, CartAfter
  <2>2. /\ DOMAIN out'.cart = 1..(Len(out.cart) + 1)
        /\ out'.cart[Len(out.cart) + 1] = At
        /\ \A i \in 1..Len(out.cart) : out'.cart[i] = out.cart[i]
    BY <1>2, <2>1, AppendProperties, LenProperties
  <2>3. NewestWhenRead(At)
    BY <1>1, <1>4, ReadNewest
  <2>4. \A i \in DOMAIN out'.cart : NewestWhenRead(out'.cart[i])
    <3>1. \A i \in DOMAIN out'.cart : i \in 1..Len(out.cart) \/ i = Len(out.cart) + 1
        BY <1>2, <2>2
    <3> QED
        BY <1>2, <2>2, <2>3, <3>1
  <2>5. ASSUME NEW k \in CartKeys, job'.top[k] # 0
        PROVE  \E i \in DOMAIN out'.cart : CartKey(source[out'.cart[i]]) = k
    <3>1. CASE k = CartKey(source[At])
      <4>1. Len(out.cart) + 1 \in DOMAIN out'.cart
        BY <1>2, <2>2
      <4> QED
        BY <2>2, <3>1, <4>1
    <3>2. CASE k # CartKey(source[At])
      <4>1. job.top[k] # 0
        BY <1>2, <2>1, <2>5, <3>2
      <4>2. PICK i \in DOMAIN out.cart : CartKey(source[out.cart[i]]) = k
        BY <4>1 DEF Follows
      <4>3. i \in DOMAIN out'.cart /\ out'.cart[i] = out.cart[i]
        BY <1>2, <2>2
      <4> QED
        BY <4>2, <4>3
    <3> QED
        BY <3>1, <3>2
  <2>6. ASSUME NEW k \in CartKeys, NEW o \in Offsets, LastIn(out'.cart, o, k)
        PROVE  o = job'.top[k] \/ o > At
    <3>1. CASE k = CartKey(source[At])
      <4>0. LastIn(Append(out.cart, At), o, k)
        BY <2>1, <2>6
      <4>1. o = At
        BY <1>2, <3>1, <4>0, LastAfterAppend
      <4> QED
        BY <1>2, <2>1, <3>1, <4>1
    <3>2. CASE k # CartKey(source[At])
      <4>0. LastIn(Append(out.cart, At), o, k)
        BY <2>1, <2>6
      <4>1. LastIn(out.cart, o, k)
        BY <1>2, <3>2, <4>0, LastAfterAppend
      <4>2. o = job.top[k] \/ o > job.position
        BY <4>1 DEF Follows
      <4>3. o # At /\ job'.top[k] = job.top[k]
        BY <1>2, <2>1, <3>2, <4>1 DEF LastIn
      <4> QED
        BY <1>2, <4>2, <4>3
    <3> QED
        BY <3>1, <3>2
  <2> QED
    BY <1>1, <1>3, <2>4, <2>5, <2>6 DEF Follows, LastIn
<1>5. CASE ~(Accepts /\ BecomesTop(At))
  <2>1. job'.top = job.top /\ out'.cart = out.cart
    BY <1>1, <1>5 DEF TopAfter, CartAfter
  <2>2. ASSUME NEW k \in CartKeys, NEW o \in Offsets, LastIn(out.cart, o, k)
        PROVE  o = job.top[k] \/ o > At
    <3>1. o = job.top[k] \/ o > job.position
        BY <2>2 DEF Follows
    <3>2. o # At
      <4>1. NewestWhenRead(o)
        BY <2>2 DEF LastIn
      <4> QED
        BY <1>1, <1>5, <4>1, ReadNewest
    <3> QED
        BY <1>2, <3>1, <3>2
  <2>3. \A k \in CartKeys :
           job.top[k] # 0 => \E i \in DOMAIN out.cart : CartKey(source[out.cart[i]]) = k
    BY DEF Follows
  <2> QED
    BY <1>1, <1>3, <2>1, <2>2, <2>3 DEF Follows, LastIn
<1> QED
    BY <1>4, <1>5

LEMMA ReadKeepsInFlight ==
    ASSUME TypeOK, Process, InFlightInv
    PROVE  InFlightInv'
<1>1. /\ Ready /\ job'.position = At /\ UNCHANGED <<source, ckpt, durable>>
      /\ Accepts => out'.cart = CartAfter(At)
      /\ ~Accepts => out'.cart = out.cart
    BY ReadCart
<1>2. /\ At \in Offsets /\ At = job.position + 1 /\ job.position \in Nat
      /\ ckpt.position \in Nat
      /\ out.cart \in Seq(Offsets) /\ Len(out.cart) \in Nat /\ DOMAIN out.cart = 1..Len(out.cart)
      /\ Len(durable.cart) \in Nat /\ DOMAIN durable.cart = 1..Len(durable.cart)
    BY <1>1, CartType DEF At, Ready, Offsets
<1>3. CASE out'.cart = out.cart
    BY <1>1, <1>2, <1>3 DEF InFlightInv
<1>4. CASE out'.cart = Append(out.cart, At)
  <2>1. /\ DOMAIN out'.cart = 1..(Len(out.cart) + 1)
        /\ Len(out'.cart) = Len(out.cart) + 1
        /\ out'.cart[Len(out.cart) + 1] = At
        /\ \A i \in 1..Len(out.cart) : out'.cart[i] = out.cart[i]
    BY <1>2, <1>4, AppendProperties, LenProperties
  <2>2. \A i \in DOMAIN out'.cart : i \in 1..Len(out.cart) \/ i = Len(out.cart) + 1
    BY <1>2, <2>1
  <2>3. ckpt.position < At
    BY <1>2 DEF InFlightInv
  <2>4. \A i \in DOMAIN out'.cart : i > Len(durable.cart) => out'.cart[i] > ckpt.position
    BY <1>2, <2>1, <2>2, <2>3 DEF InFlightInv
  <2>5. \A i \in DOMAIN durable.cart : durable.cart[i] = out'.cart[i]
    BY <1>2, <2>1 DEF InFlightInv
  <2> QED
    BY <1>1, <1>2, <2>1, <2>3, <2>4, <2>5 DEF InFlightInv
<1> QED
    BY <1>1, <1>3, <1>4 DEF CartAfter

\* What a failure leaves of the topic still leads to what the restored job
\* holds: it is acknowledged, or newer than the checkpoint.
LEMMA SurvivorsFollow ==
    ASSUME TypeOK, InFlightInv, Follows(durable.cart, ckpt),
           NEW kept \in Survivors
    PROVE  /\ Follows(kept.cart, ckpt)
           /\ Len(kept.cart) \in Nat /\ DOMAIN kept.cart = 1..Len(kept.cart)
           /\ \A i \in DOMAIN kept.cart : i \in DOMAIN out.cart /\ kept.cart[i] = out.cart[i]
<1>1. PICK n \in Len(durable.cart)..Len(out.cart) : kept.cart = SubSeq(out.cart, 1, n)
    BY DEF Survivors
<1>2. /\ Len(out.cart) \in Nat /\ DOMAIN out.cart = 1..Len(out.cart) /\ out.cart \in Seq(Offsets)
      /\ Len(durable.cart) \in Nat /\ DOMAIN durable.cart = 1..Len(durable.cart)
    BY CartType
<1>3. PICK c : c = kept.cart
    OBVIOUS
<1>4. Len(c) = n /\ DOMAIN c = 1..n /\ \A i \in 1..n : c[i] = out.cart[i]
    BY <1>1, <1>2, <1>3, SubSeqProperties, LenProperties
<1>5. /\ \A i \in DOMAIN c : i \in DOMAIN out.cart /\ c[i] = out.cart[i]
      /\ \A i \in DOMAIN durable.cart : i \in DOMAIN c /\ c[i] = durable.cart[i]
    BY <1>1, <1>2, <1>4 DEF InFlightInv
<1>6. ASSUME NEW k \in CartKeys
      PROVE  /\ ckpt.top[k] # 0 => \E i \in DOMAIN c : CartKey(source[c[i]]) = k
             /\ \A o \in Offsets : LastIn(c, o, k) => o = ckpt.top[k] \/ o > ckpt.position
  <2>1. ckpt.top[k] # 0 => \E i \in DOMAIN c : CartKey(source[c[i]]) = k
    BY <1>5 DEF Follows
  <2>2. ASSUME NEW o \in Offsets, LastIn(c, o, k)
        PROVE  o = ckpt.top[k] \/ o > ckpt.position
    <3>1. PICK i \in DOMAIN c :
              /\ c[i] = o /\ CartKey(source[o]) = k
              /\ \A j \in DOMAIN c : j > i => CartKey(source[c[j]]) # k
        BY <2>2 DEF LastIn
    <3>2. CASE i > Len(durable.cart)
        BY <1>5, <3>1, <3>2 DEF InFlightInv
    <3>3. CASE ~(i > Len(durable.cart))
      <4>1. i \in DOMAIN durable.cart /\ durable.cart[i] = o
        BY <1>2, <1>4, <1>5, <3>1, <3>3
      <4>2. \A j \in DOMAIN durable.cart : j > i => CartKey(source[durable.cart[j]]) # k
        BY <1>5, <3>1
      <4>3. LastIn(durable.cart, o, k)
        BY <3>1, <4>1, <4>2 DEF LastIn
      <4> QED
        BY <4>3 DEF Follows
    <3> QED
        BY <3>2, <3>3
  <2> QED
    BY <2>1, <2>2
<1> QED
    BY <1>1, <1>2, <1>3, <1>4, <1>5, <1>6 DEF Follows

\* A new record leaves what was said of the ones before it.
LEMMA ProduceKeeps ==
    ASSUME TypeOK, NEW e \in Events, Produce(e)
    PROVE  /\ Offsets \subseteq Offsets' /\ Len(source') = Len(source) + 1
           /\ \A o \in Offsets : source'[o] = source[o]
           /\ \A o \in Offsets : FirstOccurrence(o)' <=> FirstOccurrence(o)
           /\ UNCHANGED <<job, wm, ckpt, out, durable, status, restarts, resubmits,
                          expiries>>
<1>1. /\ Len(source) \in Nat /\ Len(source') = Len(source) + 1
      /\ \A o \in Offsets : source'[o] = source[o]
    BY AppendProperties, LenProperties DEF TypeOK, Produce, Offsets
<1>2. ASSUME NEW o \in Offsets
      PROVE  FirstOccurrence(o)' <=> FirstOccurrence(o)
  <2>1. 1..(o - 1) \subseteq Offsets
    BY <1>1 DEF Offsets
  <2> QED
    BY <1>1, <2>1 DEF FirstOccurrence, SameId
<1> QED
    BY <1>1, <1>2 DEF Produce, Offsets

LEMMA ProduceKeepsNewest ==
    ASSUME TypeOK, NEW e \in Events, Produce(e)
    PROVE  /\ \A n \in 0..Len(source) : \A k : AmongRead(n, k)' = AmongRead(n, k)
           /\ \A o \in Offsets : NewestWhenRead(o)' <=> NewestWhenRead(o)
           /\ HoldsNewest(job)' <=> HoldsNewest(job)
           /\ HoldsNewest(ckpt)' <=> HoldsNewest(ckpt)
<1>1. /\ Offsets = 1..Len(source) /\ Len(source) \in Nat
      /\ \A o \in Offsets : source'[o] = source[o]
      /\ \A o \in Offsets : FirstOccurrence(o)' <=> FirstOccurrence(o)
      /\ job' = job /\ ckpt' = ckpt
    BY ProduceKeeps, CartType DEF Offsets
<1>2. ASSUME NEW n \in 0..Len(source), NEW k
      PROVE  AmongRead(n, k)' = AmongRead(n, k)
  <2>1. \A o \in 1..n : source'[o] = source[o] /\ (FirstOccurrence(o)' <=> FirstOccurrence(o))
    BY <1>1
  <2> QED
    BY <2>1 DEF AmongRead, CartKey
<1>3. ASSUME NEW n \in 0..Len(source), NEW k, NEW o
      PROVE  NewestOf(AmongRead(n, k), o)' <=> NewestOf(AmongRead(n, k), o)
  <2>1. AmongRead(n, k) \subseteq Offsets
    BY <1>1 DEF AmongRead
  <2> QED
    BY <1>1, <1>2, <2>1 DEF NewestOf
<1>4. ASSUME NEW o \in Offsets
      PROVE  NewestWhenRead(o)' <=> NewestWhenRead(o)
  <2>1. CartKey(source'[o]) = CartKey(source[o]) /\ o \in 0..Len(source)
    BY <1>1
  <2>2. PICK k : k = CartKey(source[o])
    OBVIOUS
  <2>3. NewestOf(AmongRead(o, k), o)' <=> NewestOf(AmongRead(o, k), o)
    BY <1>3, <2>1
  <2> QED
    BY <2>1, <2>2, <2>3 DEF NewestWhenRead
<1>5. ASSUME NEW n \in 0..Len(source), NEW top
      PROVE  (\A k \in CartKeys : IF top[k] = 0 THEN AmongRead(n, k) = {}
                                  ELSE NewestOf(AmongRead(n, k), top[k]))'
             <=> \A k \in CartKeys : IF top[k] = 0 THEN AmongRead(n, k) = {}
                                     ELSE NewestOf(AmongRead(n, k), top[k])
    BY <1>2, <1>3
<1>6. job.position \in 0..Len(source) /\ ckpt.position \in 0..Len(source)
    BY CartType
<1>7. PICK n, top : n = job.position /\ top = job.top
    OBVIOUS
<1>8. PICK m, held : m = ckpt.position /\ held = ckpt.top
    OBVIOUS
<1>9. HoldsNewest(job)' <=> HoldsNewest(job)
    BY <1>1, <1>5, <1>6, <1>7 DEF HoldsNewest
<1>10. HoldsNewest(ckpt)' <=> HoldsNewest(ckpt)
    BY <1>1, <1>5, <1>6, <1>8 DEF HoldsNewest
<1> QED
    BY <1>2, <1>4, <1>9, <1>10

LEMMA ProduceKeepsFollows ==
    ASSUME TypeOK, NEW e \in Events, Produce(e)
    PROVE  /\ Follows(out.cart, job) => Follows(out.cart, job)'
           /\ Follows(durable.cart, ckpt) => Follows(durable.cart, ckpt)'
<1>1. /\ \A o \in Offsets : source'[o] = source[o]
      /\ UNCHANGED <<job, ckpt, out, durable>>
    BY ProduceKeeps
<1>2. ASSUME NEW cart, \A i \in DOMAIN cart : cart[i] \in Offsets, NEW state,
             Follows(cart, state)
      PROVE  Follows(cart, state)'
  <2>1. ASSUME NEW o, NEW k, LastIn(cart, o, k)'
        PROVE  o \in Offsets /\ LastIn(cart, o, k)
    BY <1>1, <1>2, <2>1 DEF LastIn, CartKey
  <2>2. \A k : (\E i \in DOMAIN cart : CartKey(source[cart[i]]) = k)
               => \E i \in DOMAIN cart : CartKey(source'[cart[i]]) = k
    BY <1>1, <1>2 DEF CartKey
  <2> QED
    BY <1>2, <2>1, <2>2 DEF Follows
<1>3. PICK cart, state : cart = out.cart /\ state = job
    OBVIOUS
<1>4. PICK acknowledged, kept : acknowledged = durable.cart /\ kept = ckpt
    OBVIOUS
<1>5. Follows(out.cart, job) => Follows(out.cart, job)'
  <2>1. \A i \in DOMAIN cart : cart[i] \in Offsets
    BY <1>3, CartType
  <2>2. Follows(cart, state) => Follows(cart, state)'
    BY <1>2, <2>1
  <2> QED
    BY <1>1, <1>3, <2>2 DEF Follows, LastIn
<1>6. Follows(durable.cart, ckpt) => Follows(durable.cart, ckpt)'
  <2>1. \A i \in DOMAIN acknowledged : acknowledged[i] \in Offsets
    BY <1>4, CartType
  <2>2. Follows(acknowledged, kept) => Follows(acknowledged, kept)'
    BY <1>2, <2>1
  <2> QED
    BY <1>1, <1>4, <2>2 DEF Follows, LastIn
<1> QED
    BY <1>5, <1>6

\* While the source stays, what is said of a job or a topic depends on it alone.
LEMMA CartInvDepends ==
    ASSUME UNCHANGED <<source, job, ckpt, out, durable, expiries>>, CartInv
    PROVE  CartInv'
BY DEF CartInv, HoldsNewest, Follows, LastIn, NewestWhenRead, NewestOf, AmongRead,
       InFlightInv, FirstOccurrence, SameId, Offsets

LEMMA NewestDepends ==
    ASSUME UNCHANGED source
    PROVE  /\ \A o : NewestWhenRead(o)' <=> NewestWhenRead(o)
           /\ \A state : HoldsNewest(state) <=>
                 \A k \in CartKeys :
                    IF state.top[k] = 0 THEN AmongRead(state.position, k)' = {}
                    ELSE NewestOf(AmongRead(state.position, k), state.top[k])'
<1>1. \A o : FirstOccurrence(o)' <=> FirstOccurrence(o)
    BY DEF FirstOccurrence, SameId
<1>2. \A n, k : AmongRead(n, k)' = AmongRead(n, k)
    BY <1>1 DEF AmongRead
<1>3. \A n, k, o : NewestOf(AmongRead(n, k), o)' <=> NewestOf(AmongRead(n, k), o)
    BY <1>2 DEF NewestOf
<1>4. \A o : NewestWhenRead(o)' <=> NewestWhenRead(o)
    BY <1>3 DEF NewestWhenRead
<1> QED
    BY <1>2, <1>3, <1>4 DEF HoldsNewest

LEMMA FreshNewest ==
    /\ HoldsNewest(FreshJob)
    /\ \A cart : (\A i \in DOMAIN cart : cart[i] \in Offsets) => Follows(cart, FreshJob)
<1>1. FreshJob.position = 0 /\ \A k \in CartKeys : FreshJob.top[k] = 0
    BY DEF FreshJob
<1>2. \A k : AmongRead(0, k) = {}
    BY DEF AmongRead
<1>3. HoldsNewest(FreshJob)
    BY <1>1, <1>2 DEF HoldsNewest
<1>4. ASSUME NEW cart, \A i \in DOMAIN cart : cart[i] \in Offsets
      PROVE  Follows(cart, FreshJob)
    BY <1>1 DEF Follows, Offsets
<1> QED
    BY <1>3, <1>4

LEMMA CartStep ==
    ASSUME TypeOK, ExactInv, CartInv, [Next]_vars
    PROVE  CartInv'
<1>1. CASE expiries' # 0
    BY <1>1 DEF CartInv
<1>2. CASE Expire
  <2>1. expiries' = expiries + 1 /\ expiries \in Nat
    BY <1>2, BoundsAssumption DEF Expire, ExpireId, ExpireTop, TypeOK
  <2> QED
    BY <1>1, <2>1
<1>3. ASSUME expiries' = 0, ~Expire
      PROVE  CartInv'
  <2>0. expiries = 0 /\ expiries' = expiries
    BY <1>3 DEF Next, Produce, ProcessInvalid, ProcessDuplicate, ProcessOnTime, ProcessLate,
                ReadEvent, Checkpoint, TaskFailure, Restart, JobManagerLoss, Resubmit, vars
  <2>1. /\ HoldsNewest(job) /\ HoldsNewest(ckpt)
        /\ Follows(out.cart, job) /\ Follows(durable.cart, ckpt)
        /\ \A i \in DOMAIN out.cart : NewestWhenRead(out.cart[i])
        /\ InFlightInv /\ Remembers(job) /\ Remembers(ckpt)
    BY <2>0 DEF CartInv, ExactInv
  <2>2. CASE \E e \in Events : Produce(e)
    <3>1. PICK e \in Events : Produce(e)
        BY <2>2
    <3>2. HoldsNewest(job)' /\ HoldsNewest(ckpt)'
        BY <2>1, <3>1, ProduceKeepsNewest
    <3>3. Follows(out.cart, job)' /\ Follows(durable.cart, ckpt)'
        BY <2>1, <3>1, ProduceKeepsFollows
    <3>4. \A i \in DOMAIN out.cart : NewestWhenRead(out.cart[i])'
      <4>1. \A o \in Offsets : NewestWhenRead(o)' <=> NewestWhenRead(o)
        BY <3>1, ProduceKeepsNewest
      <4>2. UNCHANGED out
        BY <3>1 DEF Produce
      <4>3. \A i \in DOMAIN out.cart : out.cart[i] \in Offsets
        BY CartType
      <4> SUFFICES ASSUME NEW i \in DOMAIN out.cart, NEW o, o = out.cart[i]
                   PROVE  NewestWhenRead(out.cart[i])'
        OBVIOUS
      <4>4. NewestWhenRead(o)'
        BY <2>1, <4>1, <4>3
      <4> QED
        BY <4>2, <4>4
    <3>5. InFlightInv'
        BY <2>1, <3>1 DEF InFlightInv, Produce
    <3>6. UNCHANGED <<job, ckpt, out, durable>>
        BY <3>1 DEF Produce
    <3> QED
        BY <3>2, <3>3, <3>4, <3>5, <3>6 DEF CartInv
  <2>3. CASE Process
    <3>1. UNCHANGED <<source, ckpt, durable>>
        BY <2>3, ReadCart
    <3>2. HoldsNewest(job)'
        BY <2>1, <2>3, ReadKeepsNewest
    <3>3. Follows(out.cart, job)' /\ \A i \in DOMAIN out'.cart : NewestWhenRead(out'.cart[i])
        BY <2>1, <2>3, ReadKeepsFollows
    <3>4. InFlightInv'
        BY <2>1, <2>3, ReadKeepsInFlight
    <3>5. HoldsNewest(ckpt)' /\ Follows(durable.cart, ckpt)'
      <4>1. HoldsNewest(ckpt)'
        BY <2>1, <3>1, NewestDepends DEF HoldsNewest
      <4>2. Follows(durable.cart, ckpt)'
        BY <2>1, <3>1 DEF Follows, LastIn, Offsets
      <4> QED
        BY <4>1, <4>2
    <3>6. (\A i \in DOMAIN out.cart : NewestWhenRead(out.cart[i]))'
        BY <3>1, <3>3, NewestDepends DEF NewestWhenRead, NewestOf, AmongRead, FirstOccurrence, SameId
    <3> QED
        BY <3>2, <3>3, <3>4, <3>5, <3>6 DEF CartInv
  <2>4. CASE Checkpoint
    <3>1. UNCHANGED <<source, job, out>> /\ ckpt' = job /\ durable' = out
        BY <2>4 DEF Checkpoint
    <3>2. HoldsNewest(job)' /\ HoldsNewest(ckpt)'
        BY <2>1, <3>1, NewestDepends DEF HoldsNewest
    <3>3. Follows(out.cart, job)' /\ Follows(durable.cart, ckpt)'
        BY <2>1, <3>1 DEF Follows, LastIn, Offsets
    <3>4. (\A i \in DOMAIN out.cart : NewestWhenRead(out.cart[i]))'
        BY <2>1, <3>1 DEF NewestWhenRead, NewestOf, AmongRead, FirstOccurrence, SameId
    <3>5. InFlightInv'
        BY <2>1, <3>1, CartType DEF InFlightInv
    <3> QED
        BY <3>2, <3>3, <3>4, <3>5 DEF CartInv
  <2>5. CASE TaskFailure \/ JobManagerLoss
    <3>1. UNCHANGED <<source, ckpt>> /\ job' = ckpt
        BY <2>5 DEF TaskFailure, JobManagerLoss
    <3>2. PICK kept \in Survivors : out' = kept /\ durable' = kept
        BY <2>5 DEF TaskFailure, JobManagerLoss, LoseInFlight
    <3>3. /\ Follows(kept.cart, ckpt)
          /\ Len(kept.cart) \in Nat /\ DOMAIN kept.cart = 1..Len(kept.cart)
          /\ \A i \in DOMAIN kept.cart : i \in DOMAIN out.cart /\ kept.cart[i] = out.cart[i]
        BY <2>1, SurvivorsFollow
    <3>4. HoldsNewest(job)' /\ HoldsNewest(ckpt)'
        BY <2>1, <3>1, NewestDepends DEF HoldsNewest
    <3>5. Follows(out.cart, job)' /\ Follows(durable.cart, ckpt)'
        BY <3>1, <3>2, <3>3 DEF Follows, LastIn, Offsets
    <3>6. (\A i \in DOMAIN out.cart : NewestWhenRead(out.cart[i]))'
      <4>1. \A i \in DOMAIN kept.cart : NewestWhenRead(kept.cart[i])
        BY <2>1, <3>3
      <4> QED
        BY <3>1, <3>2, <4>1 DEF NewestWhenRead, NewestOf, AmongRead, FirstOccurrence, SameId
    <3>7. InFlightInv'
        BY <3>1, <3>2, <3>3, CartType DEF InFlightInv
    <3> QED
        BY <3>4, <3>5, <3>6, <3>7 DEF CartInv
  <2>6. CASE Restart
    BY <2>6, CartInvDepends DEF Restart
  <2>7. CASE Resubmit
    <3>1. UNCHANGED <<source, out, durable>> /\ job' = FreshJob /\ ckpt' = FreshJob
        BY <2>7 DEF Resubmit
    <3>2. HoldsNewest(job)' /\ HoldsNewest(ckpt)'
        BY <3>1, FreshNewest, NewestDepends DEF HoldsNewest
    <3>3. Follows(out.cart, job)' /\ Follows(durable.cart, ckpt)'
      <4>1. Follows(out.cart, FreshJob) /\ Follows(durable.cart, FreshJob)
        BY FreshNewest, CartType
      <4> QED
        BY <3>1, <4>1 DEF Follows, LastIn, Offsets
    <3>4. (\A i \in DOMAIN out.cart : NewestWhenRead(out.cart[i]))'
        BY <2>1, <3>1 DEF NewestWhenRead, NewestOf, AmongRead, FirstOccurrence, SameId
    <3>5. InFlightInv'
      <4>1. FreshJob.position = 0 /\ \A i \in DOMAIN out.cart : out.cart[i] > 0
        BY CartType DEF FreshJob, Offsets
      <4> QED
        BY <2>1, <3>1, <4>1 DEF InFlightInv
    <3> QED
        BY <3>2, <3>3, <3>4, <3>5 DEF CartInv
  <2>8. CASE UNCHANGED vars
    BY <2>8, CartInvDepends DEF vars
  <2> QED
    BY <1>3, <2>2, <2>3, <2>4, <2>5, <2>6, <2>7, <2>8 DEF Next, Process
<1> QED
    BY <1>1, <1>2, <1>3 DEF CartInv

\* Natural numbers: a bounded set of them has a greatest one.
LEMMA LeastExists ==
    ASSUME NEW S \in SUBSET Nat, S # {}
    PROVE  \E n \in S : \A m \in S : n <= m
<1> DEFINE T == {1..n : n \in S}
<1>1. T # {}
    OBVIOUS
<1>2. T \subseteq FiniteSubsetsOf(Nat)
  <2>1. ASSUME NEW n \in S
        PROVE  1..n \in FiniteSubsetsOf(Nat)
    <3>1. n \in Int /\ 1 \in Int /\ 1..n \subseteq Nat
        OBVIOUS
    <3> QED
        BY <3>1, FS_Interval DEF FiniteSubsetsOf
  <2> QED
    BY <2>1
<1>3. PICK x \in T : \A y \in T : <<y, x>> \notin StrictSubsetOrdering(Nat)
  <2> HIDE DEF T
  <2> QED
    BY <1>1, <1>2, FS_StrictSubsetOrderingWellFounded, WFMin
<1>4. PICK n \in S : x = 1..n
    OBVIOUS
<1>5. ASSUME NEW m \in S, m < n
      PROVE  FALSE
  <2>1. 1..m \in T /\ 1..m \subseteq 1..n /\ n \in 1..n /\ n \notin 1..m
    BY <1>5
  <2>2. <<1..m, x>> \in StrictSubsetOrdering(Nat)
    BY <1>4, <2>1 DEF StrictSubsetOrdering
  <2> QED
    BY <1>3, <2>1, <2>2
<1> QED
    BY <1>5

LEMMA GreatestExists ==
    ASSUME NEW n \in Nat, NEW S \in SUBSET (1..n), S # {}
    PROVE  \E w \in S : \A p \in S : p <= w
<1> DEFINE B == {k \in Nat : \A p \in S : p <= k}
<1>1. n \in B
    OBVIOUS
<1>2. PICK k \in B : \A m \in B : k <= m
  <2> HIDE DEF B
  <2>1. B \in SUBSET Nat
    BY DEF B
  <2> QED
    BY <1>1, <2>1, LeastExists
<1>3. CASE k \in S
    BY <1>3
<1>4. CASE k \notin S
  <2>1. PICK p \in S : TRUE
    OBVIOUS
  <2>2. k >= 1 /\ k - 1 \in Nat
    BY <2>1
  <2>3. k - 1 \in B
    BY <1>4, <2>2
  <2> QED
    BY <1>2, <2>2, <2>3
<1> QED
    BY <1>3, <1>4

\* A key the topic holds a mutation for has a last one.
LEMMA LastExists ==
    ASSUME TypeOK, NEW k, NEW i \in DOMAIN out.cart, CartKey(source[out.cart[i]]) = k
    PROVE  \E o \in Offsets : LastIn(out.cart, o, k)
<1> DEFINE S == {j \in DOMAIN out.cart : CartKey(source[out.cart[j]]) = k}
<1>1. /\ Len(out.cart) \in Nat /\ DOMAIN out.cart = 1..Len(out.cart)
      /\ \A j \in DOMAIN out.cart : out.cart[j] \in Offsets
    BY CartType
<1>2. S \in SUBSET (1..Len(out.cart)) /\ S # {}
    BY <1>1
<1>3. PICK w \in S : \A p \in S : p <= w
  <2> HIDE DEF S
  <2> QED
    BY <1>1, <1>2, GreatestExists
<1>4. \A j \in DOMAIN out.cart : j > w => CartKey(source[out.cart[j]]) # k
    BY <1>1, <1>3
<1> QED
    BY <1>1, <1>3, <1>4 DEF LastIn

\* A job that has caught up has left the newest transition of every key last.
LEMMA CaughtUp ==
    ASSUME TypeOK, CartInv
    PROVE  CartConverges
<1> SUFFICES ASSUME Idle, expiries = 0, NEW k \in CartKeys, NEW o \in Offsets
             PROVE  IsLastFor(o, k) <=> IsNewest(o, k)
    BY DEF CartConverges
<1>1. /\ IsLastFor(o, k) <=> LastIn(out.cart, o, k)
      /\ IsNewest(o, k) <=> NewestOf(Transitions(k), o)
    BY DEF IsLastFor, LastIn, IsNewest, NewestOf
<1>2. job.position = Len(source) /\ Transitions(k) = AmongRead(Len(source), k)
      /\ Len(source) \in Nat
    BY CartType DEF Idle, Transitions, AmongRead, Offsets
<1>3. HoldsNewest(job) /\ Follows(out.cart, job)
      /\ \A i \in DOMAIN out.cart : NewestWhenRead(out.cart[i])
    BY DEF CartInv
<1>4. \A p \in Offsets : LastIn(out.cart, p, k) => p = job.top[k]
    BY <1>2, <1>3 DEF Follows, Offsets
<1>5. CASE job.top[k] = 0
  <2>1. Transitions(k) = {}
    BY <1>2, <1>3, <1>5 DEF HoldsNewest
  <2>2. o # 0
    BY <1>2 DEF Offsets
  <2> QED
    BY <1>1, <1>4, <1>5, <2>1, <2>2 DEF NewestOf
<1>6. CASE job.top[k] # 0
  <2>1. NewestOf(Transitions(k), job.top[k])
    BY <1>2, <1>3, <1>6 DEF HoldsNewest
  <2>2. PICK i \in DOMAIN out.cart : CartKey(source[out.cart[i]]) = k
    BY <1>3, <1>6 DEF Follows
  <2>3. LastIn(out.cart, job.top[k], k)
    BY <1>4, <2>2, LastExists
  <2>4. ASSUME NewestOf(Transitions(k), o)
        PROVE  o = job.top[k]
    <3>1. o \in Nat /\ job.top[k] \in Nat
        BY <2>1, <2>4 DEF NewestOf, Transitions, Offsets
    <3>2. ~(o < job.top[k]) /\ ~(job.top[k] < o)
        BY <2>1, <2>4 DEF NewestOf
    <3> QED
        BY <3>1, <3>2
  <2> QED
    BY <1>1, <1>4, <2>1, <2>3, <2>4
<1> QED
    BY <1>5, <1>6

\* Once the job has read everything, the last mutation of every (user, item)
\* is its newest transition, after any failures and fresh submissions.
THEOREM CartConvergence == Spec => []CartConverges
<1>1. Init => NoLossInv /\ ExactInv /\ CartInv
  <2> SUFFICES ASSUME Init
               PROVE  NoLossInv /\ ExactInv /\ CartInv
    OBVIOUS
  <2>1. Remembers(FreshJob)
    BY DEF Remembers, FreshJob, ValidRead
  <2>2. NoLossInv /\ ExactInv
    BY <2>1, NoOutputsCover DEF Init, NoLossInv, ExactInv, Extends, NoOutputs
  <2>3. out.cart = << >> /\ durable.cart = << >> /\ DOMAIN out.cart = {} /\ Len(out.cart) = 0
        /\ job = FreshJob /\ ckpt = FreshJob /\ DOMAIN durable.cart = {}
        /\ Len(durable.cart) = 0 /\ FreshJob.position = 0
    BY DEF Init, NoOutputs, FreshJob
  <2>4. CartInv
    BY <2>3, FreshNewest DEF CartInv, InFlightInv
  <2> QED
    BY <2>2, <2>4
<1>2. TypeOK /\ NoLossInv /\ ExactInv /\ CartInv /\ [Next]_vars
        => NoLossInv' /\ ExactInv' /\ CartInv'
    BY NoLossStep, ExactStep, CartStep
<1>3. TypeOK /\ CartInv => CartConverges
    BY CaughtUp
<1> QED
    BY <1>1, <1>2, <1>3, TypeCorrect, PTL DEF Spec
=============================================================================
