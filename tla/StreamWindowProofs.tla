------------------------- MODULE StreamWindowProofs -------------------------
(***************************************************************************)
(* The Flink job's windows and what verify.py derives from its outputs:    *)
(* which events are late, which of them the aggregates count and how the   *)
(* counts add up, for every set of events, delay, window size and number   *)
(* of failures, submissions and expiries.                                  *)
(*                                                                         *)
(* The source watermark is not state: it is the maximum over the records   *)
(* of this submission as long as the job is not restored.  NoRestore says  *)
(* that it is not, and is an assumption of the theorems that need it; the  *)
(* runs sj_restore_placed and sj_restore_features show what a restore      *)
(* breaks.                                                                 *)
(***************************************************************************)
EXTENDS Accounting, StreamJobProofs

\* A failed job may be submitted again, but never resumes from its checkpoint.
NoRestore == [][~Restart]_vars

-----------------------------------------------------------------------------
(* Windows and the rows they emit. *)

\* A window ends after its events.
LEMMA WindowContains ==
    ASSUME NEW e \in Events
    PROVE  e.time \in Int /\ WindowEnd(e) \in Int /\ e.time < WindowEnd(e)
<1>1. e.time \in Int
    BY EventsAssumption
<1>2. ASSUME NEW W \in Nat \ {0}, NEW t \in Int
      PROVE  W * (t \div W) + W \in Int /\ t < W * (t \div W) + W
    OBVIOUS
<1> QED
    BY <1>1, <1>2, WindowAssumption DEF WindowEnd

\* An event of a closed window is at or behind the watermark.
LEMMA ClosedIsBehind ==
    ASSUME NEW e \in Events, NEW w \in Int, Closed(e, w)
    PROVE  e.time <= w
BY WindowContains DEF Closed

\* Every row is emitted, once, in the order of the windows.
LEMMA EmissionsExact ==
    ASSUME NEW rows, IsFiniteSet(rows), NEW s \in Emissions(rows)
    PROVE  /\ Len(s) \in Nat /\ DOMAIN s = 1..Len(s) /\ s \in Seq(rows)
           /\ \A i \in DOMAIN s : s[i] \in rows
           /\ \A r \in rows : \E i \in DOMAIN s : s[i] = r
           /\ \A i, j \in DOMAIN s : i < j => s[i] # s[j] /\ s[i].end <= s[j].end
<1> DEFINE n == Cardinality(rows)
<1>1. n \in Nat
    BY FS_CardinalityType
<1>2. /\ s \in [1..n -> rows]
      /\ \A i, j \in DOMAIN s : i < j => s[i] # s[j] /\ s[i].end <= s[j].end
    BY DEF Emissions
<1>3. s \in Seq(rows) /\ Len(s) = n
    BY <1>1, <1>2
<1>4. IsFiniteSet(1..n) /\ Cardinality(1..n) = n
  <2>1. 1 \in Int /\ n \in Int /\ (1 > n => n = 0)
    BY <1>1
  <2>2. IsFiniteSet(1..n) /\ Cardinality(1..n) = IF 1 > n THEN 0 ELSE n - 1 + 1
    BY <2>1, FS_Interval
  <2> QED
    BY <1>1, <2>1, <2>2
<1>5. s \in Injection(1..n, rows)
  <2>1. \A i, j \in 1..n : s[i] = s[j] => i = j
    <3> SUFFICES ASSUME NEW i \in 1..n, NEW j \in 1..n, i # j
                 PROVE  s[i] # s[j]
        OBVIOUS
    <3>1. i < j \/ j < i
        BY <1>1
    <3> QED
        BY <1>2, <3>1
  <2> QED
    BY <1>2, <2>1 DEF Injection, IsInjective
<1>6. s \in Surjection(1..n, rows)
    BY <1>4, <1>5, FS_Injection
<1> HIDE DEF n
<1>7. \A r \in rows : \E i \in 1..n : s[i] = r
    BY <1>6 DEF Surjection
<1>8. DOMAIN s = 1..n
    BY <1>2
<1> QED
    BY <1>1, <1>2, <1>3, <1>7, <1>8

-----------------------------------------------------------------------------
(* What a step that reads a record does to the windows. *)

NewWindowWm == Later(job.windowWm, Later(wm, WatermarkOf(Event)))
Aggregated == IF Accepts /\ OnTime(Event) THEN Buffered(At) ELSE job.open
Due == {o \in Aggregated : Closed(source[o], NewWindowWm)}

LEMMA ReadWindows ==
    ASSUME TypeOK, Process
    PROVE  /\ Ready /\ At \in Offsets /\ Event \in Events
           /\ UNCHANGED <<source, ckpt, durable, status, restarts, resubmits, expiries>>
           /\ job'.position = At
           /\ wm' = Later(wm, WatermarkOf(Event))
           /\ job'.windowWm = NewWindowWm
           /\ job'.open = Aggregated \ Due
           /\ job'.seen = IF Accepts THEN job.seen \cup {Event.event_id} ELSE job.seen
           /\ \A o : [type |-> "LATE", at |-> o] \in out'.quality <=>
                 \/ [type |-> "LATE", at |-> o] \in out.quality
                 \/ o = At /\ Accepts /\ ~OnTime(Event)
           /\ \E f \in Emissions(FeatureRows(Due)), m \in Emissions(MetricRows(Due)) :
                 out'.features = out.features \o f /\ out'.metrics = out.metrics \o m
<1>1. ASSUME NEW seen, NEW buffered, NEW top, NEW written \in Outputs,
             ReadEvent(seen, buffered, top, written), Ready,
             buffered = Aggregated,
             written.features = out.features, written.metrics = out.metrics
      PROVE  /\ UNCHANGED <<source, ckpt, durable, status, restarts, resubmits, expiries>>
             /\ job'.position = At
             /\ wm' = Later(wm, WatermarkOf(Event))
             /\ job'.windowWm = NewWindowWm
             /\ job'.open = Aggregated \ Due
             /\ job'.seen = seen
             /\ out'.quality = written.quality
             /\ \E f \in Emissions(FeatureRows(Due)), m \in Emissions(MetricRows(Due)) :
                   out'.features = out.features \o f /\ out'.metrics = out.metrics \o m
  <2>1. Due = {o \in buffered : Closed(source[o], NewWindowWm)}
    BY <1>1 DEF Due
  <2>2. PICK f \in Emissions(FeatureRows(Due)), m \in Emissions(MetricRows(Due)) :
            out' = [written EXCEPT !.features = @ \o f, !.metrics = @ \o m]
    BY <1>1, <2>1 DEF ReadEvent, NewWindowWm
  <2>3. out'.features = out.features \o f /\ out'.metrics = out.metrics \o m
        /\ out'.quality = written.quality
    BY <1>1, <2>2 DEF Outputs
  <2>4. job' = [position |-> At, seen |-> seen, windowWm |-> NewWindowWm,
                open |-> Aggregated \ Due, top |-> top]
    BY <1>1, <2>1 DEF ReadEvent, NewWindowWm
  <2>5. wm' = Later(wm, WatermarkOf(Event))
        /\ UNCHANGED <<source, ckpt, durable, status, restarts, resubmits, expiries>>
    BY <1>1 DEF ReadEvent
  <2> QED
    BY <2>2, <2>3, <2>4, <2>5
<1>2. ASSUME NEW o, NEW p
      PROVE  /\ [type |-> "LATE", at |-> o] # [type |-> "INVALID", at |-> p]
             /\ [type |-> "LATE", at |-> o] = [type |-> "LATE", at |-> p] <=> o = p
  <2>1. [type |-> "LATE", at |-> o] = [type |-> "LATE", at |-> p] => o = p
    <3> SUFFICES ASSUME [type |-> "LATE", at |-> o] = [type |-> "LATE", at |-> p]
                 PROVE  o = p
        OBVIOUS
    <3>1. [type |-> "LATE", at |-> o].at = [type |-> "LATE", at |-> p].at
        OBVIOUS
    <3> QED
        BY <3>1
  <2>2. [type |-> "LATE", at |-> o].type # [type |-> "INVALID", at |-> p].type
    OBVIOUS
  <2> QED
    BY <2>1, <2>2
<1>3. Ready
    BY DEF Process, ProcessInvalid, ProcessDuplicate, ProcessOnTime, ProcessLate
<1>4. At \in Offsets /\ Event \in Events
    BY <1>3, HandledType
<1>5. CASE ProcessInvalid
  <2>1. [out EXCEPT !.quality = @ \cup {[type |-> "INVALID", at |-> At]}] \in Outputs
    BY <1>4, WrittenType, HandledType, <1>3 DEF TypeOK
  <2>2. ~Accepts /\ Aggregated = job.open
    BY <1>5 DEF ProcessInvalid, Accepts, Aggregated
  <2>3. /\ ReadEvent(job.seen, job.open, job.top,
                     [out EXCEPT !.quality = @ \cup {[type |-> "INVALID", at |-> At]}])
    BY <1>5 DEF ProcessInvalid
  <2>4. PICK written : written = [out EXCEPT !.quality = @ \cup {[type |-> "INVALID", at |-> At]}]
    OBVIOUS
  <2>5. written.features = out.features /\ written.metrics = out.metrics
        /\ written.quality = out.quality \cup {[type |-> "INVALID", at |-> At]}
    BY <2>4 DEF TypeOK, Outputs
  <2>6. written \in Outputs /\ ReadEvent(job.seen, job.open, job.top, written)
    BY <2>1, <2>3, <2>4
  <2>7. out'.quality = out.quality \cup {[type |-> "INVALID", at |-> At]}
    BY <1>1, <1>3, <2>2, <2>5, <2>6
  <2>8. \A o : [type |-> "LATE", at |-> o] \in out'.quality <=>
               [type |-> "LATE", at |-> o] \in out.quality
    BY <1>2, <2>7
  <2> QED
    BY <1>1, <1>3, <1>4, <2>2, <2>5, <2>6, <2>8
<1>6. CASE ProcessDuplicate
  <2>1. ~Accepts /\ Aggregated = job.open /\ out \in Outputs
        /\ ReadEvent(job.seen, job.open, job.top, out)
    BY <1>6 DEF ProcessDuplicate, Accepts, Aggregated, TypeOK
  <2> QED
    BY <1>1, <1>3, <1>4, <2>1
<1>7. CASE ProcessOnTime
  <2>1. PICK written : written = [out EXCEPT !.raw = @ \cup {At}, !.cart = CartAfter(At)]
    OBVIOUS
  <2>2. /\ written.features = out.features /\ written.metrics = out.metrics
        /\ written.quality = out.quality /\ written \in Outputs
    BY <1>3, <2>1, HandledType DEF TypeOK, Outputs
  <2>3. /\ Accepts /\ OnTime(Event) /\ Aggregated = Buffered(At)
        /\ ReadEvent(job.seen \cup {Event.event_id}, Buffered(At), TopAfter(At), written)
    BY <1>7, <2>1 DEF ProcessOnTime, Accepts, Aggregated
  <2> QED
    BY <1>1, <1>3, <1>4, <2>2, <2>3
<1>8. CASE ProcessLate
  <2>1. PICK written : written = [out EXCEPT !.raw = @ \cup {At}, !.cart = CartAfter(At),
                             !.quality = @ \cup {[type |-> "LATE", at |-> At]}]
    OBVIOUS
  <2>2. /\ written.features = out.features /\ written.metrics = out.metrics
        /\ written.quality = out.quality \cup {[type |-> "LATE", at |-> At]}
    BY <2>1 DEF TypeOK, Outputs
  <2>3. written \in Outputs
    BY <1>3, <2>1, HandledType, WrittenType DEF TypeOK
  <2>4. /\ Accepts /\ ~OnTime(Event) /\ Aggregated = job.open
        /\ ReadEvent(job.seen \cup {Event.event_id}, job.open, TopAfter(At), written)
    BY <1>8, <2>1 DEF ProcessLate, Accepts, Aggregated
  <2>5. out'.quality = out.quality \cup {[type |-> "LATE", at |-> At]}
    BY <1>1, <1>3, <2>2, <2>3, <2>4
  <2>6. \A o : [type |-> "LATE", at |-> o] \in out'.quality <=>
               [type |-> "LATE", at |-> o] \in out.quality \/ o = At
    BY <1>2, <2>5
  <2> QED
    BY <1>1, <1>3, <1>4, <2>2, <2>3, <2>4, <2>6
<1> QED
    BY <1>5, <1>6, <1>7, <1>8 DEF Process

-----------------------------------------------------------------------------
(* The steps by what they do to the windows and the verdicts.                *)

\* Checkpoints and expiries move neither the source, the topics nor a window.
Quiet ==
    /\ UNCHANGED <<source, out, wm, status>>
    /\ job'.position = job.position /\ job'.open = job.open
    /\ job'.windowWm = job.windowWm /\ job'.seen \subseteq job.seen
    /\ \/ UNCHANGED <<ckpt, durable>>
       \/ ckpt' = job' /\ durable' = out'

\* A failure goes back to the checkpoint and keeps a part of what was written.
Fails ==
    /\ UNCHANGED <<source, ckpt>>
    /\ job' = ckpt
    /\ status' # "RUNNING"
    /\ \E kept \in Survivors : out' = kept /\ durable' = kept

LEMMA StepKinds ==
    ASSUME TypeOK, [Next]_vars, ~Restart
    PROVE  (\E e \in Events : Produce(e)) \/ Process \/ Quiet \/ Fails \/ Resubmit
<1>1. CASE Checkpoint
    BY <1>1 DEF Checkpoint, Quiet
<1>2. CASE TaskFailure
    BY <1>2 DEF TaskFailure, Fails, LoseInFlight
<1>3. CASE JobManagerLoss
    BY <1>3 DEF JobManagerLoss, Fails, LoseInFlight
<1>4. CASE Expire
    BY <1>4 DEF Expire, ExpireId, ExpireTop, Quiet, TypeOK, JobState
<1>5. CASE UNCHANGED vars
    BY <1>5 DEF vars, Quiet
<1> QED
    BY <1>1, <1>2, <1>3, <1>4, <1>5 DEF Next, Process

LEMMA ExpiriesGrow ==
    ASSUME TypeOK, [Next]_vars, expiries' = 0
    PROVE  expiries = 0
<1>1. CASE Process
    BY <1>1, ReadWindows
<1>2. CASE Expire
    BY <1>2, BoundsAssumption DEF Expire, ExpireId, ExpireTop, TypeOK
<1>3. CASE ~Process /\ ~Expire
    BY <1>3 DEF Next, Process, Produce, Checkpoint, TaskFailure, Restart, JobManagerLoss,
                Resubmit, vars
<1> QED
    BY <1>1, <1>2, <1>3

\* What a record owes to the ones before it does not change.
LEMMA ProduceKeepsBehind ==
    ASSUME TypeOK, NEW e \in Events, Produce(e)
    PROVE  \A o \in Offsets : BehindWatermark(o)' <=> BehindWatermark(o)
<1>1. /\ Len(source) \in Nat /\ \A o \in Offsets : source'[o] = source[o]
    BY ProduceKeeps, CartType
<1> SUFFICES ASSUME NEW o \in Offsets
             PROVE  BehindWatermark(o)' <=> BehindWatermark(o)
    OBVIOUS
<1>2. 1..(o - 1) \subseteq Offsets
    BY <1>1 DEF Offsets
<1> QED
    BY <1>1, <1>2 DEF BehindWatermark, WatermarkOf

LEMMA SourceKeeps ==
    ASSUME UNCHANGED source
    PROVE  /\ \A o : BehindWatermark(o)' <=> BehindWatermark(o)
           /\ \A o : FirstOccurrence(o)' <=> FirstOccurrence(o)
BY DEF BehindWatermark, FirstOccurrence, SameId, WatermarkOf

-----------------------------------------------------------------------------
(* The verdict.  Until a restore, the watermark is the greatest of those of  *)
(* the records this submission has read, so an event is late exactly if a    *)
(* record before it in the topic puts it behind.                             *)

WatermarkInv ==
    status = "RUNNING" =>
        /\ job.windowWm = wm
        /\ \A p \in 1..job.position : WatermarkOf(source[p]) <= wm
        /\ IF job.position = 0 THEN wm = NoWatermark
           ELSE \E p \in 1..job.position : wm = WatermarkOf(source[p])

SeenInv ==
    status = "RUNNING" =>
        job.seen \subseteq {source[o].event_id : o \in ValidRead(job.position)}

LateCovered(outputs, state) ==
    \A o \in 1..state.position :
        FirstOccurrence(o) /\ BehindWatermark(o)
            => [type |-> "LATE", at |-> o] \in outputs.quality

VerdictInv ==
    /\ WatermarkInv
    /\ SeenInv
    /\ \A o \in Offsets : IsLate(o) => BehindWatermark(o)
    /\ LateCovered(out, job) /\ LateCovered(durable, ckpt)

LEMMA WatermarkType ==
    ASSUME TypeOK
    PROVE  \A o \in Offsets : /\ source[o] \in Events
                              /\ source[o].time \in Int
                              /\ WatermarkOf(source[o]) \in Int
                              /\ WatermarkOf(source[o]) > NoWatermark
<1>1. \A o \in Offsets : source[o] \in Events
    BY CartType
<1>2. \A e \in Events : e.time \in Int
    BY EventsAssumption
<1> QED
    BY <1>1, <1>2, DelayAssumption, NoWatermarkAssumption DEF WatermarkOf

LEMMA Verdict ==
    ASSUME TypeOK, WatermarkInv, Ready
    PROVE  OnTime(Event) <=> ~BehindWatermark(At)
<1>1. /\ job.position \in Nat /\ At = job.position + 1 /\ At \in Offsets
      /\ 1..(At - 1) = 1..job.position /\ status = "RUNNING" /\ Event = source[At]
      /\ 1..job.position \subseteq Offsets /\ wm \in Int
    BY CartType DEF Ready, At, Offsets, Event, TypeOK
<1>2. source[At].time \in Int
    BY <1>1, WatermarkType
<1>3. CASE job.position = 0
  <2>1. wm = NoWatermark
    BY <1>1, <1>3 DEF WatermarkInv
  <2>2. ~BehindWatermark(At)
    BY <1>1, <1>3 DEF BehindWatermark
  <2> QED
    BY <2>1, <2>2 DEF OnTime
<1>4. CASE job.position # 0
  <2>1. PICK p \in 1..job.position : wm = WatermarkOf(source[p])
    BY <1>1, <1>4 DEF WatermarkInv
  <2>2. wm > NoWatermark /\ NoWatermark \in Int
    BY <1>1, <2>1, WatermarkType, NoWatermarkAssumption
  <2>3. OnTime(Event) <=> source[At].time > wm
    BY <1>1, <2>2 DEF OnTime
  <2>4. \A q \in 1..job.position : WatermarkOf(source[q]) \in Int /\ WatermarkOf(source[q]) <= wm
    BY <1>1, WatermarkType DEF WatermarkInv
  <2>5. BehindWatermark(At) <=> source[At].time <= wm
    BY <1>1, <1>2, <2>1, <2>4 DEF BehindWatermark
  <2> QED
    BY <1>1, <1>2, <2>3, <2>5
<1> QED
    BY <1>3, <1>4

LEMMA FirstAccepted ==
    ASSUME TypeOK, SeenInv, Ready, FirstOccurrence(At)
    PROVE  Accepts
<1>1. job.position \in Nat /\ 1..(At - 1) = 1..job.position /\ status = "RUNNING"
    BY DEF TypeOK, JobState, At, Ready
<1>2. \A p \in ValidRead(job.position) : source[p].event_id # Event.event_id
    BY <1>1 DEF FirstOccurrence, SameId, ValidRead, Event
<1> QED
    BY <1>1, <1>2 DEF FirstOccurrence, SeenInv, Accepts, Event

\* Reading a record moves the watermark to the greatest of all read so far.
LEMMA ReadWatermark ==
    ASSUME TypeOK, WatermarkInv, Process
    PROVE  /\ WatermarkInv'
           /\ NewWindowWm \in Int /\ job.windowWm <= NewWindowWm
           /\ job.windowWm = wm /\ wm \in Int
           /\ WatermarkOf(Event) <= NewWindowWm
           /\ \E q \in Offsets : NewWindowWm = WatermarkOf(source[q]) /\ q <= At
<1>1. /\ Ready /\ At \in Offsets /\ UNCHANGED <<source, status>>
      /\ job'.position = At /\ wm' = Later(wm, WatermarkOf(Event))
      /\ job'.windowWm = NewWindowWm
    BY ReadWindows
<1>2. /\ job.position \in Nat /\ At = job.position + 1 /\ 1..At = (1..job.position) \cup {At}
      /\ 1..job.position \subseteq Offsets /\ wm \in Int /\ Event = source[At]
      /\ status = "RUNNING" /\ At # 0
    BY <1>1, CartType DEF Ready, At, Offsets, TypeOK, Event
<1>3. job.windowWm = wm /\ \A p \in 1..job.position : WatermarkOf(source[p]) <= wm
    BY <1>2 DEF WatermarkInv
<1>4. \A p \in Offsets : WatermarkOf(source[p]) \in Int /\ WatermarkOf(source[p]) > NoWatermark
    BY WatermarkType
<1>5. NewWindowWm = Later(wm, WatermarkOf(Event)) /\ NewWindowWm \in Int
      /\ wm <= NewWindowWm /\ WatermarkOf(Event) <= NewWindowWm
    BY <1>1, <1>2, <1>3, <1>4 DEF NewWindowWm, Later
<1>6. \A p \in 1..At : WatermarkOf(source[p]) <= NewWindowWm
  <2> SUFFICES ASSUME NEW p \in 1..At
               PROVE  WatermarkOf(source[p]) <= NewWindowWm
    OBVIOUS
  <2>1. CASE p = At
    BY <1>2, <1>5, <2>1
  <2>2. CASE p \in 1..job.position
    <3>1. WatermarkOf(source[p]) <= wm /\ WatermarkOf(source[p]) \in Int
        BY <1>2, <1>3, <1>4, <2>2
    <3> QED
        BY <1>2, <1>5, <3>1
  <2> QED
    BY <1>2, <2>1, <2>2
<1>7. \E p \in 1..At : NewWindowWm = WatermarkOf(source[p])
  <2>1. CASE NewWindowWm = WatermarkOf(Event)
    BY <1>2, <2>1
  <2>2. CASE NewWindowWm # WatermarkOf(Event)
    <3>1. NewWindowWm = wm
        BY <1>5, <2>2 DEF Later
    <3>2. job.position # 0
      <4>1. WatermarkOf(Event) > NoWatermark /\ WatermarkOf(Event) \in Int
        BY <1>1, <1>2, <1>4
      <4> QED
        BY <1>2, <1>5, <3>1, <4>1, NoWatermarkAssumption DEF WatermarkInv
    <3> QED
        BY <1>2, <3>1, <3>2 DEF WatermarkInv
  <2> QED
    BY <2>1, <2>2
<1>8. WatermarkInv'
    BY <1>1, <1>2, <1>5, <1>6, <1>7 DEF WatermarkInv, WatermarkOf
<1>9. PICK q \in 1..At : NewWindowWm = WatermarkOf(source[q])
    BY <1>7
<1>10. q \in Offsets /\ q <= At
    BY <1>1, <1>2
<1> QED
    BY <1>2, <1>3, <1>5, <1>8, <1>9, <1>10

-----------------------------------------------------------------------------
(* Every accepted event has its place: LATE, or an open window, or both      *)
(* aggregates; and while no entry expires a row that was written holds       *)
(* exactly the events of its key and window that are on time, so another     *)
(* submission writes the same row.                                           *)

PlacedInv ==
    /\ status = "RUNNING" => \A o \in job.open : ~BehindWatermark(o)
    /\ \A i \in DOMAIN out.features :
          \A o \in out.features[i].events : ~BehindWatermark(o)
    /\ status = "RUNNING" =>
          \A o \in 1..job.position : FirstOccurrence(o) /\ ~BehindWatermark(o) =>
              o \in job.open \/ (InFeatures(o) /\ InMetrics(o))

Counted(o) == FirstOccurrence(o) /\ ~BehindWatermark(o)

\* A record of the topic has closed the windows that end here.
Past(end) == \E q \in Offsets : end - 1 <= WatermarkOf(source[q])

WholeFeature(row) ==
    /\ row.events = {o \in Offsets : /\ Counted(o)
                                     /\ source[o].user = row.user
                                     /\ WindowEnd(source[o]) = row.end}
    /\ Past(row.end)

WholeMetric(row) ==
    /\ row.events = {o \in Offsets : /\ Counted(o)
                                     /\ source[o].item = row.item
                                     /\ source[o].category = row.category
                                     /\ WindowEnd(source[o]) = row.end}
    /\ Past(row.end)

WholeInv ==
    expiries = 0 =>
        /\ status = "RUNNING" =>
              job.open = {o \in 1..job.position :
                              Counted(o) /\ ~Closed(source[o], job.windowWm)}
        /\ \A i \in DOMAIN out.features : WholeFeature(out.features[i])
        /\ \A i \in DOMAIN out.metrics : WholeMetric(out.metrics[i])

\* Versions increase: what has been written is closed, what is open is not.
OpenInv(state) == \A o \in state.open : ~Closed(source[o], state.windowWm)

OrderInv ==
    /\ status = "RESTARTING" => restarts > 0
    /\ OpenInv(job) /\ OpenInv(ckpt)
    /\ FeatureVersionsIncrease
    /\ restarts = 0 /\ resubmits = 0 /\ status = "RUNNING" =>
          \A i \in DOMAIN out.features : out.features[i].end - 1 <= job.windowWm

LEMMA VerdictStep ==
    ASSUME TypeOK, NoLossInv, VerdictInv, [Next]_vars, ~Restart
    PROVE  VerdictInv'
<1>1. CASE \E e \in Events : Produce(e)
  <2>1. PICK e \in Events : Produce(e)
    BY <1>1
  <2>2. /\ Offsets \subseteq Offsets'
        /\ \A o \in Offsets : source'[o] = source[o]
        /\ \A o \in Offsets : FirstOccurrence(o)' <=> FirstOccurrence(o)
        /\ \A o \in Offsets : BehindWatermark(o)' <=> BehindWatermark(o)
        /\ UNCHANGED <<job, wm, ckpt, out, durable, status>>
    BY <2>1, ProduceKeeps, ProduceKeepsBehind
  <2>3. 1..job.position \subseteq Offsets /\ 1..ckpt.position \subseteq Offsets
    BY CartType DEF Offsets
  <2>4. WatermarkInv'
    BY <2>2, <2>3 DEF VerdictInv, WatermarkInv, WatermarkOf
  <2>5. SeenInv'
    <3>1. ValidRead(job.position) \subseteq Offsets
        BY <2>3 DEF ValidRead
    <3>2. \A o \in ValidRead(job.position) : /\ source'[o] = source[o]
                                             /\ o \in {p \in 1..job.position : Valid(source'[p])}
        BY <2>2, <3>1 DEF ValidRead
    <3>3. {source[o].event_id : o \in ValidRead(job.position)}
            \subseteq {source'[o].event_id : o \in {p \in 1..job.position : Valid(source'[p])}}
        BY <3>2
    <3> QED
        BY <2>2, <3>3 DEF VerdictInv, SeenInv, ValidRead
  <2>6. (\A o \in Offsets : IsLate(o) => BehindWatermark(o))'
    <3> SUFFICES ASSUME NEW o \in Offsets', [type |-> "LATE", at |-> o] \in out.quality
                 PROVE  BehindWatermark(o)'
        BY <2>2 DEF IsLate
    <3>1. o \in Offsets
      <4>1. out.quality \in SUBSET [type : {"INVALID", "LATE"}, at : Offsets]
        BY DEF TypeOK, Outputs
      <4>2. [type |-> "LATE", at |-> o].at = o
        OBVIOUS
      <4> QED
        BY <4>1, <4>2
    <3> QED
        BY <2>2, <3>1 DEF VerdictInv, IsLate
  <2>7. LateCovered(out, job)' /\ LateCovered(durable, ckpt)'
    BY <2>2, <2>3 DEF VerdictInv, LateCovered
  <2> QED
    BY <2>4, <2>5, <2>6, <2>7 DEF VerdictInv
<1>2. CASE Process
  <2>1. /\ Ready /\ At \in Offsets /\ UNCHANGED <<source, ckpt, durable, status>>
        /\ job'.position = At
        /\ job'.seen = IF Accepts THEN job.seen \cup {Event.event_id} ELSE job.seen
        /\ \A o : [type |-> "LATE", at |-> o] \in out'.quality <=>
              \/ [type |-> "LATE", at |-> o] \in out.quality
              \/ o = At /\ Accepts /\ ~OnTime(Event)
    BY <1>2, ReadWindows
  <2>2. /\ job.position \in Nat /\ At = job.position + 1 /\ 1..At = (1..job.position) \cup {At}
        /\ status = "RUNNING" /\ Event = source[At]
    BY <2>1, CartType DEF Ready, At, Event
  <2>3. OnTime(Event) <=> ~BehindWatermark(At)
    BY <2>1, Verdict DEF VerdictInv
  <2>4. FirstOccurrence(At) => Accepts
    BY <2>1, FirstAccepted DEF VerdictInv
  <2>5. WatermarkInv'
    BY <1>2, ReadWatermark DEF VerdictInv
  <2>6. SeenInv'
    <3>1. ValidRead(At) = ValidRead(job.position) \cup {o \in {At} : Valid(source[o])}
        BY <2>2 DEF ValidRead
    <3>2. job.seen \subseteq {source[o].event_id : o \in ValidRead(job.position)}
        BY <2>2 DEF VerdictInv, SeenInv
    <3>3. job'.seen \subseteq {source[o].event_id : o \in ValidRead(At)}
        BY <2>1, <2>2, <3>1, <3>2 DEF Accepts
    <3> QED
        BY <2>1, <3>3 DEF SeenInv, ValidRead
  <2>7. \A o : BehindWatermark(o)' <=> BehindWatermark(o)
    BY <2>1, SourceKeeps
  <2>8. \A o : FirstOccurrence(o)' <=> FirstOccurrence(o)
    BY <2>1, SourceKeeps
  <2>9. (\A o \in Offsets : IsLate(o) => BehindWatermark(o))'
    BY <2>1, <2>3, <2>7 DEF VerdictInv, IsLate, Offsets
  <2>10. LateCovered(out, job)'
    <3>1. \A o \in 1..At : FirstOccurrence(o) /\ BehindWatermark(o)
            => [type |-> "LATE", at |-> o] \in out'.quality
        BY <2>1, <2>2, <2>3, <2>4 DEF VerdictInv, LateCovered
    <3> QED
        BY <2>1, <2>7, <2>8, <3>1 DEF LateCovered
  <2>11. LateCovered(durable, ckpt)'
    BY <2>1, <2>7, <2>8 DEF VerdictInv, LateCovered
  <2> QED
    BY <2>5, <2>6, <2>9, <2>10, <2>11 DEF VerdictInv
<1>3. CASE Quiet
  <2>1. /\ \A o : BehindWatermark(o)' <=> BehindWatermark(o)
        /\ \A o : FirstOccurrence(o)' <=> FirstOccurrence(o)
        /\ UNCHANGED <<source, out, wm, status>>
        /\ job'.position = job.position /\ job'.windowWm = job.windowWm
        /\ job'.seen \subseteq job.seen
    BY <1>3, SourceKeeps DEF Quiet
  <2>2. WatermarkInv'
    BY <2>1 DEF VerdictInv, WatermarkInv
  <2>3. SeenInv'
    BY <2>1 DEF VerdictInv, SeenInv, ValidRead
  <2>4. (\A o \in Offsets : IsLate(o) => BehindWatermark(o))'
    BY <2>1 DEF VerdictInv, IsLate, Offsets
  <2>5. LateCovered(out, job)'
    BY <2>1 DEF VerdictInv, LateCovered
  <2>6. LateCovered(durable, ckpt)'
    BY <1>3, <2>1, <2>5 DEF VerdictInv, LateCovered, Quiet
  <2> QED
    BY <2>2, <2>3, <2>4, <2>5, <2>6 DEF VerdictInv
<1>4. CASE Fails
  <2>1. PICK kept \in Survivors : out' = kept /\ durable' = kept
    BY <1>4 DEF Fails
  <2>2. /\ \A o : BehindWatermark(o)' <=> BehindWatermark(o)
        /\ \A o : FirstOccurrence(o)' <=> FirstOccurrence(o)
        /\ UNCHANGED <<source, ckpt>> /\ job' = ckpt /\ status' # "RUNNING"
    BY <1>4, SourceKeeps DEF Fails
  <2>3. durable.quality \subseteq kept.quality /\ kept.quality \subseteq out.quality
    BY DEF Survivors, NoLossInv, Extends
  <2>4. WatermarkInv' /\ SeenInv'
    BY <2>2 DEF WatermarkInv, SeenInv
  <2>5. (\A o \in Offsets : IsLate(o) => BehindWatermark(o))'
    BY <2>1, <2>2, <2>3 DEF VerdictInv, IsLate, Offsets
  <2>6. LateCovered(kept, ckpt)
    BY <2>3 DEF VerdictInv, LateCovered
  <2>7. LateCovered(out, job)' /\ LateCovered(durable, ckpt)'
    BY <2>1, <2>2, <2>6 DEF LateCovered
  <2> QED
    BY <2>4, <2>5, <2>7 DEF VerdictInv
<1>5. CASE Resubmit
  <2>1. /\ \A o : BehindWatermark(o)' <=> BehindWatermark(o)
        /\ UNCHANGED <<source, out, durable>> /\ job' = FreshJob /\ ckpt' = FreshJob
        /\ wm' = NoWatermark
    BY <1>5, SourceKeeps DEF Resubmit
  <2>2. FreshJob.position = 0 /\ FreshJob.seen = {} /\ FreshJob.windowWm = NoWatermark
    BY DEF FreshJob
  <2>3. WatermarkInv' /\ SeenInv'
    BY <2>1, <2>2 DEF WatermarkInv, SeenInv
  <2>4. (\A o \in Offsets : IsLate(o) => BehindWatermark(o))'
    BY <2>1 DEF VerdictInv, IsLate, Offsets
  <2>5. LateCovered(out, job)' /\ LateCovered(durable, ckpt)'
    BY <2>1, <2>2 DEF LateCovered
  <2> QED
    BY <2>3, <2>4, <2>5 DEF VerdictInv
<1> QED
    BY <1>1, <1>2, <1>3, <1>4, <1>5, StepKinds

LEMMA VerdictStart ==
    ASSUME Init
    PROVE  VerdictInv
<1>1. /\ job = FreshJob /\ ckpt = FreshJob /\ wm = NoWatermark
      /\ source = << >> /\ Len(source) = 0
    BY DEF Init
<1>2. FreshJob.position = 0 /\ FreshJob.seen = {} /\ FreshJob.windowWm = NoWatermark
    BY DEF FreshJob
<1>3. Offsets = {}
    BY <1>1 DEF Offsets
<1> QED
    BY <1>1, <1>2, <1>3 DEF VerdictInv, WatermarkInv, SeenInv, LateCovered

\* An accepted event is audited as late exactly if a record before it in the
\* topic puts it at or behind the watermark, in every submission alike.
THEOREM LateExactly == Spec /\ NoRestore => []LateIffBehind
<1>1. Init => NoLossInv /\ VerdictInv
    BY VerdictStart, NoOutputsCover DEF Init, NoLossInv, Extends
<1>2. TypeOK /\ NoLossInv /\ VerdictInv /\ [Next]_vars /\ [~Restart]_vars
        => NoLossInv' /\ VerdictInv'
  <2> SUFFICES ASSUME TypeOK, NoLossInv, VerdictInv, [Next]_vars, [~Restart]_vars
               PROVE  NoLossInv' /\ VerdictInv'
    OBVIOUS
  <2>1. ~Restart
    <3>1. vars' = vars => status' = status
        BY DEF vars
    <3> QED
        BY <3>1 DEF Restart
  <2> QED
    BY <2>1, NoLossStep, VerdictStep
<1>3. VerdictInv => LateIffBehind
    BY DEF VerdictInv, LateIffBehind, LateCovered, IsLate, Offsets
<1> QED
    BY <1>1, <1>2, <1>3, TypeCorrect, PTL DEF Spec, NoRestore

-----------------------------------------------------------------------------
(* What is written out when windows close. *)

LEMMA Concatenated ==
    ASSUME NEW S, NEW T, NEW s \in Seq(S), NEW f \in Seq(T)
    PROVE  /\ Len(s) \in Nat /\ Len(f) \in Nat
           /\ DOMAIN s = 1..Len(s) /\ DOMAIN f = 1..Len(f)
           /\ DOMAIN (s \o f) = 1..(Len(s) + Len(f))
           /\ \A i \in DOMAIN s : i \in DOMAIN (s \o f) /\ (s \o f)[i] = s[i]
           /\ \A i \in DOMAIN f : /\ Len(s) + i \in DOMAIN (s \o f)
                                  /\ (s \o f)[Len(s) + i] = f[i]
           /\ \A i \in DOMAIN (s \o f) :
                 \/ i \in DOMAIN s
                 \/ i - Len(s) \in DOMAIN f /\ (s \o f)[i] = f[i - Len(s)]
<1>1. /\ s \in Seq(S \cup T) /\ f \in Seq(S \cup T)
      /\ Len(s) \in Nat /\ Len(f) \in Nat
      /\ DOMAIN s = 1..Len(s) /\ DOMAIN f = 1..Len(f)
    BY SeqMonotonic, LenProperties
<1>2. /\ s \o f \in Seq(S \cup T) /\ Len(s \o f) = Len(s) + Len(f)
      /\ \A i \in 1..(Len(s) + Len(f)) :
            (s \o f)[i] = IF i <= Len(s) THEN s[i] ELSE f[i - Len(s)]
    BY <1>1, ConcatProperties
<1>3. DOMAIN (s \o f) = 1..(Len(s) + Len(f))
    BY <1>2, LenProperties
<1> DEFINE t == s \o f
<1> HIDE DEF t
<1>4. /\ DOMAIN t = 1..(Len(s) + Len(f))
      /\ \A i \in 1..(Len(s) + Len(f)) : t[i] = IF i <= Len(s) THEN s[i] ELSE f[i - Len(s)]
    BY <1>2, <1>3 DEF t
<1>5. \A i \in DOMAIN s : i \in DOMAIN t /\ t[i] = s[i]
    BY <1>1, <1>4
<1>6. ASSUME NEW i \in DOMAIN f
      PROVE  Len(s) + i \in DOMAIN t /\ t[Len(s) + i] = f[i]
  <2>1. PICK j : j = Len(s) + i
    OBVIOUS
  <2>2. j \in 1..(Len(s) + Len(f)) /\ ~(j <= Len(s)) /\ j - Len(s) = i
    BY <1>1, <2>1
  <2>3. t[j] = f[i]
    BY <1>4, <2>2
  <2> QED
    BY <1>4, <2>1, <2>2, <2>3
<1>7. ASSUME NEW i \in DOMAIN t, i \notin DOMAIN s
      PROVE  i - Len(s) \in DOMAIN f /\ t[i] = f[i - Len(s)]
  <2>1. i \in 1..(Len(s) + Len(f)) /\ ~(i <= Len(s))
    BY <1>1, <1>4, <1>7
  <2>2. i - Len(s) \in DOMAIN f
    BY <1>1, <2>1
  <2> QED
    BY <1>4, <2>1, <2>2
<1> QED
    BY <1>1, <1>3, <1>5, <1>6, <1>7 DEF t

Appends(t, s, f) ==
    /\ \A i \in DOMAIN s : i \in DOMAIN t /\ t[i] = s[i]
    /\ \A i \in DOMAIN f : \E j \in DOMAIN t : t[j] = f[i]
    /\ \A i \in DOMAIN t : i \in DOMAIN s \/ \E j \in DOMAIN f : t[i] = f[j]

LEMMA Appended ==
    ASSUME NEW S, NEW T, NEW s \in Seq(S), NEW f \in Seq(T), NEW t, t = s \o f
    PROVE  Appends(t, s, f)
<1>1. \A i \in DOMAIN s : i \in DOMAIN t /\ t[i] = s[i]
    BY Concatenated
<1>2. \A i \in DOMAIN f : Len(s) + i \in DOMAIN t /\ t[Len(s) + i] = f[i]
    BY Concatenated
<1>3. \A i \in DOMAIN t : i \in DOMAIN s \/ (i - Len(s) \in DOMAIN f /\ t[i] = f[i - Len(s)])
    BY Concatenated
<1> QED
    BY <1>1, <1>2, <1>3 DEF Appends

LEMMA RowsHold ==
    ASSUME NEW S
    PROVE  /\ \A o \in S : \E r \in FeatureRows(S) : o \in r.events
           /\ \A o \in S : \E r \in MetricRows(S) : o \in r.events
           /\ \A r \in FeatureRows(S) : r.events \subseteq S
           /\ \A r \in MetricRows(S) : r.events \subseteq S
<1>1. \A o \in S : \E r \in FeatureRows(S) : o \in r.events
  <2> SUFFICES ASSUME NEW o \in S
               PROVE  \E r \in FeatureRows(S) : o \in r.events
    OBVIOUS
  <2>1. PICK r : r = [user |-> source[o].user, end |-> WindowEnd(source[o]),
                      events |-> {p \in S : /\ source[p].user = source[o].user
                                            /\ WindowEnd(source[p]) = WindowEnd(source[o])}]
    OBVIOUS
  <2>2. r \in FeatureRows(S)
    BY <2>1 DEF FeatureRows
  <2>3. o \in r.events
    BY <2>1
  <2> QED
    BY <2>2, <2>3
<1>2. \A o \in S : \E r \in MetricRows(S) : o \in r.events
  <2> SUFFICES ASSUME NEW o \in S
               PROVE  \E r \in MetricRows(S) : o \in r.events
    OBVIOUS
  <2>1. PICK r : r = [item |-> source[o].item, category |-> source[o].category,
                      end |-> WindowEnd(source[o]),
                      events |-> {p \in S : /\ source[p].item = source[o].item
                                            /\ source[p].category = source[o].category
                                            /\ WindowEnd(source[p]) = WindowEnd(source[o])}]
    OBVIOUS
  <2>2. r \in MetricRows(S)
    BY <2>1 DEF MetricRows
  <2>3. o \in r.events
    BY <2>1
  <2> QED
    BY <2>2, <2>3
<1>3. \A r \in FeatureRows(S) : r.events \subseteq S
    BY DEF FeatureRows
<1>4. \A r \in MetricRows(S) : r.events \subseteq S
    BY DEF MetricRows
<1> QED
    BY <1>1, <1>2, <1>3, <1>4

LEMMA DueType ==
    ASSUME TypeOK, Process
    PROVE  /\ Aggregated \in SUBSET Offsets /\ Due \in SUBSET Offsets
           /\ IsFiniteSet(Due)
           /\ IsFiniteSet(FeatureRows(Due)) /\ IsFiniteSet(MetricRows(Due))
<1>1. Aggregated \in SUBSET Offsets
    BY ReadWindows, HandledType DEF Aggregated, TypeOK, JobState
<1>2. Due \in SUBSET Offsets
    BY <1>1 DEF Due
<1>3. IsFiniteSet(Offsets)
  <2>1. Len(source) \in Int /\ 1 \in Int
    BY CartType
  <2> QED
    BY <2>1, FS_Interval DEF Offsets
<1>4. IsFiniteSet(Due)
    BY <1>2, <1>3, FS_Subset
<1> QED
    BY <1>1, <1>2, <1>4, RowsFinite

LEMMA ReadPlaces ==
    ASSUME TypeOK, Process
    PROVE  /\ \A o \in Due : InFeatures(o)' /\ InMetrics(o)'
           /\ \A o : InFeatures(o) => InFeatures(o)'
           /\ \A o : InMetrics(o) => InMetrics(o)'
           /\ \A i \in DOMAIN out'.features :
                 \/ i \in DOMAIN out.features /\ out'.features[i] = out.features[i]
                 \/ out'.features[i] \in FeatureRows(Due)
           /\ \A i \in DOMAIN out'.metrics :
                 \/ i \in DOMAIN out.metrics /\ out'.metrics[i] = out.metrics[i]
                 \/ out'.metrics[i] \in MetricRows(Due)
<1>1. PICK f \in Emissions(FeatureRows(Due)), m \in Emissions(MetricRows(Due)) :
          out'.features = out.features \o f /\ out'.metrics = out.metrics \o m
    BY ReadWindows
<1>2. /\ f \in Seq(FeatureRows(Due)) /\ \A i \in DOMAIN f : f[i] \in FeatureRows(Due)
      /\ \A r \in FeatureRows(Due) : \E i \in DOMAIN f : f[i] = r
    BY DueType, EmissionsExact
<1>3. /\ m \in Seq(MetricRows(Due)) /\ \A i \in DOMAIN m : m[i] \in MetricRows(Due)
      /\ \A r \in MetricRows(Due) : \E i \in DOMAIN m : m[i] = r
    BY DueType, EmissionsExact
<1>4. out.features \in Seq(FeatureRow) /\ out.metrics \in Seq(MetricRow)
    BY DEF TypeOK, Outputs
<1>5. Appends(out'.features, out.features, f)
  <2>1. PICK t : t = out.features \o f
    OBVIOUS
  <2>2. Appends(t, out.features, f)
    BY <1>2, <1>4, <2>1, Appended
  <2> QED
    BY <1>1, <2>1, <2>2
<1>6. Appends(out'.metrics, out.metrics, m)
  <2>1. PICK t : t = out.metrics \o m
    OBVIOUS
  <2>2. Appends(t, out.metrics, m)
    BY <1>3, <1>4, <2>1, Appended
  <2> QED
    BY <1>1, <2>1, <2>2
<1>7. ASSUME NEW o \in Due
      PROVE  InFeatures(o)' /\ InMetrics(o)'
  <2>1. PICK r \in FeatureRows(Due) : o \in r.events
    BY RowsHold
  <2>2. PICK i \in DOMAIN out'.features : out'.features[i] = r
    BY <1>2, <1>5 DEF Appends
  <2>3. PICK q \in MetricRows(Due) : o \in q.events
    BY RowsHold
  <2>4. PICK j \in DOMAIN out'.metrics : out'.metrics[j] = q
    BY <1>3, <1>6 DEF Appends
  <2> QED
    BY <2>1, <2>2, <2>3, <2>4 DEF InFeatures, InMetrics
<1>8. \A o : InFeatures(o) => InFeatures(o)'
    BY <1>5 DEF InFeatures, Appends
<1>9. \A o : InMetrics(o) => InMetrics(o)'
    BY <1>6 DEF InMetrics, Appends
<1>10. \A i \in DOMAIN out'.features :
          \/ i \in DOMAIN out.features /\ out'.features[i] = out.features[i]
          \/ out'.features[i] \in FeatureRows(Due)
    BY <1>2, <1>5 DEF Appends
<1>11. \A i \in DOMAIN out'.metrics :
          \/ i \in DOMAIN out.metrics /\ out'.metrics[i] = out.metrics[i]
          \/ out'.metrics[i] \in MetricRows(Due)
    BY <1>3, <1>6 DEF Appends
<1> QED
    BY <1>7, <1>8, <1>9, <1>10, <1>11

\* An on-time event finds its window open.
LEMMA OnTimeBuffered ==
    ASSUME TypeOK, WatermarkInv, Ready, OnTime(Event)
    PROVE  Buffered(At) = job.open \cup {At}
<1>1. At \in Offsets /\ Event = source[At] /\ wm \in Int /\ job.windowWm = wm
    BY CartType DEF Ready, At, Offsets, Event, TypeOK, WatermarkInv
<1>2. source[At] \in Events /\ source[At].time \in Int /\ WatermarkOf(source[At]) > NoWatermark
    BY <1>1, WatermarkType
<1>3. source[At].time > wm
    BY <1>1, <1>2, DelayAssumption, NoWatermarkAssumption DEF OnTime, WatermarkOf
<1>4. ~Closed(source[At], job.windowWm)
    BY <1>1, <1>2, <1>3, ClosedIsBehind
<1> QED
    BY <1>4 DEF Buffered

\* What a failure leaves of the aggregates are rows that had been written.
LEMMA SurvivingRows ==
    ASSUME TypeOK, NEW kept \in Survivors
    PROVE  /\ \A i \in DOMAIN kept.features :
                 i \in DOMAIN out.features /\ kept.features[i] = out.features[i]
           /\ \A i \in DOMAIN kept.metrics :
                 i \in DOMAIN out.metrics /\ kept.metrics[i] = out.metrics[i]
<1>1. ASSUME NEW T, NEW s \in Seq(T), NEW n \in 0..Len(s)
      PROVE  \A i \in DOMAIN SubSeq(s, 1, n) : i \in DOMAIN s /\ SubSeq(s, 1, n)[i] = s[i]
    BY SubSeqProperties, LenProperties
<1>2. /\ out.features \in Seq(FeatureRow) /\ durable.features \in Seq(FeatureRow)
      /\ out.metrics \in Seq(MetricRow) /\ durable.metrics \in Seq(MetricRow)
    BY DEF TypeOK, Outputs
<1>3. /\ Len(durable.features) \in Nat /\ Len(durable.metrics) \in Nat
      /\ Len(out.features) \in Nat /\ Len(out.metrics) \in Nat
    BY <1>2, LenProperties
<1>4. /\ \E n \in 0..Len(out.features) : kept.features = SubSeq(out.features, 1, n)
      /\ \E n \in 0..Len(out.metrics) : kept.metrics = SubSeq(out.metrics, 1, n)
    BY <1>3 DEF Survivors
<1> QED
    BY <1>1, <1>2, <1>4

LEMMA PlacedStep ==
    ASSUME TypeOK, VerdictInv, PlacedInv, [Next]_vars, ~Restart
    PROVE  PlacedInv'
<1>1. CASE \E e \in Events : Produce(e)
  <2>1. PICK e \in Events : Produce(e)
    BY <1>1
  <2>2. /\ \A o \in Offsets : FirstOccurrence(o)' <=> FirstOccurrence(o)
        /\ \A o \in Offsets : BehindWatermark(o)' <=> BehindWatermark(o)
        /\ UNCHANGED <<job, out, status>>
    BY <2>1, ProduceKeeps, ProduceKeepsBehind
  <2>3. /\ job.open \subseteq Offsets /\ 1..job.position \subseteq Offsets
        /\ \A i \in DOMAIN out.features : out.features[i].events \subseteq Offsets
    <3>1. out.features \in Seq(FeatureRow)
        BY DEF TypeOK, Outputs
    <3>2. \A i \in DOMAIN out.features : out.features[i] \in FeatureRow
        BY <3>1, ElementOfSeq, LenProperties
    <3>3. \A i \in DOMAIN out.features : out.features[i].events \subseteq Offsets
        BY <3>2 DEF FeatureRow
    <3>4. job.open \subseteq Offsets
        BY DEF TypeOK, JobState
    <3>5. 1..job.position \subseteq Offsets
        BY CartType DEF Offsets
    <3> QED
        BY <3>3, <3>4, <3>5
  <2>4. \A o : (InFeatures(o)' <=> InFeatures(o)) /\ (InMetrics(o)' <=> InMetrics(o))
    BY <2>2 DEF InFeatures, InMetrics
  <2> QED
    BY <2>2, <2>3, <2>4 DEF PlacedInv
<1>2. CASE Process
  <2>1. /\ Ready /\ At \in Offsets /\ UNCHANGED <<source, status>>
        /\ job'.position = At /\ job'.open = Aggregated \ Due
    BY <1>2, ReadWindows
  <2>2. /\ job.position \in Nat /\ At = job.position + 1 /\ 1..At = (1..job.position) \cup {At}
        /\ status = "RUNNING"
    BY <2>1, CartType DEF Ready, At
  <2>3. /\ \A o : BehindWatermark(o)' <=> BehindWatermark(o)
        /\ \A o : FirstOccurrence(o)' <=> FirstOccurrence(o)
    BY <2>1, SourceKeeps
  <2>4. OnTime(Event) <=> ~BehindWatermark(At)
    BY <2>1, Verdict DEF VerdictInv
  <2>5. FirstOccurrence(At) => Accepts
    BY <2>1, FirstAccepted DEF VerdictInv
  <2>6. Aggregated = IF Accepts /\ OnTime(Event) THEN job.open \cup {At} ELSE job.open
    BY <2>1, OnTimeBuffered DEF Aggregated, VerdictInv
  <2>7. \A o \in Aggregated : ~BehindWatermark(o)
    BY <2>2, <2>4, <2>6 DEF PlacedInv
  <2>8. Due \subseteq Aggregated
    BY DEF Due
  <2>9. \A i \in DOMAIN out'.features : \A o \in out'.features[i].events : ~BehindWatermark(o)
    <3> SUFFICES ASSUME NEW i \in DOMAIN out'.features, NEW o \in out'.features[i].events
                 PROVE  ~BehindWatermark(o)
        OBVIOUS
    <3>1. CASE i \in DOMAIN out.features /\ out'.features[i] = out.features[i]
        BY <3>1 DEF PlacedInv
    <3>2. CASE out'.features[i] \in FeatureRows(Due)
        BY <2>7, <2>8, <3>2, RowsHold
    <3> QED
        BY <1>2, <3>1, <3>2, ReadPlaces
  <2>10. ASSUME NEW o \in 1..At, FirstOccurrence(o), ~BehindWatermark(o)
         PROVE  o \in Aggregated \ Due \/ (InFeatures(o)' /\ InMetrics(o)')
    <3>1. o \in Aggregated \/ (InFeatures(o) /\ InMetrics(o))
        BY <2>2, <2>4, <2>5, <2>6, <2>10 DEF PlacedInv
    <3> QED
        BY <1>2, <3>1, ReadPlaces
  <2>11. (\A i \in DOMAIN out.features : \A o \in out.features[i].events : ~BehindWatermark(o))'
    BY <2>3, <2>9
  <2>12. (\A o \in job.open : ~BehindWatermark(o))'
    BY <2>1, <2>3, <2>7
  <2>13. (\A o \in 1..job.position : FirstOccurrence(o) /\ ~BehindWatermark(o) =>
              o \in job.open \/ (InFeatures(o) /\ InMetrics(o)))'
    BY <2>1, <2>3, <2>10
  <2> QED
    BY <2>11, <2>12, <2>13 DEF PlacedInv
<1>3. CASE Quiet
  <2>1. /\ \A o : BehindWatermark(o)' <=> BehindWatermark(o)
        /\ \A o : FirstOccurrence(o)' <=> FirstOccurrence(o)
        /\ UNCHANGED <<out, status>>
        /\ job'.position = job.position /\ job'.open = job.open
    BY <1>3, SourceKeeps DEF Quiet
  <2> QED
    BY <2>1 DEF PlacedInv, InFeatures, InMetrics
<1>4. CASE Fails
  <2>1. PICK kept \in Survivors : out' = kept
    BY <1>4 DEF Fails
  <2>2. /\ \A o : BehindWatermark(o)' <=> BehindWatermark(o)
        /\ status' # "RUNNING"
    BY <1>4, SourceKeeps DEF Fails
  <2> QED
    BY <2>1, <2>2, SurvivingRows DEF PlacedInv
<1>5. CASE Resubmit
  <2>1. /\ \A o : BehindWatermark(o)' <=> BehindWatermark(o)
        /\ UNCHANGED out /\ job' = FreshJob
    BY <1>5, SourceKeeps DEF Resubmit
  <2>2. FreshJob.position = 0 /\ FreshJob.open = {}
    BY DEF FreshJob
  <2> QED
    BY <2>1, <2>2 DEF PlacedInv
<1> QED
    BY <1>1, <1>2, <1>3, <1>4, <1>5, StepKinds

LEMMA PlacedStart ==
    ASSUME Init
    PROVE  PlacedInv
<1>1. job.position = 0 /\ job.open = {} /\ out.features = << >> /\ DOMAIN out.features = {}
    BY DEF Init, FreshJob, NoOutputs
<1> QED
    BY <1>1 DEF PlacedInv

LEMMA ExactStart ==
    ASSUME Init
    PROVE  NoLossInv /\ ExactInv
<1>1. Remembers(FreshJob)
    BY DEF Remembers, FreshJob, ValidRead
<1> QED
    BY <1>1, NoOutputsCover DEF Init, NoLossInv, ExactInv, Extends, NoOutputs

LEMMA NotRestored ==
    ASSUME [~Restart]_vars
    PROVE  ~Restart
<1>1. vars' = vars => status' = status
    BY DEF vars
<1> QED
    BY <1>1 DEF Restart

LEMMA PlacedOnce ==
    ASSUME TypeOK, VerdictInv, PlacedInv, status = "RUNNING",
           NEW o \in 1..job.position, FirstOccurrence(o)
    PROVE  IsLate(o) <=> ~(o \in job.open \/ (InFeatures(o) /\ InMetrics(o)))
<1>1. IsLate(o) <=> BehindWatermark(o)
    BY CartType DEF VerdictInv, LateCovered, IsLate, Offsets
<1>2. (o \in job.open \/ (InFeatures(o) /\ InMetrics(o))) <=> ~BehindWatermark(o)
    BY DEF PlacedInv, InFeatures
<1> QED
    BY <1>1, <1>2

LEMMA PlacedHolds ==
    ASSUME TypeOK, VerdictInv, PlacedInv
    PROVE  AcceptedIsPlaced
<1> SUFFICES ASSUME status = "RUNNING",
                    NEW o \in 1..job.position, FirstOccurrence(o)
             PROVE  IsLate(o) # (o \in job.open \/ (InFeatures(o) /\ InMetrics(o)))
    BY DEF AcceptedIsPlaced
<1>1. IsLate(o) <=> ~(o \in job.open \/ (InFeatures(o) /\ InMetrics(o)))
    BY PlacedOnce
<1> QED
    BY <1>1

\* Every accepted event the running job has read is late, or in an open
\* window, or in both aggregates, and never late and counted.
THEOREM Placement == Spec /\ NoRestore => []AcceptedIsPlaced
<1>1. Init => NoLossInv /\ VerdictInv /\ PlacedInv
    BY VerdictStart, PlacedStart, NoOutputsCover DEF Init, NoLossInv, Extends
<1>2. TypeOK /\ NoLossInv /\ VerdictInv /\ PlacedInv /\ [Next]_vars /\ [~Restart]_vars
        => NoLossInv' /\ VerdictInv' /\ PlacedInv'
    BY NotRestored, NoLossStep, VerdictStep, PlacedStep
<1>3. TypeOK /\ VerdictInv /\ PlacedInv => AcceptedIsPlaced
    BY PlacedHolds
<1> QED
    BY <1>1, <1>2, <1>3, TypeCorrect, PTL DEF Spec, NoRestore

-----------------------------------------------------------------------------
(* What has been written for a window is all there is to it. *)

LEMMA WholeKeeps ==
    ASSUME UNCHANGED source
    PROVE  /\ \A o : Counted(o)' <=> Counted(o)
           /\ \A row : WholeFeature(row)' <=> WholeFeature(row)
           /\ \A row : WholeMetric(row)' <=> WholeMetric(row)
<1>1. \A o : Counted(o)' <=> Counted(o)
    BY SourceKeeps DEF Counted
<1>2. Offsets' = Offsets
    BY DEF Offsets
<1>3. \A end : Past(end)' <=> Past(end)
    BY <1>2 DEF Past, WatermarkOf
<1>4. \A row : WholeFeature(row)' <=> WholeFeature(row)
    BY <1>1, <1>2, <1>3 DEF WholeFeature
<1>5. \A row : WholeMetric(row)' <=> WholeMetric(row)
    BY <1>1, <1>2, <1>3 DEF WholeMetric
<1> QED
    BY <1>1, <1>4, <1>5

\* A record of a window that is past comes behind the watermark.
LEMMA PastIsBehind ==
    ASSUME TypeOK, NEW o \in Offsets, NEW q \in Offsets, q < o,
           WindowEnd(source[o]) - 1 <= WatermarkOf(source[q])
    PROVE  BehindWatermark(o)
<1>1. /\ source[o] \in Events /\ source[o].time \in Int /\ WatermarkOf(source[q]) \in Int
    BY WatermarkType
<1>2. WindowEnd(source[o]) \in Int /\ source[o].time < WindowEnd(source[o])
    BY <1>1, WindowContains
<1>3. source[o].time <= WatermarkOf(source[q])
    BY <1>1, <1>2
<1>4. q \in 1..(o - 1)
    BY CartType DEF Offsets
<1> QED
    BY <1>3, <1>4 DEF BehindWatermark

\* The open windows hold what has been read of them, the due ones all of it.
LEMMA ReadWhole ==
    ASSUME TypeOK, Remembers(job), WatermarkInv, Process,
           job.open = {o \in 1..job.position :
                          Counted(o) /\ ~Closed(source[o], job.windowWm)}
    PROVE  /\ job'.open = {o \in 1..At : Counted(o) /\ ~Closed(source[o], NewWindowWm)}
           /\ \A r \in FeatureRows(Due) : WholeFeature(r)
           /\ \A r \in MetricRows(Due) : WholeMetric(r)
<1>1. /\ Ready /\ At \in Offsets /\ Event = source[At] /\ job'.open = Aggregated \ Due
    BY ReadWindows DEF Event
<1>2. /\ job.position \in Nat /\ At = job.position + 1 /\ 1..At = (1..job.position) \cup {At}
      /\ At \notin 1..job.position /\ 1..At \subseteq Offsets
  <2>1. job.position \in Nat /\ Len(source) \in Nat /\ At = job.position + 1
        /\ At \in 1..Len(source)
    BY <1>1, CartType DEF At, Offsets
  <2>2. 1..At = (1..job.position) \cup {At}
    BY <2>1
  <2>3. At \notin 1..job.position /\ 1..At \subseteq Offsets
    BY <2>1 DEF Offsets
  <2> QED
    BY <2>1, <2>2, <2>3
<1>3. Accepts /\ OnTime(Event) <=> Counted(At)
    BY <1>1, AcceptsFirst, Verdict DEF Counted
<1>4. \A o \in Offsets : /\ source[o] \in Events /\ source[o].time \in Int
                         /\ WindowEnd(source[o]) \in Int
    BY WatermarkType, WindowContains
<1>5. /\ NewWindowWm \in Int /\ job.windowWm \in Int /\ job.windowWm <= NewWindowWm
    BY ReadWatermark
<1>6. PICK q \in Offsets : NewWindowWm = WatermarkOf(source[q]) /\ q <= At
    BY ReadWatermark
<1>7. Counted(At) => ~Closed(source[At], job.windowWm)
  <2> SUFFICES ASSUME Counted(At), Closed(source[At], job.windowWm)
               PROVE  FALSE
    OBVIOUS
  <2>1. OnTime(Event)
    BY <1>3
  <2>2. Buffered(At) = job.open \cup {At}
    BY <1>1, <2>1, OnTimeBuffered
  <2>3. Buffered(At) = job.open
    BY DEF Buffered
  <2> QED
    BY <1>2, <2>2, <2>3
<1>8. Aggregated = {o \in 1..At : Counted(o) /\ ~Closed(source[o], job.windowWm)}
  <2>1. CASE Counted(At)
    <3>1. Aggregated = job.open \cup {At}
        BY <1>1, <1>3, <2>1, OnTimeBuffered DEF Aggregated
    <3> QED
        BY <1>2, <1>7, <2>1, <3>1
  <2>2. CASE ~Counted(At)
    <3>1. Aggregated = job.open
        BY <1>3, <2>2 DEF Aggregated
    <3> QED
        BY <1>2, <2>2, <3>1
  <2> QED
    BY <2>1, <2>2
<1>9. \A o \in 1..At : Closed(source[o], job.windowWm) => Closed(source[o], NewWindowWm)
    BY <1>2, <1>4, <1>5 DEF Closed
<1>10. Due = {o \in 1..At : /\ Counted(o) /\ ~Closed(source[o], job.windowWm)
                            /\ Closed(source[o], NewWindowWm)}
    BY <1>8 DEF Due
<1>11. job'.open = {o \in 1..At : Counted(o) /\ ~Closed(source[o], NewWindowWm)}
    BY <1>1, <1>8, <1>9, <1>10
<1>12. ASSUME NEW o \in Due, NEW p \in Offsets, Counted(p),
              WindowEnd(source[p]) = WindowEnd(source[o])
       PROVE  p \in Due
  <2>1. WindowEnd(source[p]) - 1 <= NewWindowWm
        /\ ~(WindowEnd(source[p]) - 1 <= job.windowWm)
    BY <1>10, <1>12 DEF Closed
  <2>2. p \in 1..At
    <3> SUFFICES ASSUME p \notin 1..At
                 PROVE  FALSE
        OBVIOUS
    <3>1. q < p
        BY <1>1, <1>6, CartType DEF Offsets
    <3>2. BehindWatermark(p)
        BY <1>6, <2>1, <3>1, PastIsBehind
    <3> QED
        BY <1>12, <3>2 DEF Counted
  <2> QED
    BY <1>10, <1>12, <2>1, <2>2 DEF Closed
<1>13. \A o \in Due : o \in Offsets /\ Counted(o) /\ Past(WindowEnd(source[o]))
    BY <1>2, <1>6, <1>10 DEF Past, Closed
<1>14. \A r \in FeatureRows(Due) : WholeFeature(r)
  <2> SUFFICES ASSUME NEW r \in FeatureRows(Due)
               PROVE  WholeFeature(r)
    OBVIOUS
  <2>1. PICK o \in Due :
            r = [user |-> source[o].user, end |-> WindowEnd(source[o]),
                 events |-> {p \in Due : /\ source[p].user = source[o].user
                                         /\ WindowEnd(source[p]) = WindowEnd(source[o])}]
    BY DEF FeatureRows
  <2>2. /\ r.user = source[o].user /\ r.end = WindowEnd(source[o])
        /\ r.events = {p \in Due : /\ source[p].user = source[o].user
                                   /\ WindowEnd(source[p]) = WindowEnd(source[o])}
    BY <2>1
  <2>3. r.events = {p \in Offsets : /\ Counted(p) /\ source[p].user = r.user
                                    /\ WindowEnd(source[p]) = r.end}
    BY <1>12, <1>13, <2>2
  <2> QED
    BY <1>13, <2>2, <2>3 DEF WholeFeature
<1>15. \A r \in MetricRows(Due) : WholeMetric(r)
  <2> SUFFICES ASSUME NEW r \in MetricRows(Due)
               PROVE  WholeMetric(r)
    OBVIOUS
  <2>1. PICK o \in Due :
            r = [item |-> source[o].item, category |-> source[o].category,
                 end |-> WindowEnd(source[o]),
                 events |-> {p \in Due : /\ source[p].item = source[o].item
                                         /\ source[p].category = source[o].category
                                         /\ WindowEnd(source[p]) = WindowEnd(source[o])}]
    BY DEF MetricRows
  <2>2. /\ r.item = source[o].item /\ r.category = source[o].category
        /\ r.end = WindowEnd(source[o])
        /\ r.events = {p \in Due : /\ source[p].item = source[o].item
                                   /\ source[p].category = source[o].category
                                   /\ WindowEnd(source[p]) = WindowEnd(source[o])}
    BY <2>1
  <2>3. r.events = {p \in Offsets : /\ Counted(p) /\ source[p].item = r.item
                                    /\ source[p].category = r.category
                                    /\ WindowEnd(source[p]) = r.end}
    BY <1>12, <1>13, <2>2
  <2> QED
    BY <1>13, <2>2, <2>3 DEF WholeMetric
<1> QED
    BY <1>11, <1>14, <1>15

\* A record that arrives for a window already written is behind the watermark.
LEMMA ProduceKeepsWhole ==
    ASSUME TypeOK, NEW e \in Events, Produce(e)
    PROVE  /\ \A o \in Offsets : Counted(o)' <=> Counted(o)
           /\ \A row : WholeFeature(row) => WholeFeature(row)'
           /\ \A row : WholeMetric(row) => WholeMetric(row)'
<1>1. /\ Offsets \subseteq Offsets' /\ Len(source') = Len(source) + 1
      /\ \A o \in Offsets : source'[o] = source[o]
      /\ \A o \in Offsets : FirstOccurrence(o)' <=> FirstOccurrence(o)
    BY ProduceKeeps
<1>2. \A o \in Offsets : Counted(o)' <=> Counted(o)
    BY <1>1, ProduceKeepsBehind DEF Counted
<1>3. \A q \in Offsets : WatermarkOf(source'[q]) = WatermarkOf(source[q])
    BY <1>1
<1>4. TypeOK'
    BY TypeStep DEF Next
<1>5. ASSUME NEW end, Past(end), NEW o \in Offsets', o \notin Offsets,
             WindowEnd(source'[o]) = end
      PROVE  ~Counted(o)'
  <2>1. PICK q \in Offsets : end - 1 <= WatermarkOf(source[q])
    BY <1>5 DEF Past
  <2>2. q < o /\ q \in Offsets'
    BY <1>1, <1>5, CartType DEF Offsets
  <2>3. /\ source'[o] \in Events /\ source'[o].time \in Int
    <3>1. \A p \in Offsets' : source'[p] \in Events
        BY <1>4, ElementOfSeq DEF TypeOK, Offsets
    <3>2. \A p \in Events : p.time \in Int
        BY EventsAssumption
    <3> QED
        BY <3>1, <3>2
  <2>4. WindowEnd(source'[o]) \in Int /\ source'[o].time < WindowEnd(source'[o])
    BY <2>3, WindowContains
  <2>5. WatermarkOf(source'[q]) = WatermarkOf(source[q]) /\ WatermarkOf(source[q]) \in Int
    BY <1>3, WatermarkType
  <2>6. source'[o].time <= WatermarkOf(source'[q])
    BY <1>5, <2>1, <2>3, <2>4, <2>5
  <2>7. q \in 1..(o - 1)
    BY <1>1, <2>2, CartType DEF Offsets
  <2>8. BehindWatermark(o)'
    BY <2>6, <2>7 DEF BehindWatermark, WatermarkOf
  <2> QED
    BY <2>8 DEF Counted
<1>6. \A end : Past(end) => Past(end)'
    BY <1>1, <1>3 DEF Past, WatermarkOf
<1>7. ASSUME NEW row, WholeFeature(row)
      PROVE  WholeFeature(row)'
  <2>1. row.events = {o \in Offsets' : /\ Counted(o)' /\ source'[o].user = row.user
                                       /\ WindowEnd(source'[o]) = row.end}
    BY <1>1, <1>2, <1>5, <1>7 DEF WholeFeature
  <2> QED
    BY <1>6, <1>7, <2>1 DEF WholeFeature
<1>8. ASSUME NEW row, WholeMetric(row)
      PROVE  WholeMetric(row)'
  <2>1. row.events = {o \in Offsets' : /\ Counted(o)' /\ source'[o].item = row.item
                                       /\ source'[o].category = row.category
                                       /\ WindowEnd(source'[o]) = row.end}
    BY <1>1, <1>2, <1>5, <1>8 DEF WholeMetric
  <2> QED
    BY <1>6, <1>8, <2>1 DEF WholeMetric
<1> QED
    BY <1>2, <1>7, <1>8

LEMMA WholeStep ==
    ASSUME TypeOK, ExactInv, VerdictInv, WholeInv, [Next]_vars, ~Restart
    PROVE  WholeInv'
<1> SUFFICES ASSUME expiries' = 0
             PROVE  WholeInv'
    BY DEF WholeInv
<1>0. expiries = 0
    BY ExpiriesGrow
<1>1. CASE \E e \in Events : Produce(e)
  <2>1. PICK e \in Events : Produce(e)
    BY <1>1
  <2>2. /\ UNCHANGED <<job, out, status>> /\ \A o \in Offsets : source'[o] = source[o]
    BY <2>1, ProduceKeeps
  <2>3. 1..job.position \subseteq Offsets
    BY CartType DEF Offsets
  <2>4. \A o \in Offsets : Counted(o)' <=> Counted(o)
    BY <2>1, ProduceKeepsWhole
  <2>5. (status = "RUNNING" =>
              job.open = {o \in 1..job.position :
                              Counted(o) /\ ~Closed(source[o], job.windowWm)})'
    BY <1>0, <2>2, <2>3, <2>4 DEF WholeInv, Closed
  <2>6. (\A i \in DOMAIN out.features : WholeFeature(out.features[i]))'
    BY <1>0, <2>1, <2>2, ProduceKeepsWhole DEF WholeInv
  <2>7. (\A i \in DOMAIN out.metrics : WholeMetric(out.metrics[i]))'
    BY <1>0, <2>1, <2>2, ProduceKeepsWhole DEF WholeInv
  <2> QED
    BY <2>5, <2>6, <2>7 DEF WholeInv
<1>2. CASE Process
  <2>1. /\ UNCHANGED <<source, status>> /\ status = "RUNNING"
        /\ job'.position = At /\ job'.windowWm = NewWindowWm
    BY <1>2, ReadWindows DEF Ready
  <2>2. /\ job'.open = {o \in 1..At : Counted(o) /\ ~Closed(source[o], NewWindowWm)}
        /\ \A r \in FeatureRows(Due) : WholeFeature(r)
        /\ \A r \in MetricRows(Due) : WholeMetric(r)
    BY <1>0, <1>2, <2>1, ReadWhole DEF ExactInv, VerdictInv, WholeInv
  <2>3. \A i \in DOMAIN out'.features : WholeFeature(out'.features[i])
    BY <1>0, <1>2, <2>2, ReadPlaces DEF WholeInv
  <2>4. \A i \in DOMAIN out'.metrics : WholeMetric(out'.metrics[i])
    BY <1>0, <1>2, <2>2, ReadPlaces DEF WholeInv
  <2>5. (job.open = {o \in 1..job.position :
                        Counted(o) /\ ~Closed(source[o], job.windowWm)})'
    BY <2>1, <2>2, WholeKeeps DEF Closed
  <2>6. (\A i \in DOMAIN out.features : WholeFeature(out.features[i]))'
    BY <2>1, <2>3, WholeKeeps
  <2>7. (\A i \in DOMAIN out.metrics : WholeMetric(out.metrics[i]))'
    BY <2>1, <2>4, WholeKeeps
  <2> QED
    BY <2>5, <2>6, <2>7 DEF WholeInv
<1>3. CASE Quiet
  <2>1. /\ UNCHANGED <<source, out, status>>
        /\ job'.position = job.position /\ job'.open = job.open
        /\ job'.windowWm = job.windowWm
    BY <1>3 DEF Quiet
  <2>5. (status = "RUNNING" =>
              job.open = {o \in 1..job.position :
                              Counted(o) /\ ~Closed(source[o], job.windowWm)})'
    BY <1>0, <2>1, WholeKeeps DEF WholeInv, Closed
  <2>6. (\A i \in DOMAIN out.features : WholeFeature(out.features[i]))'
    BY <1>0, <2>1, WholeKeeps DEF WholeInv
  <2>7. (\A i \in DOMAIN out.metrics : WholeMetric(out.metrics[i]))'
    BY <1>0, <2>1, WholeKeeps DEF WholeInv
  <2> QED
    BY <2>5, <2>6, <2>7 DEF WholeInv
<1>4. CASE Fails
  <2>1. PICK kept \in Survivors : out' = kept
    BY <1>4 DEF Fails
  <2>2. UNCHANGED source /\ status' # "RUNNING"
    BY <1>4 DEF Fails
  <2>6. (\A i \in DOMAIN out.features : WholeFeature(out.features[i]))'
    BY <1>0, <2>1, <2>2, WholeKeeps, SurvivingRows DEF WholeInv
  <2>7. (\A i \in DOMAIN out.metrics : WholeMetric(out.metrics[i]))'
    BY <1>0, <2>1, <2>2, WholeKeeps, SurvivingRows DEF WholeInv
  <2> QED
    BY <2>2, <2>6, <2>7 DEF WholeInv
<1>5. CASE Resubmit
  <2>1. UNCHANGED <<source, out>> /\ job' = FreshJob
    BY <1>5 DEF Resubmit
  <2>2. FreshJob.position = 0 /\ FreshJob.open = {}
    BY DEF FreshJob
  <2>6. (\A i \in DOMAIN out.features : WholeFeature(out.features[i]))'
    BY <1>0, <2>1, WholeKeeps DEF WholeInv
  <2>7. (\A i \in DOMAIN out.metrics : WholeMetric(out.metrics[i]))'
    BY <1>0, <2>1, WholeKeeps DEF WholeInv
  <2> QED
    BY <2>1, <2>2, <2>6, <2>7 DEF WholeInv
<1> QED
    BY <1>1, <1>2, <1>3, <1>4, <1>5, StepKinds

LEMMA WholeStart ==
    ASSUME Init
    PROVE  WholeInv
<1>1. /\ job.position = 0 /\ job.open = {}
      /\ DOMAIN out.features = {} /\ DOMAIN out.metrics = {}
    BY DEF Init, FreshJob, NoOutputs
<1> QED
    BY <1>1 DEF WholeInv

\* While no dedup entry expires, the rows written for one window and key are
\* equal, whichever submission wrote them and whatever arrived in between.
THEOREM StableWindows == Spec /\ NoRestore => []ClosedWindowStable
<1>1. Init => NoLossInv /\ ExactInv /\ VerdictInv /\ WholeInv
    BY VerdictStart, WholeStart, ExactStart
<1>2. TypeOK /\ NoLossInv /\ ExactInv /\ VerdictInv /\ WholeInv /\ [Next]_vars /\ [~Restart]_vars
        => NoLossInv' /\ ExactInv' /\ VerdictInv' /\ WholeInv'
    BY NotRestored, NoLossStep, ExactStep, VerdictStep, WholeStep
<1>3. WholeInv => ClosedWindowStable
  <2> SUFFICES ASSUME WholeInv, expiries = 0
               PROVE  ClosedWindowStable
    BY DEF ClosedWindowStable
  <2>1. ASSUME NEW a, NEW b, WholeFeature(a), WholeFeature(b), a.user = b.user, a.end = b.end
        PROVE  a.events = b.events
    <3>1. a.events = {o \in Offsets : /\ Counted(o) /\ source[o].user = b.user
                                      /\ WindowEnd(source[o]) = b.end}
        BY <2>1 DEF WholeFeature
    <3> QED
        BY <2>1, <3>1 DEF WholeFeature
  <2>2. ASSUME NEW a, NEW b, WholeMetric(a), WholeMetric(b),
               a.item = b.item, a.category = b.category, a.end = b.end
        PROVE  a.events = b.events
    <3>1. a.events = {o \in Offsets : /\ Counted(o) /\ source[o].item = b.item
                                      /\ source[o].category = b.category
                                      /\ WindowEnd(source[o]) = b.end}
        BY <2>2 DEF WholeMetric
    <3> QED
        BY <2>2, <3>1 DEF WholeMetric
  <2> QED
    BY <2>1, <2>2 DEF WholeInv, ClosedWindowStable
<1> QED
    BY <1>1, <1>2, <1>3, TypeCorrect, PTL DEF Spec, NoRestore

-----------------------------------------------------------------------------
(* Versions increase: of what a submission has not restored, what is written *)
(* is closed and what is open is not.                                        *)

Increasing(rows) ==
    \A i, j \in DOMAIN rows :
        i < j /\ rows[i].user = rows[j].user => rows[i].end < rows[j].end

LEMMA IncreasingMore ==
    ASSUME NEW s \in Seq(FeatureRow), NEW f \in Seq(FeatureRow), NEW t, t = s \o f,
           Increasing(s), Increasing(f), NEW w \in Int,
           \A i \in DOMAIN s : s[i].end - 1 <= w,
           \A j \in DOMAIN f : ~(f[j].end - 1 <= w)
    PROVE  Increasing(t)
<1> SUFFICES ASSUME NEW i \in DOMAIN t, NEW j \in DOMAIN t, i < j, t[i].user = t[j].user
             PROVE  t[i].end < t[j].end
    BY DEF Increasing
<1>1. /\ Len(s) \in Nat /\ Len(f) \in Nat /\ DOMAIN s = 1..Len(s) /\ DOMAIN f = 1..Len(f)
      /\ DOMAIN t = 1..(Len(s) + Len(f))
    BY Concatenated
<1>2. \A n \in DOMAIN s : t[n] = s[n]
    BY Concatenated
<1>3. \A n \in DOMAIN t : n \in DOMAIN s \/ (n - Len(s) \in DOMAIN f /\ t[n] = f[n - Len(s)])
    BY Concatenated
<1>4. /\ \A n \in DOMAIN s : s[n] \in FeatureRow
      /\ \A n \in DOMAIN f : f[n] \in FeatureRow
    BY <1>1, ElementOfSeq
<1>5. (\A n \in DOMAIN s : s[n].end \in Int) /\ (\A n \in DOMAIN f : f[n].end \in Int)
    BY <1>4 DEF FeatureRow
<1>6. CASE j \in DOMAIN s
  <2>1. i \in DOMAIN s
    BY <1>1, <1>6
  <2>2. t[i] = s[i] /\ t[j] = s[j]
    BY <1>2, <1>6, <2>1
  <2> QED
    BY <1>6, <2>1, <2>2 DEF Increasing
<1>7. CASE i \in DOMAIN s /\ j \notin DOMAIN s
  <2>1. t[i] = s[i] /\ j - Len(s) \in DOMAIN f /\ t[j] = f[j - Len(s)]
    BY <1>2, <1>3, <1>7
  <2>2. /\ s[i].end - 1 <= w /\ s[i].end \in Int
        /\ ~(f[j - Len(s)].end - 1 <= w) /\ f[j - Len(s)].end \in Int
    BY <1>5, <1>7, <2>1
  <2>3. s[i].end < f[j - Len(s)].end
    BY <2>2
  <2> QED
    BY <2>1, <2>3
<1>8. CASE i \notin DOMAIN s /\ j \notin DOMAIN s
  <2>1. /\ i - Len(s) \in DOMAIN f /\ t[i] = f[i - Len(s)]
        /\ j - Len(s) \in DOMAIN f /\ t[j] = f[j - Len(s)]
    BY <1>3, <1>8
  <2>2. PICK m \in DOMAIN f, n \in DOMAIN f : m = i - Len(s) /\ n = j - Len(s)
    BY <2>1
  <2>3. m < n
    BY <1>1, <2>2
  <2>4. f[m].user = f[n].user
    BY <2>1, <2>2
  <2>5. f[m].end < f[n].end
    BY <2>3, <2>4 DEF Increasing
  <2> QED
    BY <2>1, <2>2, <2>5
<1> QED
    BY <1>6, <1>7, <1>8

\* One firing writes one row per user and window, in the order of the windows.
LEMMA EmittedIncrease ==
    ASSUME TypeOK, NEW S \in SUBSET Offsets, IsFiniteSet(S),
           NEW f \in Emissions(FeatureRows(S))
    PROVE  f \in Seq(FeatureRow) /\ Increasing(f)
<1>1. FeatureRows(S) \in SUBSET FeatureRow /\ IsFiniteSet(FeatureRows(S))
    BY RowsType, RowsFinite
<1>2. f \in Seq(FeatureRow)
    BY <1>1, EmissionsType
<1>3. /\ \A i \in DOMAIN f : f[i] \in FeatureRows(S)
      /\ \A i, j \in DOMAIN f : i < j => f[i] # f[j] /\ f[i].end <= f[j].end
    BY <1>1, EmissionsExact
<1>4. ASSUME NEW r \in FeatureRows(S), NEW q \in FeatureRows(S),
             r.user = q.user, r.end = q.end
      PROVE  r = q
  <2>1. PICK o \in S :
            r = [user |-> source[o].user, end |-> WindowEnd(source[o]),
                 events |-> {p \in S : /\ source[p].user = source[o].user
                                       /\ WindowEnd(source[p]) = WindowEnd(source[o])}]
    BY DEF FeatureRows
  <2>2. PICK n \in S :
            q = [user |-> source[n].user, end |-> WindowEnd(source[n]),
                 events |-> {p \in S : /\ source[p].user = source[n].user
                                       /\ WindowEnd(source[p]) = WindowEnd(source[n])}]
    BY DEF FeatureRows
  <2>3. source[o].user = source[n].user /\ WindowEnd(source[o]) = WindowEnd(source[n])
    BY <1>4, <2>1, <2>2
  <2> QED
    BY <2>1, <2>2, <2>3
<1>5. \A r \in FeatureRows(S) : r.end \in Int
    BY <1>1 DEF FeatureRow
<1>6. ASSUME NEW i \in DOMAIN f, NEW j \in DOMAIN f, i < j, f[i].user = f[j].user
      PROVE  f[i].end < f[j].end
  <2>1. f[i] # f[j] /\ f[i].end <= f[j].end
    BY <1>3, <1>6
  <2>2. f[i].end # f[j].end
    BY <1>3, <1>4, <1>6, <2>1
  <2>3. f[i].end \in Int /\ f[j].end \in Int
    BY <1>3, <1>5
  <2> QED
    BY <2>1, <2>2, <2>3
<1> QED
    BY <1>2, <1>6 DEF Increasing

\* What is due was open: no window of it had been written.
LEMMA DueIsOpen ==
    ASSUME TypeOK, OpenInv(job), Process
    PROVE  /\ \A o \in Due : /\ o \in Offsets
                             /\ Closed(source[o], NewWindowWm)
                             /\ ~Closed(source[o], job.windowWm)
           /\ \A o \in job'.open : ~Closed(source[o], NewWindowWm)
           /\ NewWindowWm \in Int /\ job.windowWm \in Int /\ job.windowWm <= NewWindowWm
<1>1. \A o \in Aggregated : ~Closed(source[o], job.windowWm)
    BY DEF Aggregated, Buffered, OpenInv
<1>2. /\ \A o \in Due : o \in Aggregated /\ Closed(source[o], NewWindowWm)
      /\ \A o \in job'.open : o \in Aggregated /\ o \notin Due
    BY ReadWindows DEF Due
<1>3. \A o \in Due : o \in Offsets
    BY DueType
<1>4. /\ wm \in Int /\ job.windowWm \in Int /\ WatermarkOf(Event) \in Int
  <2>1. wm \in Int /\ job.windowWm \in Int
    BY DEF TypeOK, JobState
  <2> QED
    BY <2>1, ReadWindows, WatermarkType DEF Event
<1>5. NewWindowWm \in Int /\ job.windowWm <= NewWindowWm
    BY <1>4 DEF NewWindowWm, Later
<1>6. \A o \in job'.open : ~Closed(source[o], NewWindowWm)
    BY <1>2 DEF Due
<1> QED
    BY <1>1, <1>2, <1>3, <1>4, <1>5, <1>6

LEMMA ReadOrders ==
    ASSUME TypeOK, OpenInv(job), Process, Increasing(out.features),
           \A i \in DOMAIN out.features : out.features[i].end - 1 <= job.windowWm
    PROVE  /\ Increasing(out'.features)
           /\ \A i \in DOMAIN out'.features : out'.features[i].end - 1 <= NewWindowWm
<1>1. PICK f \in Emissions(FeatureRows(Due)) : out'.features = out.features \o f
    BY ReadWindows
<1>2. Due \in SUBSET Offsets /\ IsFiniteSet(Due)
    BY DueType
<1>3. f \in Seq(FeatureRow) /\ Increasing(f)
    BY <1>2, EmittedIncrease
<1>4. out.features \in Seq(FeatureRow)
    BY DEF TypeOK, Outputs
<1>5. \A r \in FeatureRows(Due) : \E o \in Due : r.end = WindowEnd(source[o])
    BY DEF FeatureRows
<1>6. \A r \in FeatureRows(Due) : ~(r.end - 1 <= job.windowWm) /\ r.end - 1 <= NewWindowWm
    BY <1>5, DueIsOpen DEF Closed
<1>7. \A i \in DOMAIN f : f[i] \in FeatureRows(Due)
    BY <1>2, RowsFinite, EmissionsExact
<1>8. job.windowWm \in Int /\ NewWindowWm \in Int /\ job.windowWm <= NewWindowWm
    BY DueIsOpen
<1>9. Increasing(out'.features)
  <2>1. PICK t : t = out.features \o f
    OBVIOUS
  <2>2. PICK w \in Int : w = job.windowWm
    BY <1>8
  <2>3. PICK s \in Seq(FeatureRow) : s = out.features
    BY <1>4
  <2>4. /\ t = s \o f /\ Increasing(s) /\ \A i \in DOMAIN s : s[i].end - 1 <= w
    BY <2>1, <2>2, <2>3
  <2>5. \A j \in DOMAIN f : ~(f[j].end - 1 <= w)
    BY <1>6, <1>7, <2>2
  <2>6. Increasing(t)
    BY <1>3, <2>4, <2>5, IncreasingMore
  <2> QED
    BY <1>1, <2>1, <2>6
<1>10. \A i \in DOMAIN out.features : out.features[i].end \in Int
  <2>1. \A i \in DOMAIN out.features : out.features[i] \in FeatureRow
    BY <1>4, ElementOfSeq, LenProperties
  <2> QED
    BY <2>1 DEF FeatureRow
<1>11. \A i \in DOMAIN out'.features : out'.features[i].end - 1 <= NewWindowWm
  <2> SUFFICES ASSUME NEW i \in DOMAIN out'.features
               PROVE  out'.features[i].end - 1 <= NewWindowWm
    OBVIOUS
  <2>1. CASE i \in DOMAIN out.features /\ out'.features[i] = out.features[i]
    BY <1>8, <1>10, <2>1
  <2>2. CASE out'.features[i] \in FeatureRows(Due)
    BY <1>6, <2>2
  <2> QED
    BY <2>1, <2>2, ReadPlaces
<1> QED
    BY <1>9, <1>11

LEMMA OrderStep ==
    ASSUME TypeOK, OrderInv, [Next]_vars
    PROVE  OrderInv'
<1> DEFINE Behind(rows, w) == \A i \in DOMAIN rows : rows[i].end - 1 <= w
           First == restarts = 0 /\ resubmits = 0
<1>0. /\ First => Increasing(out.features)
      /\ First /\ status = "RUNNING" => Behind(out.features, job.windowWm)
      /\ OpenInv(job) /\ OpenInv(ckpt)
      /\ status = "RESTARTING" => restarts > 0
      /\ restarts \in Nat /\ resubmits \in Nat
    BY BoundsAssumption DEF OrderInv, FeatureVersionsIncrease, Increasing, TypeOK
<1>a. ASSUME (First => Increasing(out.features))',
             (First /\ status = "RUNNING" => Behind(out.features, job.windowWm))',
             OpenInv(job)', OpenInv(ckpt)',
             (status = "RESTARTING" => restarts > 0)'
      PROVE  OrderInv'
  <2>1. FeatureVersionsIncrease'
    BY <1>a DEF FeatureVersionsIncrease, Increasing
  <2> QED
    BY <1>a, <2>1 DEF OrderInv
<1>b. ASSUME UNCHANGED source
      PROVE  /\ OpenInv(job') => OpenInv(job)'
             /\ OpenInv(ckpt') => OpenInv(ckpt)'
    BY <1>b DEF OpenInv, Closed
<1>c. ASSUME (First => Increasing(out.features))',
             (First /\ status = "RUNNING" => Behind(out.features, job.windowWm))',
             OpenInv(job'), OpenInv(ckpt'), UNCHANGED source,
             (status = "RESTARTING" => restarts > 0)'
      PROVE  OrderInv'
    BY <1>a, <1>b, <1>c
<1> HIDE DEF First, Behind
<1>1. CASE \E e \in Events : Produce(e)
  <2>1. PICK e \in Events : Produce(e)
    BY <1>1
  <2>2. /\ UNCHANGED <<job, ckpt, out, status, restarts, resubmits>>
        /\ \A o \in Offsets : source'[o] = source[o]
    BY <2>1, ProduceKeeps
  <2>3. job.open \subseteq Offsets /\ ckpt.open \subseteq Offsets
    BY DEF TypeOK, JobState
  <2>4. OpenInv(job)' /\ OpenInv(ckpt)'
    BY <1>0, <2>2, <2>3 DEF OpenInv, Closed
  <2> QED
    BY <1>0, <1>a, <2>2, <2>4 DEF First, Behind, Increasing
<1>2. CASE Process
  <2>1. /\ UNCHANGED <<source, ckpt, status, restarts, resubmits>>
        /\ job'.windowWm = NewWindowWm /\ status = "RUNNING"
    BY <1>2, ReadWindows DEF Ready
  <2>2. OpenInv(job')
    BY <1>0, <1>2, <2>1, DueIsOpen DEF OpenInv
  <2>3. First => Increasing(out'.features) /\ Behind(out'.features, NewWindowWm)
    BY <1>0, <1>2, <2>1, ReadOrders DEF Behind
  <2>4. (First => Increasing(out.features))'
        /\ (First /\ status = "RUNNING" => Behind(out.features, job.windowWm))'
    BY <2>1, <2>3 DEF First, Increasing, Behind
  <2> QED
    BY <1>0, <1>c, <2>1, <2>2, <2>4
<1>3. CASE Checkpoint \/ Expire \/ UNCHANGED vars
  <2>1. /\ UNCHANGED <<source, out, status, restarts, resubmits>>
        /\ job'.open = job.open /\ job'.windowWm = job.windowWm
        /\ ckpt' = ckpt \/ ckpt' = job'
    BY <1>3 DEF Checkpoint, Expire, ExpireId, ExpireTop, vars, TypeOK, JobState
  <2>2. OpenInv(job') /\ OpenInv(ckpt')
    BY <1>0, <2>1 DEF OpenInv
  <2> QED
    BY <1>0, <1>c, <2>1, <2>2 DEF First, Behind, Increasing
<1>4. CASE TaskFailure \/ JobManagerLoss
  <2>1. PICK kept \in Survivors : out' = kept
    BY <1>4 DEF TaskFailure, JobManagerLoss, LoseInFlight
  <2>2. /\ UNCHANGED <<source, ckpt, resubmits>> /\ job' = ckpt /\ status' # "RUNNING"
        /\ restarts' = restarts \/ restarts' = restarts + 1
        /\ status' = "RESTARTING" => restarts' = restarts + 1
    BY <1>4 DEF TaskFailure, JobManagerLoss
  <2>3. First' => First
    BY <1>0, <2>2 DEF First
  <2>4. Increasing(out.features) => Increasing(kept.features)
    BY SurvivingRows DEF Increasing
  <2>5. (First => Increasing(out.features))'
    BY <1>0, <2>1, <2>3, <2>4 DEF Increasing
  <2>6. status' = "RESTARTING" => restarts' > 0
    BY <1>0, <2>2
  <2> QED
    BY <1>0, <1>c, <2>2, <2>5, <2>6
<1>5. CASE Restart
  <2>1. UNCHANGED <<source, job, ckpt, out, restarts, resubmits>> /\ restarts > 0
        /\ status' = "RUNNING"
    BY <1>0, <1>5 DEF Restart
  <2>2. ~First'
    BY <1>0, <2>1 DEF First
  <2> QED
    BY <1>0, <1>c, <2>1, <2>2
<1>6. CASE Resubmit
  <2>1. /\ UNCHANGED <<source, out>> /\ job' = FreshJob /\ ckpt' = FreshJob
        /\ resubmits' = resubmits + 1 /\ status' = "RUNNING"
    BY <1>6 DEF Resubmit
  <2>2. ~First'
    BY <1>0, <2>1 DEF First
  <2>3. OpenInv(FreshJob)
    BY DEF OpenInv, FreshJob
  <2> QED
    BY <1>0, <1>c, <2>1, <2>2, <2>3
<1> QED
    BY <1>1, <1>2, <1>3, <1>4, <1>5, <1>6 DEF Next, Process

LEMMA OrderStart ==
    ASSUME Init
    PROVE  OrderInv
<1>1. job.open = {} /\ ckpt.open = {} /\ DOMAIN out.features = {} /\ status = "RUNNING"
    BY DEF Init, FreshJob, NoOutputs
<1> QED
    BY <1>1 DEF OrderInv, OpenInv, FeatureVersionsIncrease

\* As long as the job has neither been restored nor submitted again, the
\* versions it writes for a user only increase.
THEOREM VersionsIncrease == Spec => []FeatureVersionsIncrease
<1>1. TypeOK /\ OrderInv /\ [Next]_vars => OrderInv'
    BY OrderStep
<1>2. OrderInv => FeatureVersionsIncrease
    BY DEF OrderInv
<1> QED
    BY <1>1, <1>2, OrderStart, TypeCorrect, PTL DEF Spec

-----------------------------------------------------------------------------
(* What the outputs hold is what they should: invalid records are audited as *)
(* such and no others, raw holds valid ones, and while no entry expires only *)
(* an accepted event is audited as late.                                     *)

AuditInv ==
    /\ \A o \in Offsets :
          [type |-> "INVALID", at |-> o] \in out.quality => ~Valid(source[o])
    /\ \A o \in out.raw : Valid(source[o])
    /\ expiries = 0 => \A o \in Offsets : IsLate(o) => FirstOccurrence(o)

\* A step that reads no record writes nothing that had not been written.
LEMMA OthersWriteNothing ==
    ASSUME TypeOK, NoLossInv, [Next]_vars, ~(\E e \in Events : Produce(e)), ~Process
    PROVE  /\ UNCHANGED source
           /\ out'.raw \subseteq out.raw /\ out'.quality \subseteq out.quality
<1>1. ASSUME NEW kept \in Survivors
      PROVE  kept.raw \subseteq out.raw /\ kept.quality \subseteq out.quality
    BY DEF Survivors, NoLossInv, Extends
<1>2. CASE TaskFailure \/ JobManagerLoss
    BY <1>1, <1>2 DEF TaskFailure, JobManagerLoss, LoseInFlight
<1>3. CASE ~TaskFailure /\ ~JobManagerLoss
    BY <1>3 DEF Next, Process, Checkpoint, Restart, Resubmit, Expire, ExpireId, ExpireTop, vars
<1> QED
    BY <1>2, <1>3

LEMMA ReadAudits ==
    ASSUME TypeOK, Process
    PROVE  /\ out'.raw \subseteq out.raw \cup {At}
           /\ At \in out'.raw => At \in out.raw \/ Accepts
           /\ \A o : [type |-> "INVALID", at |-> o] \in out'.quality =>
                 \/ [type |-> "INVALID", at |-> o] \in out.quality
                 \/ o = At /\ ~Valid(Event)
<1>1. ASSUME NEW seen, NEW buffered, NEW top, NEW written \in Outputs,
             ReadEvent(seen, buffered, top, written)
      PROVE  out'.raw = written.raw /\ out'.quality = written.quality
    BY <1>1 DEF ReadEvent, Outputs
<1>2. ASSUME NEW o, NEW p
      PROVE  /\ [type |-> "INVALID", at |-> o] # [type |-> "LATE", at |-> p]
             /\ [type |-> "INVALID", at |-> o] = [type |-> "INVALID", at |-> p] => o = p
  <2>1. [type |-> "INVALID", at |-> o].type # [type |-> "LATE", at |-> p].type
    OBVIOUS
  <2>2. [type |-> "INVALID", at |-> o] = [type |-> "INVALID", at |-> p]
            => [type |-> "INVALID", at |-> o].at = [type |-> "INVALID", at |-> p].at
    OBVIOUS
  <2> QED
    BY <2>1, <2>2
<1>3. Ready /\ At \in Offsets /\ Event \in Events
    BY ReadWindows
<1>4. CASE ProcessInvalid
  <2>1. PICK written : written = [out EXCEPT !.quality = @ \cup {[type |-> "INVALID", at |-> At]}]
    OBVIOUS
  <2>2. written \in Outputs /\ ReadEvent(job.seen, job.open, job.top, written)
    BY <1>3, <1>4, <2>1, WrittenType, HandledType DEF TypeOK, ProcessInvalid
  <2>3. /\ written.raw = out.raw
        /\ written.quality = out.quality \cup {[type |-> "INVALID", at |-> At]}
    BY <2>1 DEF TypeOK, Outputs
  <2>4. out'.raw = out.raw /\ out'.quality = out.quality \cup {[type |-> "INVALID", at |-> At]}
    BY <1>1, <2>2, <2>3
  <2> QED
    BY <1>2, <1>4, <2>4 DEF ProcessInvalid
<1>5. CASE ProcessDuplicate
  <2>1. out \in Outputs /\ ReadEvent(job.seen, job.open, job.top, out)
    BY <1>5 DEF ProcessDuplicate, TypeOK
  <2>2. out'.raw = out.raw /\ out'.quality = out.quality
    BY <1>1, <2>1
  <2> QED
    BY <2>2
<1>6. CASE ProcessOnTime
  <2>1. PICK written : written = [out EXCEPT !.raw = @ \cup {At}, !.cart = CartAfter(At)]
    OBVIOUS
  <2>2. /\ written.raw = out.raw \cup {At} /\ written.quality = out.quality
        /\ written \in Outputs
    BY <1>3, <2>1, HandledType DEF TypeOK, Outputs
  <2>3. /\ Accepts
        /\ ReadEvent(job.seen \cup {Event.event_id}, Buffered(At), TopAfter(At), written)
    BY <1>6, <2>1 DEF ProcessOnTime, Accepts
  <2>4. out'.raw = out.raw \cup {At} /\ out'.quality = out.quality
    BY <1>1, <2>2, <2>3
  <2> QED
    BY <2>3, <2>4
<1>7. CASE ProcessLate
  <2>1. PICK written : written = [out EXCEPT !.raw = @ \cup {At}, !.cart = CartAfter(At),
                             !.quality = @ \cup {[type |-> "LATE", at |-> At]}]
    OBVIOUS
  <2>2. /\ written.raw = out.raw \cup {At}
        /\ written.quality = out.quality \cup {[type |-> "LATE", at |-> At]}
    BY <2>1 DEF TypeOK, Outputs
  <2>3. written \in Outputs
    BY <1>3, <2>1, HandledType, WrittenType DEF TypeOK
  <2>4. /\ Accepts
        /\ ReadEvent(job.seen \cup {Event.event_id}, job.open, TopAfter(At), written)
    BY <1>7, <2>1 DEF ProcessLate, Accepts
  <2>5. out'.raw = out.raw \cup {At} /\ out'.quality = out.quality \cup {[type |-> "LATE", at |-> At]}
    BY <1>1, <2>2, <2>3, <2>4
  <2> QED
    BY <1>2, <2>4, <2>5
<1> QED
    BY <1>4, <1>5, <1>6, <1>7 DEF Process

LEMMA AuditStep ==
    ASSUME TypeOK, NoLossInv, ExactInv, AuditInv, [Next]_vars
    PROVE  AuditInv'
<1>1. CASE \E e \in Events : Produce(e)
  <2>1. PICK e \in Events : Produce(e)
    BY <1>1
  <2>2. /\ \A o \in Offsets : source'[o] = source[o]
        /\ \A o \in Offsets : FirstOccurrence(o)' <=> FirstOccurrence(o)
        /\ UNCHANGED <<out, expiries>>
    BY <2>1, ProduceKeeps
  <2>3. \A o, type : [type |-> type, at |-> o] \in out.quality => o \in Offsets
    <3>1. \A q \in out.quality : q.at \in Offsets
        BY DEF TypeOK, Outputs
    <3>2. \A o, type : [type |-> type, at |-> o].at = o
        OBVIOUS
    <3> QED
        BY <3>1, <3>2
  <2>4. out.raw \subseteq Offsets
    BY DEF TypeOK, Outputs
  <2>5. (\A o \in Offsets :
            [type |-> "INVALID", at |-> o] \in out.quality => ~Valid(source[o]))'
    BY <2>2, <2>3 DEF AuditInv
  <2>6. (\A o \in out.raw : Valid(source[o]))'
    BY <2>2, <2>4 DEF AuditInv
  <2>7. (expiries = 0 => \A o \in Offsets : IsLate(o) => FirstOccurrence(o))'
    BY <2>2, <2>3 DEF AuditInv, IsLate
  <2> QED
    BY <2>5, <2>6, <2>7 DEF AuditInv
<1>2. CASE Process
  <2>1. /\ Ready /\ At \in Offsets /\ UNCHANGED <<source, expiries>> /\ Event = source[At]
        /\ \A o : [type |-> "LATE", at |-> o] \in out'.quality =>
              \/ [type |-> "LATE", at |-> o] \in out.quality
              \/ o = At /\ Accepts
    BY <1>2, ReadWindows DEF Event
  <2>2. Offsets' = Offsets
    BY <2>1 DEF Offsets
  <2>3. \A o : FirstOccurrence(o)' <=> FirstOccurrence(o)
    BY <2>1, SourceKeeps
  <2>4. (\A o \in Offsets :
            [type |-> "INVALID", at |-> o] \in out.quality => ~Valid(source[o]))'
    BY <1>2, <2>1, <2>2, ReadAudits DEF AuditInv
  <2>5. (\A o \in out.raw : Valid(source[o]))'
    BY <1>2, <2>1, ReadAudits DEF AuditInv, Accepts
  <2>6. expiries = 0 /\ Accepts => FirstOccurrence(At)
    BY <2>1, AcceptsFirst DEF ExactInv
  <2>7. (expiries = 0 => \A o \in Offsets : IsLate(o) => FirstOccurrence(o))'
    BY <2>1, <2>2, <2>3, <2>6 DEF AuditInv, IsLate
  <2> QED
    BY <2>4, <2>5, <2>7 DEF AuditInv
<1>3. CASE ~(\E e \in Events : Produce(e)) /\ ~Process
  <2>1. /\ UNCHANGED source
        /\ out'.raw \subseteq out.raw /\ out'.quality \subseteq out.quality
    BY <1>3, OthersWriteNothing
  <2>2. Offsets' = Offsets
    BY <2>1 DEF Offsets
  <2>3. \A o : FirstOccurrence(o)' <=> FirstOccurrence(o)
    BY <2>1, SourceKeeps
  <2>4. expiries' = 0 => expiries = 0
    BY ExpiriesGrow
  <2>5. (\A o \in Offsets :
            [type |-> "INVALID", at |-> o] \in out.quality => ~Valid(source[o]))'
    BY <2>1, <2>2 DEF AuditInv
  <2>6. (\A o \in out.raw : Valid(source[o]))'
    BY <2>1 DEF AuditInv
  <2>7. (expiries = 0 => \A o \in Offsets : IsLate(o) => FirstOccurrence(o))'
    BY <2>1, <2>2, <2>3, <2>4 DEF AuditInv, IsLate
  <2> QED
    BY <2>5, <2>6, <2>7 DEF AuditInv
<1> QED
    BY <1>1, <1>2, <1>3

LEMMA AuditStart ==
    ASSUME Init
    PROVE  AuditInv
<1>1. out.raw = {} /\ out.quality = {}
    BY DEF Init, NoOutputs
<1> QED
    BY <1>1 DEF AuditInv, IsLate

-----------------------------------------------------------------------------
(* What verify.py counts. *)

ImageOf(f, S) == {f[x] : x \in S}

\* Two functions that tell the same elements apart have as many values.
LEMMA SameImages ==
    ASSUME NEW S, IsFiniteSet(S), NEW f, NEW g,
           \A x, y \in S : f[x] = f[y] <=> g[x] = g[y]
    PROVE  /\ IsFiniteSet(ImageOf(f, S)) /\ IsFiniteSet(ImageOf(g, S))
           /\ Cardinality(ImageOf(f, S)) = Cardinality(ImageOf(g, S))
<1> DEFINE F == {f[x] : x \in S}
           G == {g[x] : x \in S}
           fs == [x \in S |-> f[x]]
           gs == [x \in S |-> g[x]]
           of(v) == CHOOSE x \in S : f[x] = v
           h == [v \in F |-> g[of(v)]]
<1>1. fs \in Surjection(S, F) /\ gs \in Surjection(S, G)
    BY DEF Surjection
<1>2. IsFiniteSet(F) /\ IsFiniteSet(G)
    BY <1>1, FS_Surjection
<1>3. \A x \in S : of(f[x]) \in S /\ f[of(f[x])] = f[x]
    OBVIOUS
<1>4. \A x \in S : g[of(f[x])] = g[x]
    BY <1>3
<1>5. \A v \in F : \E x \in S : v = f[x] /\ h[v] = g[x]
  <2> SUFFICES ASSUME NEW v \in F
               PROVE  \E x \in S : v = f[x] /\ h[v] = g[x]
    OBVIOUS
  <2>1. PICK x \in S : v = f[x]
    OBVIOUS
  <2>2. h[v] = g[x]
    BY <1>4, <2>1
  <2> QED
    BY <2>1, <2>2
<1>6. \A x \in S : f[x] \in F /\ h[f[x]] = g[x]
    BY <1>4
<1> HIDE DEF h
<1>7. h \in [F -> G]
  <2>1. \A v \in F : h[v] \in G
    BY <1>5
  <2> QED
    BY <2>1 DEF h
<1>8. \A v, w \in F : h[v] = h[w] => v = w
    BY <1>5
<1>9. \A u \in G : \E v \in F : h[v] = u
    BY <1>6
<1>10. h \in Bijection(F, G)
    BY <1>7, <1>8, <1>9 DEF Bijection, Injection, IsInjective, Surjection
<1>11. Cardinality(F) = Cardinality(G)
    BY <1>2, <1>10, FS_Bijection DEF ExistsBijection
<1> QED
    BY <1>2, <1>11 DEF ImageOf

Firsts == {o \in Offsets : FirstOccurrence(o)}

LEMMA OffsetsFinite ==
    ASSUME TypeOK
    PROVE  IsFiniteSet(Offsets) /\ Offsets \subseteq Nat
<1>1. Len(source) \in Int /\ 1 \in Int
    BY CartType
<1> QED
    BY <1>1, FS_Interval DEF Offsets

\* Every valid event has one first occurrence.
LEMMA FirstOfId ==
    ASSUME TypeOK
    PROVE  /\ \A o \in Offsets : Valid(source[o]) => \E f \in Firsts : SameId(f, o)
           /\ \A f, g \in Firsts : SameId(f, g) => f = g
<1>1. ASSUME NEW o \in Offsets, Valid(source[o])
      PROVE  \E f \in Firsts : SameId(f, o)
  <2> DEFINE S == {p \in Offsets : Valid(source[p]) /\ SameId(p, o)}
  <2>1. S \in SUBSET Nat /\ S # {}
    BY <1>1, OffsetsFinite DEF SameId
  <2>2. PICK f \in S : \A p \in S : f <= p
    <3> HIDE DEF S
    <3> QED
        BY <2>1, LeastExists
  <2>3. f \in Offsets /\ Valid(source[f]) /\ SameId(f, o)
    OBVIOUS
  <2>4. \A p \in 1..(f - 1) : p \in Offsets /\ ~(f <= p)
    BY <2>3, CartType DEF Offsets
  <2>5. \A p \in 1..(f - 1) : Valid(source[p]) => ~SameId(p, f)
    BY <2>2, <2>3, <2>4 DEF SameId
  <2>6. f \in Firsts
    BY <2>3, <2>5 DEF Firsts, FirstOccurrence
  <2> QED
    BY <2>3, <2>6
<1>2. ASSUME NEW f \in Firsts, NEW g \in Firsts, SameId(f, g)
      PROVE  f = g
  <2>1. /\ f \in Nat /\ g \in Nat /\ f > 0 /\ g > 0
        /\ FirstOccurrence(f) /\ FirstOccurrence(g)
    BY DEF Firsts, Offsets
  <2>2. ~(f < g) /\ ~(g < f)
    BY <1>2, <2>1 DEF FirstOccurrence, SameId
  <2> QED
    BY <2>1, <2>2
<1> QED
    BY <1>1, <1>2

\* Canonical raw has one row per accepted event of the topic.
LEMMA RawCounts ==
    ASSUME TypeOK, NoLossInv, AuditInv, Idle
    PROVE  /\ CanonicalRaw = {source[o].event_id : o \in Firsts}
           /\ IsFiniteSet(Firsts) /\ Cardinality(CanonicalRaw) = Cardinality(Firsts)
<1>1. \A o \in Offsets : Valid(source[o]) => \E p \in out.raw : SameId(p, o)
    BY DEF Idle, Offsets, NoLossInv, Covers, Stands
<1>2. out.raw \subseteq Offsets /\ \A o \in out.raw : Valid(source[o])
    BY DEF AuditInv, TypeOK, Outputs
<1>3. \A o \in Firsts : o \in Offsets /\ Valid(source[o])
    BY DEF Firsts, FirstOccurrence
<1>4. \A o \in out.raw : \E f \in Firsts : source[o].event_id = source[f].event_id
    BY <1>2, FirstOfId DEF SameId
<1>5. \A f \in Firsts : \E o \in out.raw : source[o].event_id = source[f].event_id
    BY <1>1, <1>3 DEF SameId
<1>6. CanonicalRaw = {source[o].event_id : o \in Firsts}
    BY <1>4, <1>5 DEF CanonicalRaw
<1>7. IsFiniteSet(Firsts)
    BY OffsetsFinite, FS_Subset DEF Firsts
<1> DEFINE id == [o \in Firsts |-> source[o].event_id]
           self == [o \in Firsts |-> o]
<1>8. \A f, g \in Firsts : id[f] = id[g] <=> self[f] = self[g]
    BY FirstOfId DEF SameId
<1>9. /\ ImageOf(id, Firsts) = {source[o].event_id : o \in Firsts}
      /\ ImageOf(self, Firsts) = Firsts
    BY DEF ImageOf
<1>10. Cardinality(ImageOf(id, Firsts)) = Cardinality(ImageOf(self, Firsts))
  <2> HIDE DEF id, self
  <2> QED
    BY <1>7, <1>8, SameImages
<1> QED
    BY <1>6, <1>7, <1>9, <1>10

Lates == {o \in Firsts : IsLate(o)}
AuditedLates == {o \in Lates : source[o].run \in ReplayRunIds}

\* While no entry expires the late audit has one row per accepted late event
\* of the runs that are selected.
LEMMA LateCounts ==
    ASSUME TypeOK, AuditInv, expiries = 0
    PROVE  /\ IsFiniteSet(Lates) /\ Lates \subseteq Firsts
           /\ IsFiniteSet(AuditedLates) /\ AuditedLates \subseteq Lates
           /\ Cardinality(CanonicalQuality("LATE")) = Cardinality(AuditedLates)
<1>1. /\ IsFiniteSet(Lates) /\ Lates \subseteq Firsts
      /\ IsFiniteSet(AuditedLates) /\ AuditedLates \subseteq Lates
  <2>1. IsFiniteSet(Lates) /\ Lates \subseteq Firsts
    BY OffsetsFinite, FS_Subset DEF Lates, Firsts
  <2> QED
    BY <2>1, FS_Subset DEF AuditedLates
<1> DEFINE late(o) == [type |-> "LATE", at |-> o]
           row == [o \in AuditedLates |-> QualityEventId(late(o))]
           self == [o \in AuditedLates |-> o]
<1>2. \A q \in out.quality : q.at \in Offsets /\ q = [type |-> q.type, at |-> q.at]
    BY DEF TypeOK, Outputs
<1>3. \A o \in AuditedLates : late(o) \in out.quality /\ source[o].run \in ReplayRunIds
    BY DEF AuditedLates, Lates, IsLate
<1>4. \A q \in out.quality : q.type = "LATE" /\ source[q.at].run \in ReplayRunIds =>
          q.at \in AuditedLates /\ q = late(q.at)
    BY <1>2 DEF AuditInv, AuditedLates, Lates, Firsts, IsLate
<1>5. \A o \in AuditedLates : late(o).type = "LATE" /\ late(o).at = o
    OBVIOUS
<1>6. CanonicalQuality("LATE") = ImageOf(row, AuditedLates)
  <2>1. CanonicalQuality("LATE") = {QualityEventId(late(o)) : o \in AuditedLates}
    <3> HIDE DEF late
    <3> QED
        BY <1>3, <1>4, <1>5 DEF CanonicalQuality
  <2> QED
    BY <2>1 DEF ImageOf
<1>7. ASSUME NEW o \in AuditedLates, NEW p \in AuditedLates, QualityEventId(late(o)) = QualityEventId(late(p))
      PROVE  o = p
  <2>1. QualityEventId(late(o))[2] = source[o].event_id
        /\ QualityEventId(late(p))[2] = source[p].event_id
    BY DEF QualityEventId
  <2> QED
    BY <1>1, <1>7, <2>1, FirstOfId DEF SameId
<1>8. \A o, p \in AuditedLates : row[o] = row[p] <=> self[o] = self[p]
    BY <1>7
<1>9. ImageOf(self, AuditedLates) = AuditedLates
    BY DEF ImageOf
<1>10. Cardinality(ImageOf(row, AuditedLates)) = Cardinality(ImageOf(self, AuditedLates))
  <2> HIDE DEF row, self
  <2> QED
    BY <1>1, <1>8, SameImages
<1> QED
    BY <1>1, <1>6, <1>9, <1>10

\* What verify.py calls metrics_input is the number of accepted events that
\* an open window holds or both aggregates count, and of those whose late row
\* it does not select.
THEOREM MetricsInput == Spec /\ NoRestore => []MetricsInputAccounted
<1>1. Init => NoLossInv /\ ExactInv /\ VerdictInv /\ PlacedInv /\ AuditInv
    BY VerdictStart, PlacedStart, ExactStart, AuditStart
<1>2. TypeOK /\ NoLossInv /\ ExactInv /\ VerdictInv /\ PlacedInv /\ AuditInv
        /\ [Next]_vars /\ [~Restart]_vars
        => NoLossInv' /\ ExactInv' /\ VerdictInv' /\ PlacedInv' /\ AuditInv'
    BY NotRestored, NoLossStep, ExactStep, VerdictStep, PlacedStep, AuditStep
<1>3. TypeOK /\ NoLossInv /\ VerdictInv /\ PlacedInv /\ AuditInv => MetricsInputAccounted
  <2> SUFFICES ASSUME TypeOK, NoLossInv, VerdictInv, PlacedInv, AuditInv, Idle, expiries = 0
               PROVE  MetricsInputAccounted
    BY DEF MetricsInputAccounted
  <2>1. \A o \in Offsets : FirstOccurrence(o) =>
            (IsLate(o) <=> ~(o \in job.open \/ (InFeatures(o) /\ InMetrics(o))))
    BY PlacedOnce DEF Idle, Offsets
  <2>2. {o \in Offsets : /\ FirstOccurrence(o)
                         /\ o \in job.open \/ (InMetrics(o) /\ InFeatures(o))}
            = Firsts \ Lates
    BY <2>1 DEF Firsts, Lates
  <2>3. Cardinality(Firsts \ Lates) = Cardinality(Firsts) - Cardinality(Lates)
    <3>1. Firsts \cap Lates = Lates
        BY DEF Lates
    <3>2. IsFiniteSet(Firsts)
        BY RawCounts
    <3>3. Cardinality(Firsts \ Lates) = Cardinality(Firsts) - Cardinality(Firsts \cap Lates)
        BY <3>2, FS_Difference
    <3> QED
        BY <3>1, <3>3
  <2>4. Cardinality(HiddenLate) = Cardinality(Lates) - Cardinality(AuditedLates)
    <3>1. HiddenLate = Lates \ AuditedLates /\ Lates \cap AuditedLates = AuditedLates
        BY DEF HiddenLate, AuditedLates, Lates, Firsts
    <3>2. IsFiniteSet(Lates)
        BY LateCounts
    <3>3. Cardinality(Lates \ AuditedLates)
            = Cardinality(Lates) - Cardinality(Lates \cap AuditedLates)
        BY <3>2, FS_Difference
    <3> QED
        BY <3>1, <3>3
  <2>5. /\ Cardinality(Firsts) \in Nat /\ Cardinality(Lates) \in Nat
        /\ Cardinality(AuditedLates) \in Nat
    BY RawCounts, LateCounts, FS_CardinalityType
  <2>6. ReconcileAccounting.metrics_input
            = Cardinality(CanonicalRaw) - Cardinality(CanonicalQuality("LATE"))
    BY DEF ReconcileAccounting
  <2>7. ReconcileAccounting.metrics_input = Cardinality(Firsts) - Cardinality(AuditedLates)
    BY <2>6, RawCounts, LateCounts
  <2>8. ReconcileAccounting.metrics_input
            = Cardinality(HiddenLate) + Cardinality(Firsts \ Lates)
    BY <2>3, <2>4, <2>5, <2>7
  <2> QED
    BY <2>2, <2>8 DEF MetricsInputAccounted
<1> QED
    BY <1>1, <1>2, <1>3, TypeCorrect, PTL DEF Spec, NoRestore

\* Two deliveries of one id differ at most in their run.
LEMMA SameDelivery ==
    ASSUME TypeOK, NEW o \in Offsets, NEW p \in Offsets, SameId(o, p)
    PROVE  /\ source[o].seq = source[p].seq
           /\ ValidationReason(source[o]) = ValidationReason(source[p])
           /\ Valid(source[o]) <=> Valid(source[p])
<1>1. source[o] \in Events /\ source[p] \in Events
    BY CartType
<1>2. <<source[o].user, source[o].item, source[o].category, source[o].behavior,
        source[o].time, source[o].seq>>
        = <<source[p].user, source[p].item, source[p].category, source[p].behavior,
            source[p].time, source[p].seq>>
    BY <1>1, IdentityAssumption DEF SameId
<1>3. /\ source[o].user = source[p].user /\ source[o].item = source[p].item
      /\ source[o].category = source[p].category /\ source[o].time = source[p].time
      /\ source[o].behavior = source[p].behavior /\ source[o].seq = source[p].seq
    BY <1>2
<1>4. ValidationReason(source[o]) = ValidationReason(source[p])
    BY <1>3 DEF ValidationReason, SameId
<1> QED
    BY <1>3, <1>4 DEF Valid

Delivery == [o \in Offsets |-> <<source[o].event_id, source[o].run>>]
ValidOnes == {o \in Offsets : Valid(source[o])}
InvalidOnes == {o \in Offsets : ~Valid(source[o]) /\ source[o].run \in ReplayRunIds}

LEMMA DeliveryIs ==
    ASSUME NEW o \in Offsets, NEW p \in Offsets
    PROVE  /\ Delivery[o] = <<source[o].event_id, source[o].run>>
           /\ Delivery[o] = Delivery[p] <=> SameId(o, p) /\ source[o].run = source[p].run
<1>1. /\ Delivery[o] = <<source[o].event_id, source[o].run>>
      /\ Delivery[p] = <<source[p].event_id, source[p].run>>
    BY DEF Delivery
<1> QED
    BY <1>1 DEF SameId

\* The views show the valid deliveries and the selected invalid ones.
LEMMA ShownCounts ==
    ASSUME TypeOK
    PROVE  /\ IsFiniteSet(ValidOnes) /\ IsFiniteSet(InvalidOnes)
           /\ IsFiniteSet(ImageOf(Delivery, ValidOnes))
           /\ IsFiniteSet(ImageOf(Delivery, InvalidOnes))
           /\ IsFiniteSet(Shown)
           /\ Cardinality(Shown) = Cardinality(ImageOf(Delivery, ValidOnes))
                                        + Cardinality(ImageOf(Delivery, InvalidOnes))
<1>1. IsFiniteSet(ValidOnes) /\ IsFiniteSet(InvalidOnes)
    BY OffsetsFinite, FS_Subset DEF ValidOnes, InvalidOnes
<1>2. IsFiniteSet(ImageOf(Delivery, ValidOnes)) /\ IsFiniteSet(ImageOf(Delivery, InvalidOnes))
    BY <1>1, SameImages
<1>3. Shown = ImageOf(Delivery, ValidOnes) \cup ImageOf(Delivery, InvalidOnes)
    BY DeliveryIs DEF Shown, ImageOf, ValidOnes, InvalidOnes
<1>4. ImageOf(Delivery, ValidOnes) \cap ImageOf(Delivery, InvalidOnes) = {}
  <2> SUFFICES ASSUME NEW o \in ValidOnes, NEW p \in InvalidOnes
               PROVE  Delivery[o] # Delivery[p]
    BY DEF ImageOf
  <2>1. o \in Offsets /\ p \in Offsets /\ Valid(source[o]) /\ ~Valid(source[p])
    BY DEF ValidOnes, InvalidOnes
  <2> QED
    BY <2>1, DeliveryIs, SameDelivery
<1>5. Cardinality({}) = 0
    BY FS_EmptySet
<1> DEFINE A == ImageOf(Delivery, ValidOnes)
           B == ImageOf(Delivery, InvalidOnes)
<1> HIDE DEF A, B
<1>6. IsFiniteSet(A) /\ IsFiniteSet(B) /\ A \cap B = {} /\ Shown = A \cup B
    BY <1>2, <1>3, <1>4 DEF A, B
<1>7. Cardinality(A \cup B) = Cardinality(A) + Cardinality(B) - Cardinality(A \cap B)
    BY <1>6, FS_Union
<1>8. Cardinality(A) \in Nat /\ Cardinality(B) \in Nat
    BY <1>6, FS_CardinalityType
<1>9. IsFiniteSet(Shown) /\ Cardinality(Shown) = Cardinality(A) + Cardinality(B)
  <2>1. Cardinality(A \cap B) = 0
    BY <1>5, <1>6
  <2>2. Cardinality(A \cup B) = Cardinality(A) + Cardinality(B)
    BY <1>7, <1>8, <2>1
  <2>3. IsFiniteSet(A \cup B)
    BY <1>6, FS_Union
  <2> QED
    BY <1>6, <2>2, <2>3
<1> QED
    BY <1>1, <1>2, <1>9 DEF A, B

\* What the fixture and the views have not in common makes the difference.
LEMMA DecodedCounts ==
    ASSUME TypeOK
    PROVE  /\ Cardinality(Decoded) \in Nat
           /\ Cardinality(Foreign) \in Nat /\ Cardinality(Undelivered) \in Nat
           /\ Cardinality(Decoded) + Cardinality(Foreign)
                = Cardinality(Shown) + Cardinality(Undelivered)
<1> DEFINE rows == Fixture \X ReplayRunIds
           event == [x \in rows |-> <<x[1].event_id, x[2]>>]
<1>1. IsFiniteSet(rows)
    BY FixtureAssumption, FS_Product
<1>2. Decoded = ImageOf(event, rows)
  <2>1. \A x \in rows : event[x] = <<x[1].event_id, x[2]>>
                           /\ x[1] \in Fixture /\ x[2] \in ReplayRunIds
    OBVIOUS
  <2>2. \A e \in Fixture, r \in ReplayRunIds :
            <<e, r>> \in rows /\ event[<<e, r>>] = <<e.event_id, r>>
    OBVIOUS
  <2> HIDE DEF event, rows
  <2>3. ASSUME NEW x \in rows
        PROVE  event[x] \in Decoded
    BY <2>1 DEF Decoded
  <2>4. ASSUME NEW d \in Decoded
        PROVE  \E x \in rows : d = event[x]
    <3>1. PICK e \in Fixture, r \in ReplayRunIds : d = <<e.event_id, r>>
        BY DEF Decoded
    <3> QED
        BY <2>2, <3>1
  <2> QED
    BY <2>3, <2>4 DEF ImageOf
<1>3. IsFiniteSet(Decoded)
  <2> HIDE DEF event, rows
  <2> QED
    BY <1>1, <1>2, SameImages
<1>4. IsFiniteSet(Shown)
    BY ShownCounts
<1>5. /\ Cardinality(Shown \ Decoded)
            = Cardinality(Shown) - Cardinality(Shown \cap Decoded)
      /\ Cardinality(Decoded \ Shown)
            = Cardinality(Decoded) - Cardinality(Decoded \cap Shown)
      /\ IsFiniteSet(Shown \ Decoded) /\ IsFiniteSet(Decoded \ Shown)
    BY <1>3, <1>4, FS_Difference
<1>6. Shown \cap Decoded = Decoded \cap Shown /\ IsFiniteSet(Decoded \cap Shown)
    BY <1>3, FS_Subset
<1>7. /\ Cardinality(Decoded) \in Nat /\ Cardinality(Shown) \in Nat
      /\ Cardinality(Shown \ Decoded) \in Nat /\ Cardinality(Decoded \ Shown) \in Nat
      /\ Cardinality(Decoded \cap Shown) \in Nat
    BY <1>3, <1>4, <1>5, <1>6, FS_CardinalityType
<1> QED
    BY <1>5, <1>6, <1>7 DEF Foreign, Undelivered

\* The audit has one INVALID row per selected delivery of an invalid event.
LEMMA InvalidCounts ==
    ASSUME TypeOK, NoLossInv, AuditInv, Idle
    PROVE  Cardinality(CanonicalQuality("INVALID"))
                = Cardinality(ImageOf(Delivery, InvalidOnes))
<1> DEFINE bad(o) == [type |-> "INVALID", at |-> o]
           row == [o \in InvalidOnes |-> QualityEventId(bad(o))]
<1>1. \A q \in out.quality : q.at \in Offsets /\ q = [type |-> q.type, at |-> q.at]
    BY DEF TypeOK, Outputs
<1>2. \A o \in InvalidOnes : bad(o) \in out.quality /\ source[o].run \in ReplayRunIds
    BY DEF InvalidOnes, Idle, Offsets, NoLossInv, Covers, Stands
<1>3. \A q \in out.quality : q.type = "INVALID" /\ source[q.at].run \in ReplayRunIds =>
          q.at \in InvalidOnes /\ q = bad(q.at)
    BY <1>1 DEF AuditInv, InvalidOnes
<1>4. \A o \in InvalidOnes : bad(o).type = "INVALID" /\ bad(o).at = o
    OBVIOUS
<1>5. CanonicalQuality("INVALID") = ImageOf(row, InvalidOnes)
  <2>1. CanonicalQuality("INVALID") = {QualityEventId(bad(o)) : o \in InvalidOnes}
    <3> HIDE DEF bad
    <3> QED
        BY <1>2, <1>3, <1>4 DEF CanonicalQuality
  <2> QED
    BY <2>1 DEF ImageOf
<1>6. ASSUME NEW o \in InvalidOnes, NEW p \in InvalidOnes
      PROVE  row[o] = row[p] <=> Delivery[o] = Delivery[p]
  <2>1. o \in Offsets /\ p \in Offsets
    BY DEF InvalidOnes
  <2>2. /\ row[o] = <<"INVALID", source[o].event_id, source[o].run, source[o].seq,
                      ValidationReason(source[o])>>
        /\ row[p] = <<"INVALID", source[p].event_id, source[p].run, source[p].seq,
                      ValidationReason(source[p])>>
    BY DEF QualityEventId
  <2> HIDE DEF row
  <2>3. row[o] = row[p] => SameId(o, p) /\ source[o].run = source[p].run
    BY <2>2 DEF SameId
  <2>4. SameId(o, p) /\ source[o].run = source[p].run => row[o] = row[p]
    BY <2>1, <2>2, SameDelivery DEF SameId
  <2> QED
    BY <2>1, <2>3, <2>4, DeliveryIs
<1>7. Cardinality(ImageOf(row, InvalidOnes)) = Cardinality(ImageOf(Delivery, InvalidOnes))
  <2> HIDE DEF row
  <2> QED
    BY <1>6, ShownCounts, SameImages
<1> QED
    BY <1>5, <1>7

\* A valid delivery is the accepted one or one of another run.
LEMMA RedeliveredCounts ==
    ASSUME TypeOK
    PROVE  /\ IsFiniteSet(Firsts) /\ Cardinality(Redelivered) \in Nat
           /\ Cardinality(Redelivered)
                = Cardinality(ImageOf(Delivery, ValidOnes)) - Cardinality(Firsts)
<1> DEFINE G == ImageOf(Delivery, Firsts)
           D == ImageOf(Delivery, ValidOnes)
           self == [o \in Firsts |-> o]
<1>1. IsFiniteSet(Firsts) /\ Firsts \subseteq ValidOnes
  <2>1. IsFiniteSet(Firsts)
    BY OffsetsFinite, FS_Subset DEF Firsts
  <2> QED
    BY <2>1 DEF Firsts, ValidOnes, FirstOccurrence
<1>2. Firsts \subseteq Offsets /\ ValidOnes \subseteq Offsets
    BY DEF Firsts, ValidOnes
<1>3. \A f, g \in Firsts : Delivery[f] = Delivery[g] <=> self[f] = self[g]
    BY <1>2, DeliveryIs, FirstOfId DEF SameId
<1>4. Cardinality(G) = Cardinality(Firsts)
  <2>1. ImageOf(self, Firsts) = Firsts
    BY DEF ImageOf
  <2> HIDE DEF self
  <2> QED
    BY <1>1, <1>3, <2>1, SameImages
<1>5. IsFiniteSet(D)
    BY ShownCounts
<1>6. Redelivered = D \ G
  <2>1. ASSUME NEW o \in ValidOnes, NEW f \in Offsets, FirstOccurrence(f), SameId(f, o),
               source[f].run # source[o].run
        PROVE  Delivery[o] \in D \ G
    <3>1. Delivery[o] \in D
        BY DEF ImageOf
    <3>2. ASSUME NEW g \in Firsts, Delivery[o] = Delivery[g]
          PROVE  FALSE
        <4>1. SameId(o, g) /\ source[o].run = source[g].run
            BY <1>2, <3>2, DeliveryIs
        <4>2. f = g
            BY <2>1, <4>1, FirstOfId DEF SameId, Firsts
        <4> QED
            BY <2>1, <4>1, <4>2
    <3> QED
        BY <3>1, <3>2 DEF ImageOf
  <2>2. ASSUME NEW o \in ValidOnes, Delivery[o] \notin G
        PROVE  \E f \in Offsets : /\ FirstOccurrence(f) /\ SameId(f, o)
                                  /\ source[f].run # source[o].run
    <3>1. PICK f \in Firsts : SameId(f, o)
        BY <1>2, FirstOfId DEF ValidOnes
    <3>2. Delivery[f] # Delivery[o]
        BY <2>2 DEF ImageOf
    <3>3. source[f].run # source[o].run
        BY <1>2, <3>1, <3>2, DeliveryIs
    <3> QED
        BY <3>1, <3>3 DEF Firsts
  <2>3. Redelivered = {Delivery[o] : o \in {p \in ValidOnes :
                            \E f \in Offsets : /\ FirstOccurrence(f) /\ SameId(f, p)
                                               /\ source[f].run # source[p].run}}
    BY DeliveryIs DEF Redelivered, ValidOnes
  <2> QED
    BY <2>1, <2>2, <2>3 DEF ImageOf
<1>7. G \subseteq D
    BY <1>1 DEF ImageOf
<1> HIDE DEF G, D
<1>8. Cardinality(D \ G) = Cardinality(D) - Cardinality(D \cap G)
    BY <1>5, FS_Difference
<1>9. D \cap G = G /\ IsFiniteSet(D \ G)
    BY <1>5, <1>7, FS_Subset
<1>10. Cardinality(Redelivered) = Cardinality(D) - Cardinality(Firsts)
    BY <1>4, <1>6, <1>8, <1>9
<1>11. Cardinality(Redelivered) \in Nat
    BY <1>6, <1>9, FS_CardinalityType
<1> QED
    BY <1>1, <1>10, <1>11 DEF D

\* Once everything is read, the difference verify.py takes for duplicates is
\* the number of deliveries that repeat an accepted event in another run, plus
\* what was not delivered of the fixture, less what was delivered besides it;
\* and while no entry expires the reconciliation raises exactly if that is
\* negative.
THEOREM Duplicates == Spec => []DuplicatesAccounted
<1>1. Init => NoLossInv /\ ExactInv /\ AuditInv
    BY ExactStart, AuditStart
<1>2. TypeOK /\ NoLossInv /\ ExactInv /\ AuditInv /\ [Next]_vars
        => NoLossInv' /\ ExactInv' /\ AuditInv'
    BY NoLossStep, ExactStep, AuditStep
<1>3. TypeOK /\ NoLossInv /\ AuditInv => DuplicatesAccounted
  <2> SUFFICES ASSUME TypeOK, NoLossInv, AuditInv, Idle
               PROVE  DuplicatesAccounted
    BY DEF DuplicatesAccounted
  <2> DEFINE valid == Cardinality(ImageOf(Delivery, ValidOnes))
             invalid == Cardinality(ImageOf(Delivery, InvalidOnes))
             accepted == Cardinality(Firsts)
             decoded == Cardinality(Decoded)
             again == Cardinality(Redelivered)
             foreign == Cardinality(Foreign)
             undelivered == Cardinality(Undelivered)
  <2>1. /\ valid \in Nat /\ invalid \in Nat /\ accepted \in Nat /\ decoded \in Nat
        /\ again \in Nat /\ foreign \in Nat /\ undelivered \in Nat
    BY ShownCounts, DecodedCounts, RedeliveredCounts, FS_CardinalityType
  <2>2. /\ decoded + foreign = valid + invalid + undelivered
        /\ again = valid - accepted
    BY ShownCounts, DecodedCounts, RedeliveredCounts
  <2>3. /\ ReconcileAccounting.duplicate = decoded - invalid - accepted
        /\ ReconcileAccounting.late = Cardinality(CanonicalQuality("LATE"))
        /\ ReconcileAccounting.accepted_unique = accepted
    BY InvalidCounts, RawCounts DEF ReconcileAccounting
  <2>4. ASSUME expiries = 0
        PROVE  ~(ReconcileAccounting.late > ReconcileAccounting.accepted_unique)
    <3>1. /\ IsFiniteSet(Firsts) /\ AuditedLates \in SUBSET Firsts
          /\ Cardinality(CanonicalQuality("LATE")) = Cardinality(AuditedLates)
        BY <2>4, RedeliveredCounts, LateCounts
    <3>2. Cardinality(AuditedLates) <= accepted /\ Cardinality(AuditedLates) \in Nat
        BY <3>1, FS_Subset, FS_CardinalityType
    <3> HIDE DEF accepted
    <3> QED
        BY <2>1, <2>3, <3>1, <3>2
  <2> HIDE DEF valid, invalid, accepted, decoded, again, foreign, undelivered
  <2>5. ReconcileAccounting.duplicate + foreign = again + undelivered
    BY <2>1, <2>2, <2>3
  <2>6. ReconcileAccounting.duplicate < 0 <=> foreign > again + undelivered
    BY <2>1, <2>2, <2>3
  <2> QED
    BY <2>4, <2>5, <2>6 DEF DuplicatesAccounted, ReconciliationRaises,
                            again, foreign, undelivered
<1> QED
    BY <1>1, <1>2, <1>3, TypeCorrect, PTL DEF Spec
=============================================================================
