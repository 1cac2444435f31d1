----------------------------- MODULE StreamJob -----------------------------
(***************************************************************************)
(* The Flink SQL job: one source partition, parallelism one, five sinks.   *)
(* It classifies events, keeps the first valid occurrence of each id,      *)
(* separates late events by the source watermark, aggregates on-time ones  *)
(* in tumbling windows, and maintains the newest cart/buy transition of    *)
(* each (user, item).                                                      *)
(*                                                                         *)
(* The SQL is the source; the semantics it denotes are Flink's:            *)
(*   - the source emits a record and then its watermark, per record        *)
(*     ('on-event'), and takes the watermark of every decoded record,      *)
(*     before validation and deduplication;                                *)
(*   - a checkpoint holds the source offset and every operator's state,    *)
(*     the window operators' own watermark included; the source watermark  *)
(*     is not state, and CURRENT_WATERMARK is NULL after a restore until   *)
(*     the next record is read;                                            *)
(*   - the sinks are at-least-once: a checkpoint flushes them, a failure   *)
(*     loses some suffix of what each topic had not acknowledged, and the  *)
(*     restored job writes again what it reads again;                      *)
(*   - 'fixed-delay' restarts are counted over the job's whole life.       *)
(*                                                                         *)
(* An event is named by its offset in the source topic.  One step handles  *)
(* one record through every operator: the operators form one linear        *)
(* dataflow at parallelism one, and checkpoint barriers travel in it       *)
(* between two records.                                                    *)
(***************************************************************************)
EXTENDS EventContract, FiniteSets

CONSTANTS
    Events,          \* the events producers may write to the source topic
    Delay,           \* max out-of-orderness of the watermark, ms
    WindowSize,      \* INTERVAL '1' MINUTE, ms
    NoWatermark,     \* CURRENT_WATERMARK IS NULL: below every event's
    RestartAttempts, \* restart-strategy.fixed-delay.attempts
    MaxSource,       \* bound: records ever written to the source topic
    MaxResubmits,    \* bound: submissions of the job after the first one
    MaxExpiries      \* bound: state entries that outlive their TTL

ASSUME DelayAssumption == Delay \in Nat
ASSUME WindowAssumption == WindowSize \in Nat \ {0}
ASSUME BoundsAssumption ==
    /\ RestartAttempts \in Nat
    /\ MaxSource \in Nat
    /\ MaxResubmits \in Nat
    /\ MaxExpiries \in Nat
ASSUME EventsAssumption ==
    \A e \in Events :
        {e.user, e.item, e.category, e.time, e.seq} \subseteq Int
ASSUME NoWatermarkAssumption ==
    NoWatermark \in Int /\ \A e \in Events : e.time - Delay > NoWatermark

VARIABLES
    source,     \* topic user-behavior-events
    job,        \* the state a checkpoint holds (JobState)
    wm,         \* the source watermark, NoWatermark while NULL
    ckpt,       \* job at the last completed checkpoint
    out,        \* the five output topics (Outputs)
    durable,    \* what of out the brokers have acknowledged
    status,     \* RUNNING, RESTARTING or GONE
    restarts,   \* restarts of this submission so far
    resubmits, expiries

vars == <<source, job, wm, ckpt, out, durable, status, restarts, resubmits,
          expiries>>

Offsets == 1..Len(source)

Ids == {e.event_id : e \in Events}
CartKeys == {<<e.user, e.item>> : e \in Events}
CartKey(e) == <<e.user, e.item>>

FreshJob == [position |-> 0,                        \* records read
             seen |-> {},                           \* ids of the dedup state
             windowWm |-> NoWatermark,              \* of the window operators
             open |-> {},                           \* offsets in open windows
             top |-> [k \in CartKeys |-> 0]]        \* Top-1 per key; 0: none

NoOutputs == [raw |-> {},          \* offsets
              quality |-> {},      \* [type, at]
              features |-> << >>,  \* rows of user_features_1m
              metrics |-> << >>,   \* rows of the metrics insert
              cart |-> << >>]      \* offsets of the transitions emitted

-----------------------------------------------------------------------------
(* Windows. *)

WindowEnd(e) == WindowSize * (e.time \div WindowSize) + WindowSize

\* A window fires once the watermark reaches its last millisecond.
Closed(e, watermark) == WindowEnd(e) - 1 <= watermark

FeatureRows(S) ==
    {[user |-> source[o].user, end |-> WindowEnd(source[o]),
      events |-> {p \in S : /\ source[p].user = source[o].user
                            /\ WindowEnd(source[p]) = WindowEnd(source[o])}]
        : o \in S}

MetricRows(S) ==
    {[item |-> source[o].item, category |-> source[o].category,
      end |-> WindowEnd(source[o]),
      events |-> {p \in S : /\ source[p].item = source[o].item
                            /\ source[p].category = source[o].category
                            /\ WindowEnd(source[p]) = WindowEnd(source[o])}]
        : o \in S}

\* Timers fire in window order, the keys of one window in no stated order.
Emissions(rows) ==
    {s \in [1..Cardinality(rows) -> rows] :
        \A i, j \in DOMAIN s : i < j => s[i] # s[j] /\ s[i].end <= s[j].end}

-----------------------------------------------------------------------------
(* Reading one record. *)

Ready == status = "RUNNING" /\ job.position < Len(source)
At == job.position + 1
Event == source[At]

WatermarkOf(e) == e.time - Delay
Later(a, b) == IF a >= b THEN a ELSE b

\* Mutant: an event at the watermark itself is on time.
OnTimeAtWatermark(e) == wm = NoWatermark \/ e.time >= wm

\* Mutant: no event is late.
OnTimeAlways(e) == TRUE

OnTime(e) == wm = NoWatermark \/ e.time > wm

\* The record's row reaches the operators first, then its watermark; windows
\* that the watermark closes leave the state and are written out.
ReadEvent(seen, buffered, top, written) ==
    LET watermark == Later(wm, WatermarkOf(Event))
        windowWm == Later(job.windowWm, watermark)
        due == {o \in buffered : Closed(source[o], windowWm)}
    IN  /\ wm' = watermark
        /\ job' = [position |-> At, seen |-> seen, windowWm |-> windowWm,
                   open |-> buffered \ due, top |-> top]
        /\ \E f \in Emissions(FeatureRows(due)), m \in Emissions(MetricRows(due)) :
              out' = [written EXCEPT !.features = @ \o f, !.metrics = @ \o m]
        /\ UNCHANGED <<source, ckpt, durable, status, restarts, resubmits,
                       expiries>>

\* The window operators drop a row whose window they have already fired.
Buffered(o) ==
    IF Closed(source[o], job.windowWm) THEN job.open ELSE job.open \cup {o}

\* Mutant: the last transition to arrive wins.
LastArrivalBecomesTop(o) == IsCartTransition(source[o])

\* Streaming Top-1: on a tie the transition already held stays.
BecomesTop(o) ==
    LET k == CartKey(source[o])
    IN  /\ IsCartTransition(source[o])
        /\ job.top[k] = 0 \/ Newer(source[o], source[job.top[k]])

TopAfter(o) ==
    IF BecomesTop(o) THEN [job.top EXCEPT ![CartKey(source[o])] = o] ELSE job.top

CartAfter(o) == IF BecomesTop(o) THEN Append(out.cart, o) ELSE out.cart

ProcessInvalid ==
    /\ Ready
    /\ ~Valid(Event)
    /\ ReadEvent(job.seen, job.open, job.top,
                 [out EXCEPT !.quality = @ \cup {[type |-> "INVALID", at |-> At]}])

ProcessDuplicate ==
    /\ Ready
    /\ Valid(Event)
    /\ Event.event_id \in job.seen
    /\ ReadEvent(job.seen, job.open, job.top, out)

ProcessOnTime ==
    /\ Ready
    /\ Valid(Event)
    /\ Event.event_id \notin job.seen
    /\ OnTime(Event)
    /\ ReadEvent(job.seen \cup {Event.event_id}, Buffered(At), TopAfter(At),
                 [out EXCEPT !.raw = @ \cup {At}, !.cart = CartAfter(At)])

\* Mutant: the windows read deduplicated_events, late ones included.
ProcessLateAggregates ==
    /\ Ready
    /\ Valid(Event)
    /\ Event.event_id \notin job.seen
    /\ ~OnTime(Event)
    /\ ReadEvent(job.seen \cup {Event.event_id}, job.open \cup {At}, TopAfter(At),
                 [out EXCEPT !.raw = @ \cup {At}, !.cart = CartAfter(At),
                             !.quality = @ \cup {[type |-> "LATE", at |-> At]}])

ProcessLate ==
    /\ Ready
    /\ Valid(Event)
    /\ Event.event_id \notin job.seen
    /\ ~OnTime(Event)
    /\ ReadEvent(job.seen \cup {Event.event_id}, job.open, TopAfter(At),
                 [out EXCEPT !.raw = @ \cup {At}, !.cart = CartAfter(At),
                             !.quality = @ \cup {[type |-> "LATE", at |-> At]}])

Process == ProcessInvalid \/ ProcessDuplicate \/ ProcessOnTime \/ ProcessLate

-----------------------------------------------------------------------------
(* The environment, checkpoints, failures and TTL. *)

\* A producer's record is appended to the topic.
Produce(e) ==
    /\ Len(source) < MaxSource
    /\ source' = Append(source, e)
    /\ UNCHANGED <<job, wm, ckpt, out, durable, status, restarts, resubmits,
                   expiries>>

\* Mutant: sinks that do not flush at a checkpoint ('delivery-guarantee' none).
CheckpointWithoutFlush ==
    /\ status = "RUNNING"
    /\ ckpt' = job
    /\ UNCHANGED <<source, job, wm, out, durable, status, restarts, resubmits,
                   expiries>>

\* A completed checkpoint: state and source offset at the barrier, every sink
\* flushed.
Checkpoint ==
    /\ status = "RUNNING"
    /\ ckpt' = job
    /\ durable' = out
    /\ UNCHANGED <<source, job, wm, out, status, restarts, resubmits, expiries>>

\* What a failure leaves in the topics: of the writes in flight, each topic
\* keeps a prefix in the order they were made.
Survivors ==
    [raw : {durable.raw \cup {o \in out.raw : o <= n} : n \in 0..job.position},
     quality : {durable.quality \cup {q \in out.quality : q.at <= n}
                    : n \in 0..job.position},
     features : {SubSeq(out.features, 1, n)
                    : n \in Len(durable.features)..Len(out.features)},
     metrics : {SubSeq(out.metrics, 1, n)
                    : n \in Len(durable.metrics)..Len(out.metrics)},
     cart : {SubSeq(out.cart, 1, n) : n \in Len(durable.cart)..Len(out.cart)}]

LoseInFlight ==
    \E kept \in Survivors :
        /\ out' = kept
        /\ durable' = kept

\* Mutant: one restart more than the strategy allows.
TaskFailureOffByOne ==
    /\ status = "RUNNING"
    /\ LoseInFlight
    /\ job' = ckpt
    /\ wm' = NoWatermark
    /\ IF restarts <= RestartAttempts
       THEN restarts' = restarts + 1 /\ status' = "RESTARTING"
       ELSE restarts' = restarts /\ status' = "GONE"
    /\ UNCHANGED <<source, ckpt, resubmits, expiries>>

\* A task fails.  The job manager restarts the job from the last checkpoint,
\* until the attempts are used up and the job is FAILED.
TaskFailure ==
    /\ status = "RUNNING"
    /\ LoseInFlight
    /\ job' = ckpt
    /\ wm' = NoWatermark
    /\ IF restarts < RestartAttempts
       THEN restarts' = restarts + 1 /\ status' = "RESTARTING"
       ELSE restarts' = restarts /\ status' = "GONE"
    /\ UNCHANGED <<source, ckpt, resubmits, expiries>>

Restart ==
    /\ status = "RESTARTING"
    /\ status' = "RUNNING"
    /\ UNCHANGED <<source, job, wm, ckpt, out, durable, restarts, resubmits,
                   expiries>>

\* The job manager's container stops: it keeps no HA metadata, so the job and
\* the pointer to its checkpoints are gone.
JobManagerLoss ==
    /\ status # "GONE"
    /\ LoseInFlight
    /\ status' = "GONE"
    /\ job' = ckpt
    /\ wm' = NoWatermark
    /\ UNCHANGED <<source, ckpt, restarts, resubmits, expiries>>

\* Mutant: 'scan.startup.mode' = 'group-offsets'.
ResubmitFromGroupOffsets ==
    /\ status = "GONE"
    /\ resubmits < MaxResubmits
    /\ resubmits' = resubmits + 1
    /\ job' = [FreshJob EXCEPT !.position = ckpt.position]
    /\ ckpt' = [FreshJob EXCEPT !.position = ckpt.position]
    /\ wm' = NoWatermark
    /\ restarts' = 0
    /\ status' = "RUNNING"
    /\ UNCHANGED <<source, out, durable, expiries>>

\* flink-submit runs the job again: no savepoint is given, so it starts from
\* the earliest offset with empty state, over topics that keep their records.
Resubmit ==
    /\ status = "GONE"
    /\ resubmits < MaxResubmits
    /\ resubmits' = resubmits + 1
    /\ job' = FreshJob
    /\ ckpt' = FreshJob
    /\ wm' = NoWatermark
    /\ restarts' = 0
    /\ status' = "RUNNING"
    /\ UNCHANGED <<source, out, durable, expiries>>

\* table.exec.state.ttl drops an id of the dedup state ...
ExpireId(id) ==
    /\ status = "RUNNING"
    /\ id \in job.seen
    /\ expiries < MaxExpiries
    /\ expiries' = expiries + 1
    /\ job' = [job EXCEPT !.seen = @ \ {id}]
    /\ UNCHANGED <<source, wm, ckpt, out, durable, status, restarts, resubmits>>

\* ... or the transition held for a (user, item).
ExpireTop(k) ==
    /\ status = "RUNNING"
    /\ job.top[k] # 0
    /\ expiries < MaxExpiries
    /\ expiries' = expiries + 1
    /\ job' = [job EXCEPT !.top[k] = 0]
    /\ UNCHANGED <<source, wm, ckpt, out, durable, status, restarts, resubmits>>

-----------------------------------------------------------------------------
Init ==
    /\ source = << >>
    /\ job = FreshJob
    /\ wm = NoWatermark
    /\ ckpt = FreshJob
    /\ out = NoOutputs
    /\ durable = NoOutputs
    /\ status = "RUNNING"
    /\ restarts = 0
    /\ resubmits = 0
    /\ expiries = 0

Expire ==
    \/ \E id \in job.seen : ExpireId(id)
    \/ \E k \in CartKeys : ExpireTop(k)

Next ==
    \/ \E e \in Events : Produce(e)
    \/ ProcessInvalid
    \/ ProcessDuplicate
    \/ ProcessOnTime
    \/ ProcessLate
    \/ Checkpoint
    \/ TaskFailure
    \/ Restart
    \/ JobManagerLoss
    \/ Resubmit
    \/ Expire

Spec == Init /\ [][Next]_vars

\* The running job reads what there is to read, its checkpoint timer fires,
\* and the job manager restarts a failed job after the delay.  Nothing forces
\* a failure, and nobody is obliged to resubmit a job that is gone.
Fairness == WF_vars(Process) /\ WF_vars(Checkpoint) /\ WF_vars(Restart)
FairSpec == Spec /\ Fairness

-----------------------------------------------------------------------------
(* What the outputs are compared with: the source topic read as a batch. *)

SameId(o, p) == source[o].event_id = source[p].event_id

FirstOccurrence(o) ==
    /\ Valid(source[o])
    /\ \A p \in 1..(o - 1) : Valid(source[p]) => ~SameId(p, o)

\* Some earlier record, of any kind, put the watermark at or past o.
BehindWatermark(o) ==
    \E p \in 1..(o - 1) : source[o].time <= WatermarkOf(source[p])

IsLate(o) == [type |-> "LATE", at |-> o] \in out.quality
InFeatures(o) == \E i \in DOMAIN out.features : o \in out.features[i].events
InMetrics(o) == \E i \in DOMAIN out.metrics : o \in out.metrics[i].events

Transitions(k) ==
    {o \in Offsets : /\ FirstOccurrence(o)
                     /\ IsCartTransition(source[o])
                     /\ CartKey(source[o]) = k}

\* The newest transition of k, the first read among equals.
IsNewest(o, k) ==
    /\ o \in Transitions(k)
    /\ \A p \in Transitions(k) :
          /\ ~Newer(source[p], source[o])
          /\ p < o => Newer(source[o], source[p])

\* The value the cart topic holds for k: o is the last one written.
IsLastFor(o, k) ==
    \E i \in DOMAIN out.cart :
        /\ out.cart[i] = o
        /\ CartKey(source[o]) = k
        /\ \A j \in DOMAIN out.cart :
              j > i => CartKey(source[out.cart[j]]) # k

Idle == status = "RUNNING" /\ job.position = Len(source)

-----------------------------------------------------------------------------
(* Properties. *)

JobState ==
    [position : 0..Len(source), seen : SUBSET Ids, windowWm : Int,
     open : SUBSET Offsets, top : [CartKeys -> 0..Len(source)]]

FeatureRow == [user : Int, end : Int, events : SUBSET Offsets]
MetricRow == [item : Int, category : Int, end : Int, events : SUBSET Offsets]

Outputs ==
    [raw : SUBSET Offsets,
     quality : SUBSET [type : {"INVALID", "LATE"}, at : Offsets],
     features : Seq(FeatureRow), metrics : Seq(MetricRow), cart : Seq(Offsets)]

\* The shape of the state (no property of the code beyond it).
TypeOK ==
    /\ source \in Seq(Events)
    /\ job \in JobState
    /\ wm \in Int
    /\ ckpt \in JobState
    /\ out \in Outputs
    /\ durable \in Outputs
    /\ status \in {"RUNNING", "RESTARTING", "GONE"}
    /\ restarts \in 0..RestartAttempts
    /\ resubmits \in 0..MaxResubmits
    /\ expiries \in 0..MaxExpiries

\* No record the job has moved past is missing from the topics: a valid one's
\* id stands in canonical raw, an invalid one is audited.  It must survive
\* checkpoints, restores that lose in-flight writes, fresh submissions and the
\* expiry of dedup state (inserts.sql raw and quality; at-least-once sinks).
NoEventLost ==
    \A o \in 1..job.position :
        IF Valid(source[o])
        THEN \E p \in out.raw : SameId(p, o)
        ELSE [type |-> "INVALID", at |-> o] \in out.quality

\* Canonical raw holds the first valid occurrence of an id and no other one,
\* whatever is read twice: by replays of the source, by a restored job or by a
\* fresh one that starts from the earliest offset (accepted_unique_events).
\* Holds while no dedup entry expires.
CanonicalRawExact ==
    expiries = 0 => \A o \in out.raw : FirstOccurrence(o)

\* When the job has caught up, the last cart mutation written for a (user,
\* item) is the newest transition accepted for it, in spite of arrival order,
\* lost writes and writes made again (latest_cart_state, cart_mutations_out).
CartConverges ==
    Idle /\ expiries = 0 =>
        \A k \in CartKeys : \A o \in Offsets : IsLastFor(o, k) <=> IsNewest(o, k)

\* An older cart action never follows a newer purchase of the same (user, item)
\* in the mutation topic (the promise of transformations.sql:121-123).
CartNeverRecreated ==
    \A i, j \in DOMAIN out.cart :
        LET a == source[out.cart[i]]
            b == source[out.cart[j]]
        IN  i < j /\ CartKey(a) = CartKey(b) /\ a.behavior = "buy"
              /\ b.behavior = "cart" => ~Newer(a, b)

\* An accepted event is LATE exactly if an earlier record of the topic puts it
\* at or behind the watermark: the verdict is a function of the source, so a
\* fresh submission repeats it (on_time_events, late_events).
LateIffBehind ==
    \A o \in Offsets : FirstOccurrence(o) =>
        /\ IsLate(o) => BehindWatermark(o)
        /\ o <= job.position /\ BehindWatermark(o) => IsLate(o)

\* accepted_unique = on_time + late: every accepted event that was read is in
\* the late audit or, never in both, in an open window or in both aggregates.
AcceptedIsPlaced ==
    status = "RUNNING" =>
        \A o \in 1..job.position : FirstOccurrence(o) =>
            (IsLate(o) # (o \in job.open \/ (InFeatures(o) /\ InMetrics(o))))

\* Rows written for one window and key agree however often they are written:
\* neither replays nor late records change a closed feature or metric.  Holds
\* while no dedup entry expires.
ClosedWindowStable ==
  expiries = 0 =>
    /\ \A i, j \in DOMAIN out.features :
          LET a == out.features[i]
              b == out.features[j]
          IN  a.user = b.user /\ a.end = b.end => a.events = b.events
    /\ \A i, j \in DOMAIN out.metrics :
          LET a == out.metrics[i]
              b == out.metrics[j]
          IN  a.item = b.item /\ a.category = b.category /\ a.end = b.end
                => a.events = b.events

\* In the life of one submission without restore the versions written for a
\* user only increase, so the serving adapter's version guard drops nothing.
FeatureVersionsIncrease ==
    restarts = 0 /\ resubmits = 0 =>
        \A i, j \in DOMAIN out.features :
            i < j /\ out.features[i].user = out.features[j].user
                => out.features[i].end < out.features[j].end

\* Unless the job is gone, a record of the source is in the end reflected by
\* acknowledged output, however many restarts the attempts allow.
Acknowledged(o) ==
    /\ o <= Len(source)
    /\ IF Valid(source[o])
       THEN \E p \in durable.raw : SameId(p, o)
       ELSE [type |-> "INVALID", at |-> o] \in durable.quality

EventuallyAcknowledged ==
    \A o \in 1..MaxSource :
        (o <= Len(source)) ~> (Acknowledged(o) \/ status = "GONE")
=============================================================================
