---------------------------- MODULE RedisFeatures ----------------------------
(***************************************************************************)
(* The feature materializer: one consumer of the topic of feature          *)
(* snapshots.  It checks a snapshot, offers it to Redis in one Lua call    *)
(* that keeps the greater version, and commits the offset.  A snapshot     *)
(* that fails the checks raises out of the loop: the process ends, the     *)
(* container runtime restarts it, and it polls the same record again.      *)
(***************************************************************************)
EXTENDS Integers, Sequences

CONSTANTS
    Users,
    Snapshots,    \* values the topic may hold
    Null,         \* a record without a value
    Absent,       \* no hash in Redis
    MaxTopic,     \* bound: records ever written to the topic
    MaxCrashes,   \* bound: deaths of the consumer process
    MaxExpiries,  \* bound: hashes whose TTL runs out
    MaxRewinds    \* bound: resets of the group to the earliest offset

ASSUME FeatureBounds ==
    /\ MaxTopic \in Nat /\ MaxCrashes \in Nat
    /\ MaxExpiries \in Nat /\ MaxRewinds \in Nat
ASSUME SnapshotsAssumption == \A s \in Snapshots : s.version \in Int
ASSUME NullAssumption == Null \notin Snapshots /\ Absent \notin Snapshots

VARIABLES
    topic,      \* snapshots and Nulls
    position,   \* offset of the last record polled
    committed,  \* last committed offset of the consumer group
    phase,      \* poll, commit, down
    store,      \* Redis: user -> snapshot or Absent
    crashes, expiries, rewinds

bounds == <<crashes, expiries, rewinds>>
vars == <<topic, position, committed, phase, store, bounds>>

\* The checks of apply_feature_snapshot and feature_key.
SnapshotAccepted(s) ==
    /\ s.user > 0
    /\ s.version > 0
    /\ ~s.blank_id
    /\ s.pv >= 0 /\ s.cart >= 0 /\ s.fav >= 0 /\ s.buy >= 0
    /\ s.events = s.pv + s.cart + s.fav + s.buy
    /\ s.distinct_items \in 0..s.events

\* Mutant: a snapshot of the current version replaces it.
AppliedOnEqual(s) ==
    IF store[s.user] # Absent /\ store[s.user].version > s.version
    THEN store ELSE [store EXCEPT ![s.user] = s]

\* Mutant: the last snapshot to arrive wins.
AppliedAlways(s) == [store EXCEPT ![s.user] = s]

\* The Lua script: a current version at or above the offered one wins.
Applied(s) ==
    IF store[s.user] # Absent /\ store[s.user].version >= s.version
    THEN store ELSE [store EXCEPT ![s.user] = s]

\* A snapshot that passes names one of the users whose hashes are modelled.
ASSUME UsersAssumption ==
    \A s \in Snapshots : SnapshotAccepted(s) => s.user \in Users

Init ==
    /\ topic = << >>
    /\ position = 0 /\ committed = 0 /\ phase = "poll"
    /\ store = [u \in Users |-> Absent]
    /\ crashes = 0 /\ expiries = 0 /\ rewinds = 0

Produce(record) ==
    /\ Len(topic) < MaxTopic
    /\ topic' = Append(topic, record)
    /\ UNCHANGED <<position, committed, phase, store, bounds>>

Polls == phase = "poll" /\ position < Len(topic)
Polled == topic[position + 1]

\* Mutant: a null value raises out of the loop.
SkipRaises ==
    /\ Polls
    /\ Polled = Null
    /\ phase' = "down"
    /\ UNCHANGED <<topic, position, committed, store, bounds>>

Skip ==
    /\ Polls
    /\ Polled = Null
    /\ position' = position + 1
    /\ phase' = "commit"
    /\ UNCHANGED <<topic, committed, store, bounds>>

Apply ==
    /\ Polls
    /\ Polled # Null
    /\ SnapshotAccepted(Polled)
    /\ store' = Applied(Polled)
    /\ position' = position + 1
    /\ phase' = "commit"
    /\ UNCHANGED <<topic, committed, bounds>>

\* Mutant: a refused snapshot is passed over.
RefusePassesOver ==
    /\ Polls
    /\ Polled # Null
    /\ ~SnapshotAccepted(Polled)
    /\ position' = position + 1
    /\ phase' = "commit"
    /\ UNCHANGED <<topic, committed, store, bounds>>

\* ValueError out of the loop; the finally block closes the consumer.
Refuse ==
    /\ Polls
    /\ Polled # Null
    /\ ~SnapshotAccepted(Polled)
    /\ phase' = "down"
    /\ UNCHANGED <<topic, position, committed, store, bounds>>

\* Mutant: the next offset is counted twice.
CommitOffByOne ==
    /\ phase = "commit"
    /\ committed' = position + 1
    /\ phase' = "poll"
    /\ UNCHANGED <<topic, position, store, bounds>>

Commit ==
    /\ phase = "commit"
    /\ committed' = position
    /\ phase' = "poll"
    /\ UNCHANGED <<topic, position, store, bounds>>

Crash ==
    /\ phase # "down"
    /\ crashes < MaxCrashes
    /\ crashes' = crashes + 1
    /\ phase' = "down"
    /\ UNCHANGED <<topic, position, committed, store, expiries, rewinds>>

Restart ==
    /\ phase = "down"
    /\ position' = committed
    /\ phase' = "poll"
    /\ UNCHANGED <<topic, committed, store, bounds>>

\* A new group name, or offsets the broker no longer has: earliest again.
Rewind ==
    /\ phase = "down"
    /\ rewinds < MaxRewinds
    /\ rewinds' = rewinds + 1
    /\ committed' = 0
    /\ UNCHANGED <<topic, position, phase, store, crashes, expiries>>

ExpireHash(u) ==
    /\ store[u] # Absent
    /\ expiries < MaxExpiries
    /\ expiries' = expiries + 1
    /\ store' = [store EXCEPT ![u] = Absent]
    /\ UNCHANGED <<topic, position, committed, phase, crashes, rewinds>>

Consume == Skip \/ Apply \/ Refuse \/ Commit

Next ==
    \/ \E record \in Snapshots \cup {Null} : Produce(record)
    \/ Skip
    \/ Apply
    \/ Refuse
    \/ Commit
    \/ Crash
    \/ Restart
    \/ Rewind
    \/ \E u \in Users : ExpireHash(u)

Spec == Init /\ [][Next]_vars
FairSpec == Spec /\ WF_vars(Consume) /\ WF_vars(Restart)

-----------------------------------------------------------------------------
TypeOK ==
    /\ topic \in Seq(Snapshots \cup {Null})
    /\ position \in 0..Len(topic) /\ committed \in 0..Len(topic)
    /\ phase \in {"poll", "commit", "down"}
    /\ store \in [Users -> Snapshots \cup {Absent}]
    /\ crashes \in 0..MaxCrashes /\ expiries \in 0..MaxExpiries
    /\ rewinds \in 0..MaxRewinds

\* Offsets are committed only after Redis accepted or safely rejected the
\* snapshot (redis_features.py:5-6): behind the committed offset there is no
\* refused record, and no snapshot newer than the one served.
CommittedIsServed ==
    \A o \in 1..committed : topic[o] # Null =>
        /\ SnapshotAccepted(topic[o])
        /\ expiries = 0 => /\ store[topic[o].user] # Absent
                           /\ store[topic[o].user].version >= topic[o].version

\* Redis serves a snapshot the topic holds for that user, and of those of its
\* version the one that came first: redelivery never replaces it.
ServesFirstOfVersion ==
    expiries = 0 => \A u \in Users : store[u] # Absent =>
        \E o \in 1..Len(topic) :
            /\ topic[o] = store[u] /\ store[u].user = u
            /\ \A p \in 1..(o - 1) :
                  topic[p] # Null /\ topic[p].user = u /\ SnapshotAccepted(topic[p])
                     => topic[p].version < topic[o].version

\* The store is the abstract register, through crashes, redeliveries, rewinds
\* and expiry.
Register == INSTANCE FeatureRegister
                WITH served <- store,
                     Snapshots <- {s \in Snapshots : SnapshotAccepted(s)}
RefinesRegister == Register!Spec

\* A snapshot is consumed in the end, unless a refused record precedes it.
EverySnapshotConsumed ==
    \A o \in 1..MaxTopic :
        (o <= Len(topic)) ~>
            (committed >= o \/ \E p \in 1..o : /\ p <= Len(topic)
                                               /\ topic[p] # Null
                                               /\ ~SnapshotAccepted(topic[p]))
=============================================================================
