------------------------ MODULE RedisFeaturesProofs ------------------------
(***************************************************************************)
(* The feature store for every set of users and snapshots and any number   *)
(* of crashes, rewinds and expiries, and what its readers rely on, for any *)
(* number of clients.                                                      *)
(***************************************************************************)
EXTENDS FeatureReads, TLAPS, SequenceTheorems

LEMMA PolledType ==
    ASSUME TypeOK, Polls, Polled # Null, SnapshotAccepted(Polled)
    PROVE  Polled \in Snapshots /\ Polled.user \in Users
<1>1. position + 1 \in 1..Len(topic)
    BY LenProperties DEF TypeOK, Polls
<1>2. Polled \in Snapshots \cup {Null}
    BY <1>1, ElementOfSeq DEF TypeOK, Polled
<1> QED
    BY <1>2, UsersAssumption

LEMMA TypeStep ==
    ASSUME TypeOK, [Next]_vars
    PROVE  TypeOK'
<1>0. Len(topic) \in Nat
    BY LenProperties DEF TypeOK
<1>1. CASE \E record \in Snapshots \cup {Null} : Produce(record)
  <2>1. PICK record \in Snapshots \cup {Null} : Produce(record)
    BY <1>1
  <2>2. topic' \in Seq(Snapshots \cup {Null}) /\ Len(topic') = Len(topic) + 1
    BY <2>1, AppendProperties DEF TypeOK, Produce
  <2> QED
    BY <1>0, <2>1, <2>2 DEF TypeOK, Produce, bounds
<1>2. CASE Skip
    BY <1>0, <1>2 DEF TypeOK, Skip, Polls, bounds
<1>3. CASE Apply
  <2>1. Applied(Polled) \in [Users -> Snapshots \cup {Absent}]
    BY <1>3, PolledType DEF TypeOK, Apply, Applied
  <2> QED
    BY <1>0, <1>3, <2>1 DEF TypeOK, Apply, Polls, bounds
<1>4. CASE Refuse
    BY <1>4 DEF TypeOK, Refuse, bounds
<1>5. CASE Commit
    BY <1>5 DEF TypeOK, Commit, bounds
<1>6. CASE Crash
    BY <1>6, FeatureBounds DEF TypeOK, Crash
<1>7. CASE Restart
    BY <1>7 DEF TypeOK, Restart, bounds
<1>8. CASE Rewind
    BY <1>0, <1>8, FeatureBounds DEF TypeOK, Rewind
<1>9. CASE \E u \in Users : ExpireHash(u)
    BY <1>9, FeatureBounds DEF TypeOK, ExpireHash
<1>10. CASE UNCHANGED vars
    BY <1>10 DEF TypeOK, vars, bounds
<1> QED
    BY <1>1, <1>2, <1>3, <1>4, <1>5, <1>6, <1>7, <1>8, <1>9, <1>10 DEF Next

\* Type correctness of the materializer's state and of Redis.
THEOREM TypeCorrect == Spec => []TypeOK
<1>1. Init => TypeOK
    BY FeatureBounds, EmptySeq DEF Init, TypeOK
<1>2. TypeOK /\ [Next]_vars => TypeOK'
    BY TypeStep
<1> QED
    BY <1>1, <1>2, PTL DEF Spec

-----------------------------------------------------------------------------
\* The materializer over Redis implements the abstract register: a step that
\* changes the store replaces a user's snapshot by a newer accepted one or
\* forgets it, through crashes, redelivery, rewinds and expiry.
THEOREM Refinement == Spec => RefinesRegister
<1>1. Init => Register!Init
    BY DEF Init, Register!Init
<1>2. ASSUME TypeOK, [Next]_vars
      PROVE  [Register!Next]_store
  <2>1. CASE Apply
    <3>1. Polled \in Snapshots /\ Polled.user \in Users /\ SnapshotAccepted(Polled)
        BY <1>2, <2>1, PolledType DEF Apply
    <3>2. CASE store' = store
        BY <3>2
    <3>3. CASE store' # store
      <4>1. /\ store' = [store EXCEPT ![Polled.user] = Polled]
            /\ store[Polled.user] = Absent
                  \/ ~(store[Polled.user].version >= Polled.version)
        BY <2>1, <3>3 DEF Apply, Applied
      <4>2. /\ Polled.version \in Int
            /\ store[Polled.user] # Absent => store[Polled.user].version \in Int
        BY <1>2, <3>1, SnapshotsAssumption DEF TypeOK
      <4>3. store[Polled.user] = Absent \/ Polled.version > store[Polled.user].version
        BY <4>1, <4>2
      <4> QED
        BY <3>1, <4>1, <4>3 DEF Register!Next, Register!Offer
    <3> QED
        BY <3>2, <3>3
  <2>2. CASE \E u \in Users : ExpireHash(u)
    BY <2>2 DEF ExpireHash, Register!Next, Register!Forget
  <2>3. CASE UNCHANGED store
    BY <2>3
  <2> QED
    BY <1>2, <2>1, <2>2, <2>3
    DEF Next, Produce, Skip, Refuse, Commit, Crash, Restart, Rewind, vars
<1> QED
    BY <1>1, <1>2, TypeCorrect, PTL DEF Spec, RefinesRegister, Register!Spec

-----------------------------------------------------------------------------
(* Behind the position of the consumer, and so behind the committed offset,  *)
(* every snapshot has been offered.  After a crash the position falls back   *)
(* to the committed offset, hence the same claim of both.                    *)

Offered(o) ==
    topic[o] # Null =>
        /\ SnapshotAccepted(topic[o])
        /\ expiries = 0 => /\ store[topic[o].user] # Absent
                           /\ store[topic[o].user].version >= topic[o].version

OfferedInv ==
    /\ \A o \in 1..position : Offered(o)
    /\ \A o \in 1..committed : Offered(o)

LEMMA OfferedStep ==
    ASSUME TypeOK, OfferedInv, [Next]_vars
    PROVE  OfferedInv'
<1>0. position \in Nat /\ committed \in Nat /\ Len(topic) \in Nat
    BY LenProperties DEF TypeOK
<1>1. CASE \E record \in Snapshots \cup {Null} : Produce(record)
  <2>1. PICK record \in Snapshots \cup {Null} : Produce(record)
    BY <1>1
  <2>2. \A o \in 1..Len(topic) : topic'[o] = topic[o]
    BY <2>1, AppendProperties DEF TypeOK, Produce
  <2>3. 1..position \subseteq 1..Len(topic) /\ 1..committed \subseteq 1..Len(topic)
    BY <1>0 DEF TypeOK
  <2> QED
    BY <2>1, <2>2, <2>3 DEF OfferedInv, Offered, Produce, bounds
<1>2. CASE Skip
  <2>1. 1..(position + 1) = (1..position) \cup {position + 1}
    BY <1>0
  <2> QED
    BY <1>2, <2>1 DEF Skip, Polled, OfferedInv, Offered, bounds
<1>3. CASE Apply
  <2>1. 1..(position + 1) = (1..position) \cup {position + 1}
    BY <1>0
  <2>2. Polled \in Snapshots /\ Polled.user \in Users /\ SnapshotAccepted(Polled)
    BY <1>3, PolledType DEF Apply
  <2>3. UNCHANGED <<topic, committed, bounds>> /\ position' = position + 1
        /\ store' = Applied(Polled)
    BY <1>3 DEF Apply
  <2>4. ASSUME NEW o \in 1..Len(topic), Offered(o)
        PROVE  Offered(o)'
    <3>1. CASE topic[o] = Null \/ expiries # 0
        BY <2>3, <2>4, <3>1 DEF Offered, bounds, SnapshotAccepted
    <3>2. CASE topic[o] # Null /\ expiries = 0
      <4>1. topic[o] \in Snapshots /\ topic[o].user \in Users
        BY <2>4, <3>2, ElementOfSeq, UsersAssumption DEF TypeOK, Offered
      <4>2. /\ topic[o].version \in Int /\ Polled.version \in Int
            /\ store[topic[o].user].version \in Int
        BY <2>2, <2>4, <3>2, <4>1, SnapshotsAssumption DEF TypeOK, Offered
      <4>3. /\ store'[topic[o].user] # Absent
            /\ store'[topic[o].user].version >= topic[o].version
        BY <2>2, <2>3, <2>4, <3>2, <4>1, <4>2, NullAssumption
        DEF TypeOK, Offered, Applied
      <4> QED
        BY <2>3, <2>4, <3>2, <4>3 DEF Offered, SnapshotAccepted
    <3> QED
        BY <3>1, <3>2
  <2>5. PICK next \in Nat : next = position + 1
    BY <1>0
  <2>6. Offered(next)'
    <3>1. topic' = topic /\ topic[next] = Polled
        BY <2>3, <2>5 DEF Polled
    <3>2. Polled.version \in Int
        BY <2>2, SnapshotsAssumption
    <3>3. store'[Polled.user] # Absent /\ store'[Polled.user].version >= Polled.version
        BY <2>2, <2>3, <3>2, NullAssumption DEF TypeOK, Applied
    <3> QED
        BY <2>2, <3>1, <3>3 DEF Offered, SnapshotAccepted
  <2>7. 1..position \subseteq 1..Len(topic) /\ 1..committed \subseteq 1..Len(topic)
    BY <1>0 DEF TypeOK
  <2> QED
    BY <2>1, <2>3, <2>4, <2>5, <2>6, <2>7 DEF OfferedInv
<1>4. CASE Refuse \/ Crash
    BY <1>4 DEF Refuse, Crash, OfferedInv, Offered, bounds
<1>5. CASE Commit
    BY <1>5 DEF Commit, OfferedInv, Offered, bounds
<1>6. CASE Restart
    BY <1>6 DEF Restart, OfferedInv, Offered, bounds
<1>7. CASE Rewind
    BY <1>7 DEF Rewind, OfferedInv, Offered
<1>8. CASE \E u \in Users : ExpireHash(u)
    BY <1>8, FeatureBounds DEF ExpireHash, OfferedInv, Offered, TypeOK
<1>9. CASE UNCHANGED vars
    BY <1>9 DEF vars, bounds, OfferedInv, Offered
<1> QED
    BY <1>1, <1>2, <1>3, <1>4, <1>5, <1>6, <1>7, <1>8, <1>9 DEF Next

\* No offset is committed past a snapshot that was refused, or that is newer
\* than what Redis serves.
THEOREM CommittedServed == Spec => []CommittedIsServed
<1>1. Init => OfferedInv
    BY DEF Init, OfferedInv
<1>2. TypeOK /\ OfferedInv /\ [Next]_vars => OfferedInv'
    BY OfferedStep
<1>3. OfferedInv => CommittedIsServed
    BY DEF OfferedInv, Offered, CommittedIsServed
<1> QED
    BY <1>1, <1>2, <1>3, TypeCorrect, PTL DEF Spec

-----------------------------------------------------------------------------
(* Of the snapshots of one version the first is served: when a snapshot      *)
(* replaces another, whatever stands before it has been offered, and so is   *)
(* no newer than the one it replaces.                                        *)

\* The snapshot at o is the first accepted one of its user to have its version.
FirstOfVersion(u, o) ==
    /\ topic[o] = store[u] /\ store[u].user = u
    /\ \A p \in 1..(o - 1) :
          topic[p] # Null /\ topic[p].user = u /\ SnapshotAccepted(topic[p])
             => topic[p].version < topic[o].version

LEMMA ServedStays ==
    ASSUME TypeOK, ServesFirstOfVersion, NEW u \in Users,
           expiries = 0, store[u] # Absent,
           store'[u] = store[u], Len(topic') \in Nat, Len(topic') >= Len(topic),
           \A o \in 1..Len(topic) : topic'[o] = topic[o]
    PROVE  \E o \in 1..Len(topic') : FirstOfVersion(u, o)'
<1>1. PICK o \in 1..Len(topic) : FirstOfVersion(u, o)
    BY DEF ServesFirstOfVersion, FirstOfVersion
<1>2. Len(topic) \in Nat
    BY LenProperties DEF TypeOK
<1>3. o \in 1..Len(topic') /\ 1..(o - 1) \subseteq 1..Len(topic)
    BY <1>2
<1>4. topic'[o] = topic[o] /\ \A p \in 1..(o - 1) : topic'[p] = topic[p]
    BY <1>3
<1>5. FirstOfVersion(u, o)'
    BY <1>1, <1>4 DEF FirstOfVersion, SnapshotAccepted
<1> QED
    BY <1>3, <1>5

LEMMA ReplacedIsOlder ==
    ASSUME TypeOK, OfferedInv, Apply, expiries = 0,
           NEW u \in Users, store'[u] # store[u],
           NEW n \in Nat, n = position + 1
    PROVE  FirstOfVersion(u, n)'
<1>1. Polled \in Snapshots /\ Polled.user \in Users /\ Polled.version \in Int
    BY PolledType, SnapshotsAssumption DEF Apply
<1>2. /\ store' = [store EXCEPT ![Polled.user] = Polled]
      /\ ~(store[Polled.user] # Absent
            /\ store[Polled.user].version >= Polled.version)
    BY DEF Apply, Applied
<1>3. u = Polled.user /\ store'[u] = Polled /\ topic' = topic /\ topic[n] = Polled
    BY <1>1, <1>2 DEF TypeOK, Apply, Polled
<1>4. position \in Nat /\ position <= Len(topic) /\ Len(topic) \in Nat
    BY LenProperties DEF TypeOK
<1>5. ASSUME NEW p \in 1..position, topic[p] # Null, topic[p].user = u
      PROVE  topic[p].version < Polled.version
  <2>1. store[u] # Absent /\ store[u].version >= topic[p].version
    BY <1>5 DEF OfferedInv, Offered
  <2>2. topic[p] \in Snapshots
    BY <1>4, <1>5, ElementOfSeq DEF TypeOK
  <2>3. topic[p].version \in Int /\ store[u].version \in Int
    BY <2>1, <2>2, SnapshotsAssumption DEF TypeOK
  <2> QED
    BY <1>1, <1>2, <1>3, <2>1, <2>3
<1>6. 1..(n - 1) = 1..position
    BY <1>4
<1> QED
    BY <1>3, <1>5, <1>6 DEF FirstOfVersion

LEMMA ServedStep ==
    ASSUME TypeOK, TypeOK', OfferedInv, ServesFirstOfVersion, [Next]_vars
    PROVE  ServesFirstOfVersion'
<1> SUFFICES ASSUME expiries' = 0, NEW u \in Users, store'[u] # Absent
             PROVE  \E o \in 1..Len(topic') : FirstOfVersion(u, o)'
    BY DEF ServesFirstOfVersion, FirstOfVersion
<1>0. Len(topic) \in Nat /\ Len(topic') \in Nat /\ expiries \in Nat
    BY LenProperties, FeatureBounds DEF TypeOK
<1>1. CASE \E record \in Snapshots \cup {Null} : Produce(record)
  <2>1. PICK record \in Snapshots \cup {Null} : Produce(record)
    BY <1>1
  <2>2. /\ Len(topic') = Len(topic) + 1
        /\ \A o \in 1..Len(topic) : topic'[o] = topic[o]
    BY <2>1, AppendProperties DEF TypeOK, Produce
  <2>3. store' = store /\ expiries' = expiries
    BY <2>1 DEF Produce, bounds
  <2> QED
    BY <1>0, <2>2, <2>3, ServedStays
<1>2. CASE Apply
  <2>1. expiries' = expiries /\ topic' = topic
    BY <1>2 DEF Apply, bounds
  <2>2. CASE store'[u] = store[u]
    BY <1>0, <2>1, <2>2, ServedStays
  <2>3. CASE store'[u] # store[u]
    <3>1. PICK n \in Nat : n = position + 1
      BY DEF TypeOK
    <3>2. FirstOfVersion(u, n)'
      BY <1>2, <2>1, <2>3, <3>1, ReplacedIsOlder
    <3>3. n \in 1..Len(topic')
      BY <1>2, <2>1, <3>1 DEF Apply, Polls, TypeOK
    <3> QED
      BY <3>2, <3>3
  <2> QED
    BY <2>2, <2>3
<1>3. CASE \E v \in Users : ExpireHash(v)
    BY <1>0, <1>3 DEF ExpireHash
<1>4. CASE UNCHANGED <<topic, store, expiries>>
    BY <1>0, <1>4, ServedStays
<1> QED
    BY <1>1, <1>2, <1>3, <1>4
    DEF Next, Skip, Refuse, Commit, Crash, Restart, Rewind, vars, bounds

\* Redelivery, a rewind or a second snapshot of a version never replaces the
\* one served: Redis serves the first of its version the topic holds.
THEOREM FirstServed == Spec => []ServesFirstOfVersion
<1>1. Init => OfferedInv /\ ServesFirstOfVersion
    BY DEF Init, OfferedInv, ServesFirstOfVersion
<1>2. TypeOK /\ OfferedInv /\ [Next]_vars => OfferedInv'
    BY OfferedStep
<1>3. TypeOK /\ TypeOK' /\ OfferedInv /\ ServesFirstOfVersion /\ [Next]_vars
        => ServesFirstOfVersion'
    BY ServedStep
<1> QED
    BY <1>1, <1>2, <1>3, TypeCorrect, PTL DEF Spec

-----------------------------------------------------------------------------
(***************************************************************************)
(* The reads.  The store only moves to greater versions until a hash       *)
(* expires, so what was answered, or read for an answer, bounds it from    *)
(* below for good.                                                         *)
(***************************************************************************)
Requests == [phase : {"idle", "read"}, user : Users \cup {0},
             values : Snapshots \cup {Absent}, floor : Int]

ReadTypeOK ==
    /\ TypeOK
    /\ request \in [Clients -> Requests]
    /\ \A c \in Clients : request[c].phase = "read" => request[c].user \in Users
    /\ answered \in [Users -> Int]

\* The store holds for user u a snapshot of version v or a newer one.
Holds(u, v) == store[u] # Absent /\ store[u].version >= v

\* Only accepted snapshots reach the store.
VersionsPositive == \A u \in Users : store[u] # Absent => store[u].version > 0

ReadInv ==
    expiries = 0 =>
        /\ \A u \in Users : answered[u] <= 0 \/ Holds(u, answered[u])
        /\ \A c \in Clients : request[c].phase = "read" =>
              /\ VersionShown(request[c]) >= request[c].floor
              /\ request[c].values # Absent =>
                    Holds(request[c].user, request[c].values.version)

LEMMA ReadStepIsStep == [ReadNext]_readVars => [Next]_vars
    BY DEF ReadNext, ReadHash, Answer, readVars, vars

\* The API's reads change nothing the materializer or Redis has: what is proved
\* of the specification without them holds beside them.
THEOREM ReadsDisturbNothing == ReadSpec => Spec
<1>1. ReadInit => Init
    BY DEF ReadInit
<1> QED
    BY <1>1, ReadStepIsStep, PTL DEF ReadSpec, Spec

\* Until a hash expires no step takes a user's snapshot away or back.
LEMMA StoreAdvances ==
    ASSUME TypeOK, [Next]_vars, expiries' = 0,
           NEW u \in Users, NEW v \in Int, Holds(u, v)
    PROVE  expiries = 0 /\ Holds(u, v)'
<1>1. expiries \in Nat /\ store \in [Users -> Snapshots \cup {Absent}]
    BY FeatureBounds DEF TypeOK
<1>2. CASE Apply
  <2>1. Polled \in Snapshots /\ Polled.user \in Users
    BY <1>2, PolledType DEF Apply
  <2>2. Polled.version \in Int /\ store[u].version \in Int
    BY <1>1, <2>1, SnapshotsAssumption DEF Holds
  <2>3. store' = Applied(Polled) /\ expiries' = expiries
    BY <1>2 DEF Apply, bounds
  <2> QED
    BY <1>1, <2>1, <2>2, <2>3, NullAssumption DEF Holds, Applied
<1>3. CASE \E w \in Users : ExpireHash(w)
    BY <1>1, <1>3 DEF ExpireHash
<1>4. CASE UNCHANGED <<store, expiries>>
    BY <1>4 DEF Holds
<1> QED
    BY <1>2, <1>3, <1>4
    DEF Next, Produce, Skip, Refuse, Commit, Crash, Restart, Rewind, vars, bounds

LEMMA VersionsStep ==
    ASSUME TypeOK, VersionsPositive, [Next]_vars
    PROVE  VersionsPositive'
<1>1. CASE Apply
  <2>1. Polled \in Snapshots /\ Polled.user \in Users /\ Polled.version > 0
    BY <1>1, PolledType DEF Apply, SnapshotAccepted
  <2>2. store' = Applied(Polled) /\ store \in [Users -> Snapshots \cup {Absent}]
    BY <1>1 DEF Apply, TypeOK
  <2> QED
    BY <2>1, <2>2 DEF Applied, VersionsPositive
<1>2. CASE \E w \in Users : ExpireHash(w)
    BY <1>2 DEF ExpireHash, VersionsPositive, TypeOK
<1>3. CASE UNCHANGED store
    BY <1>3 DEF VersionsPositive
<1> QED
    BY <1>1, <1>2, <1>3
    DEF Next, Produce, Skip, Refuse, Commit, Crash, Restart, Rewind, vars

LEMMA ReadTypeStep ==
    ASSUME ReadTypeOK, [ReadNext]_readVars
    PROVE  ReadTypeOK'
<1>1. TypeOK'
    BY TypeStep, ReadStepIsStep DEF ReadTypeOK
<1>2. \A s \in Snapshots : s.version \in Int
    BY SnapshotsAssumption
<1>3. CASE UNCHANGED <<request, answered>>
    BY <1>1, <1>3 DEF ReadTypeOK
<1>4. ASSUME NEW c \in Clients, NEW u \in Users, ReadHash(c, u)
      PROVE  ReadTypeOK'
  <2>1. [phase |-> "read", user |-> u, values |-> store[u], floor |-> answered[u]]
            \in Requests
    BY DEF ReadTypeOK, TypeOK, Requests
  <2> QED
    BY <1>1, <1>4, <2>1 DEF ReadTypeOK, ReadHash
<1>5. ASSUME NEW c \in Clients, Answer(c)
      PROVE  ReadTypeOK'
  <2>1. Idle \in Requests
    BY DEF Idle, Requests
  <2>2. VersionShown(request[c]) \in Int
    BY <1>2 DEF ReadTypeOK, Requests, VersionShown
  <2> QED
    BY <1>1, <1>5, <2>1, <2>2 DEF ReadTypeOK, Answer, Idle
<1> QED
    BY <1>3, <1>4, <1>5 DEF ReadNext, readVars

LEMMA ReadInvStep ==
    ASSUME ReadTypeOK, VersionsPositive, ReadInv, [ReadNext]_readVars
    PROVE  ReadInv'
<1> SUFFICES ASSUME expiries' = 0
             PROVE  ReadInv'
    BY DEF ReadInv
<1>1. \A s \in Snapshots : s.version \in Int
    BY SnapshotsAssumption
<1>2. TypeOK /\ [Next]_vars
    BY ReadStepIsStep DEF ReadTypeOK
<1>3. expiries = 0
    BY <1>2, FeatureBounds
    DEF TypeOK, Next, Produce, Skip, Apply, Refuse, Commit, Crash, Restart, Rewind,
        ExpireHash, vars, bounds
<1>4. \A u \in Users, v \in Int : Holds(u, v) => Holds(u, v)'
    BY <1>2, StoreAdvances
<1>5. CASE UNCHANGED <<request, answered>>
  <2>1. \A u \in Users : answered'[u] <= 0 \/ Holds(u, answered[u])'
    BY <1>3, <1>4, <1>5 DEF ReadInv, ReadTypeOK
  <2>2. ASSUME NEW c \in Clients, request'[c].phase = "read"
        PROVE  /\ VersionShown(request[c])' >= request'[c].floor
               /\ request'[c].values # Absent =>
                     Holds(request[c].user, request[c].values.version)'
    <3>1. request[c].user \in Users /\ request[c].values \in Snapshots \cup {Absent}
        BY <1>5, <2>2 DEF ReadTypeOK, Requests
    <3> QED
        BY <1>1, <1>3, <1>4, <1>5, <2>2, <3>1 DEF ReadInv, VersionShown
  <2> QED
    BY <1>5, <2>1, <2>2 DEF ReadInv, Holds
<1>6. ASSUME NEW c \in Clients, NEW u \in Users, ReadHash(c, u)
      PROVE  ReadInv'
  <2>1. UNCHANGED <<store, answered>>
    BY <1>6 DEF ReadHash, vars
  <2>2. ASSUME NEW d \in Clients, request'[d].phase = "read"
        PROVE  /\ VersionShown(request[d])' >= request'[d].floor
               /\ request'[d].values # Absent =>
                     Holds(request[d].user, request[d].values.version)'
    <3>1. CASE d = c
      <4>1. request'[d] = [phase |-> "read", user |-> u, values |-> store[u],
                           floor |-> answered[u]]
        BY <1>6, <3>1 DEF ReadHash, ReadTypeOK
      <4>2. store[u] \in Snapshots \cup {Absent} /\ answered[u] \in Int
        BY DEF ReadTypeOK, TypeOK
      <4> QED
        BY <1>1, <1>3, <2>1, <4>1, <4>2
        DEF ReadInv, Holds, VersionShown, VersionsPositive
    <3>2. CASE d # c
      <4>1. request'[d] = request[d]
        BY <1>6, <3>2 DEF ReadHash, ReadTypeOK
      <4> QED
        BY <1>3, <2>1, <2>2, <4>1 DEF ReadInv, Holds, VersionShown
    <3> QED
        BY <3>1, <3>2
  <2> QED
    BY <1>3, <2>1, <2>2 DEF ReadInv, Holds
<1>7. ASSUME NEW c \in Clients, Answer(c)
      PROVE  ReadInv'
  <2>1. /\ UNCHANGED <<store, expiries>>
        /\ request[c].phase = "read"
        /\ request' = [request EXCEPT ![c] = Idle]
        /\ answered' = [answered EXCEPT ![request[c].user] =
                           IF VersionShown(request[c]) > @
                           THEN VersionShown(request[c]) ELSE @]
    BY <1>7 DEF Answer, vars, bounds
  <2>2. \A d \in Clients : request'[d].phase = "read" => request'[d] = request[d]
    BY <2>1 DEF ReadTypeOK, Idle
  <2>3. ASSUME NEW w \in Users
        PROVE  answered'[w] <= 0 \/ Holds(w, answered[w])'
    <3>1. request[c].user \in Users /\ request[c].values \in Snapshots \cup {Absent}
        BY <2>1 DEF ReadTypeOK, Requests
    <3>2. VersionShown(request[c]) <= 0
             \/ Holds(request[c].user, VersionShown(request[c]))
        BY <1>3, <2>1 DEF ReadInv, VersionShown
    <3> QED
        BY <1>3, <2>1, <3>1, <3>2 DEF ReadInv, ReadTypeOK, Holds
  <2> QED
    BY <1>3, <2>1, <2>2, <2>3 DEF ReadInv, Holds, VersionShown
<1> QED
    BY <1>5, <1>6, <1>7 DEF ReadNext, readVars

\* An answer never shows an older snapshot than an answer given before its
\* request began, and never carries the TTL of an older snapshot than its own.
THEOREM AnswersAdvance == ReadSpec => []AnswersNeverGoBack
<1>1. ReadInit => ReadTypeOK /\ VersionsPositive /\ ReadInv
  <2>1. ASSUME ReadInit PROVE TypeOK
    BY <2>1, FeatureBounds, EmptySeq DEF ReadInit, Init, TypeOK
  <2> QED
    BY <2>1 DEF ReadInit, Init, ReadTypeOK, VersionsPositive, ReadInv, Requests, Idle
<1>2. ReadTypeOK /\ VersionsPositive /\ ReadInv /\ [ReadNext]_readVars
        => ReadTypeOK' /\ VersionsPositive' /\ ReadInv'
    BY ReadTypeStep, ReadInvStep, VersionsStep, ReadStepIsStep DEF ReadTypeOK
<1>3. ReadInv => AnswersNeverGoBack
    BY DEF ReadInv, Holds, AnswersNeverGoBack
<1> QED
    BY <1>1, <1>2, <1>3, PTL DEF ReadSpec
=============================================================================
