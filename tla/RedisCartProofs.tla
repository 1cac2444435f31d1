--------------------------- MODULE RedisCartProofs ---------------------------
(***************************************************************************)
(* The cart store and its readers for every set of users and items, every  *)
(* length of the topic and any number of crashes, expiries, rebuilds and   *)
(* failures of the Redis host.                                             *)
(*                                                                         *)
(* The materializer keeps no version.  What makes it right is that the     *)
(* last write of a key is never compacted away, so that it is pending as   *)
(* long as it lies behind the position.                                    *)
(***************************************************************************)
EXTENDS CartReads, TLAPS, SequenceTheorems, FiniteSetTheorems

Records == [op : {"UPSERT", "DELETE", "TOMBSTONE"}, user : Users, item : Items]
Carts == [Users -> [Items -> Nat]]

CartTypeOK ==
    /\ topic \in Seq(Records) /\ compacted \subseteq Offsets
    /\ position \in 0..Len(topic) /\ committed \in 0..position
    /\ phase \in {"poll", "expire", "commit", "down"}
    /\ cart \in Carts /\ ttl \subseteq Users
    /\ synced \in Carts \X SUBSET Users /\ intact \in BOOLEAN
    /\ crashes \in 0..MaxCrashes /\ expiries \in 0..MaxExpiries
    /\ rebuilds \in 0..MaxRebuilds /\ losses \in 0..MaxLosses

AllWrites(u, i) == Writes(u, i, Len(topic))

\* A tombstone and a record the broker removed have a later write of their key.
SupersededInv ==
    \A o \in Offsets : topic[o].op = "TOMBSTONE" \/ o \in compacted =>
        \E w \in AllWrites(topic[o].user, topic[o].item) : w > o

\* Redis and its file hold offsets of UPSERTs of the key.
Written(u, i, o) ==
    /\ o \in Offsets /\ topic[o].op = "UPSERT"
    /\ topic[o].user = u /\ topic[o].item = i

FieldInv ==
    \A u \in Users, i \in Items :
        /\ cart[u][i] # 0 => Written(u, i, cart[u][i])
        /\ synced[1][u][i] # 0 => Written(u, i, synced[1][u][i])

\* Between HSET and EXPIRE the polled record is not committed yet, and of what
\* lies between the committed offset and the polled record nothing is due.
Idle(o) == o \in compacted \/ topic[o].op = "TOMBSTONE"

SkippedInv ==
    /\ phase = "expire" => committed < position
    /\ phase = "poll" => \A o \in (committed + 1)..position : Idle(o)
    /\ phase \in {"expire", "commit"} =>
          \A o \in (committed + 1)..(position - 1) : Idle(o)

\* CommittedIsApplied of the position, which a crash only moves back.
AppliedInv ==
    expiries = 0 /\ intact =>
        \A u \in Users, i \in Items :
            (\A o \in AllWrites(u, i) : o <= position)
                => cart[u][i] = Projection(Len(topic))[u][i]

\* A cart without an expiry has a write that is still to be carried out, or
\* whose EXPIRE is.
NextDue == IF phase = "down" THEN committed + 1
           ELSE IF phase = "expire" THEN position ELSE position + 1

ExpiryInv ==
    intact => \A u \in Users, i \in Items :
        u \notin ttl /\ cart[u][i] # 0 => \E w \in AllWrites(u, i) : w >= NextDue

CartInv ==
    /\ CartTypeOK /\ SupersededInv /\ FieldInv /\ SkippedInv
    /\ AppliedInv /\ ExpiryInv

\* A field is as of some offset m that no answer has gone beyond and that no
\* redelivery will go behind.
AsOf(u, i, m) ==
    /\ cart[u][i] = Projection(m)[u][i]
    /\ \A w \in AllWrites(u, i) \ compacted : w > committed => w >= m

SeenInv ==
    /\ seen \in Carts
    /\ Undisturbed => \A u \in Users, i \in Items :
           \E m \in seen[u][i]..Len(topic) : AsOf(u, i, m)

-----------------------------------------------------------------------------
(* Natural numbers.                                                          *)

LEMMA LeastExists ==
    ASSUME NEW S \in SUBSET Nat, S # {}
    PROVE  \E n \in S : \A m \in S : n <= m
<1> DEFINE T == {1..n : n \in S}
<1>1. T # {}
    OBVIOUS
<1>2. T \subseteq FiniteSubsetsOf(Nat)
  <2>1. ASSUME NEW n \in S
        PROVE  1..n \in FiniteSubsetsOf(Nat)
    <3>1. n \in Int /\ 1 \in Int /\ 1..n \subseteq Nat
        OBVIOUS
    <3> QED
        BY <3>1, FS_Interval DEF FiniteSubsetsOf
  <2> QED
    BY <2>1
<1>3. PICK x \in T : \A y \in T : <<y, x>> \notin StrictSubsetOrdering(Nat)
  <2> HIDE DEF T
  <2> QED
    BY <1>1, <1>2, FS_StrictSubsetOrderingWellFounded, WFMin
<1>4. PICK n \in S : x = 1..n
    OBVIOUS
<1>5. ASSUME NEW m \in S, m < n
      PROVE  FALSE
  <2>1. 1..m \in T /\ 1..m \subseteq 1..n /\ n \in 1..n /\ n \notin 1..m
    BY <1>5
  <2>2. <<1..m, x>> \in StrictSubsetOrdering(Nat)
    BY <1>4, <2>1 DEF StrictSubsetOrdering
  <2> QED
    BY <1>3, <2>1, <2>2
<1> QED
    BY <1>5

LEMMA GreatestExists ==
    ASSUME NEW n \in Nat, NEW S \in SUBSET (1..n), S # {}
    PROVE  \E w \in S : \A p \in S : p <= w
<1> DEFINE B == {k \in Nat : \A p \in S : p <= k}
<1>1. n \in B
    OBVIOUS
<1>2. PICK k \in B : \A m \in B : k <= m
  <2> HIDE DEF B
  <2>1. B \in SUBSET Nat
    BY DEF B
  <2> QED
    BY <1>1, <2>1, LeastExists
<1>3. CASE k \in S
    BY <1>3
<1>4. CASE k \notin S
  <2>1. PICK p \in S : TRUE
    OBVIOUS
  <2>2. k >= 1 /\ k - 1 \in Nat
    BY <2>1
  <2>3. k - 1 \in B
    BY <1>4, <2>2
  <2> QED
    BY <1>2, <2>2, <2>3
<1> QED
    BY <1>3, <1>4

-----------------------------------------------------------------------------
(* The log and its projection.                                               *)

\* Write w is the last one of its key.
IsLast(u, i, w) == w \in AllWrites(u, i) /\ \A p \in AllWrites(u, i) : p <= w

LEMMA LogLength ==
    ASSUME CartTypeOK
    PROVE  /\ Len(topic) \in Nat /\ Offsets \subseteq Nat
           /\ position \in Nat /\ committed \in Nat
           /\ committed <= position /\ position <= Len(topic)
           /\ \A o \in Offsets : topic[o] \in Records
BY LenProperties, ElementOfSeq DEF CartTypeOK, Offsets

LEMMA LastExists ==
    ASSUME CartTypeOK, NEW u, NEW i, AllWrites(u, i) # {}
    PROVE  \E w \in AllWrites(u, i) : IsLast(u, i, w)
<1>1. AllWrites(u, i) \in SUBSET (1..Len(topic)) /\ Len(topic) \in Nat
    BY LogLength DEF AllWrites, Writes
<1> QED
    BY <1>1, GreatestExists DEF IsLast

\* The value of a field after n records.
LEMMA ProjectionValue ==
    ASSUME NEW u \in Users, NEW i \in Items, NEW n \in Nat,
           NEW w \in Writes(u, i, n), \A p \in Writes(u, i, n) : p <= w
    PROVE  Projection(n)[u][i] = IF topic[w].op = "UPSERT" THEN w ELSE 0
<1> DEFINE W == Writes(u, i, n)
<1>1. W \subseteq Nat
    BY DEF Writes
<1>2. \A o \in W : (\A p \in W : p <= o) <=> o = w
    BY <1>1
<1>3. Projection(n)[u][i] =
        IF \E o \in W : topic[o].op = "UPSERT" /\ \A p \in W : p <= o
        THEN CHOOSE o \in W : \A p \in W : p <= o
        ELSE 0
    BY DEF Projection
<1> HIDE DEF W
<1>4. (CHOOSE o \in W : \A p \in W : p <= o) = w
    BY <1>2 DEF W
<1> QED
    BY <1>2, <1>3, <1>4 DEF W

LEMMA ProjectionNone ==
    ASSUME NEW u \in Users, NEW i \in Items, NEW n \in Nat, Writes(u, i, n) = {}
    PROVE  Projection(n)[u][i] = 0
BY DEF Projection

\* The last write of a key is never compacted.
LEMMA LastStays ==
    ASSUME CartTypeOK, SupersededInv, NEW u, NEW i, NEW w, IsLast(u, i, w)
    PROVE  w \in Offsets \ compacted
<1>1. w \in Offsets /\ topic[w].user = u /\ topic[w].item = i
    BY DEF IsLast, AllWrites, Writes, Offsets
<1>2. AllWrites(u, i) \subseteq Nat
    BY DEF AllWrites, Writes
<1> QED
    BY <1>1, <1>2 DEF SupersededInv, IsLast

\* What is pending bounds the last write of a key from below: a write behind the
\* position is followed by one that comes next or later.
LEMMA NextCoversWrites ==
    ASSUME CartTypeOK, SupersededInv, NEW o, IsNext(o), NEW u, NEW i,
           NEW w \in AllWrites(u, i), w > position
    PROVE  \E v \in AllWrites(u, i) : IsLast(u, i, v) /\ v >= o
<1>1. PICK v \in AllWrites(u, i) : IsLast(u, i, v)
    BY LastExists
<1>2. v \in Offsets \ compacted /\ v >= w
    BY <1>1, LastStays DEF IsLast
<1>3. v \in Nat /\ w \in Nat /\ position \in Nat
    BY LogLength DEF AllWrites, Writes
<1>4. v \in Pending
    BY <1>2, <1>3 DEF Pending
<1> QED
    BY <1>1, <1>4 DEF IsNext

-----------------------------------------------------------------------------
(* What the producer's step leaves of the log.                               *)

LEMMA ProduceExtends ==
    ASSUME CartTypeOK, NEW r \in Mutations, Produce(r)
    PROVE  /\ topic' \in Seq(Records)
           /\ Len(topic') \in Nat /\ Len(topic') > Len(topic)
           /\ \A o \in Offsets : topic'[o] = topic[o]
           /\ topic'[Len(topic')] = r
           /\ \A o \in Offsets' : \/ o \in Offsets
                                  \/ o = Len(topic')
                                  \/ topic'[o] = Tombstone(r)
<1>1. r \in Records /\ Tombstone(r) \in Records /\ topic \in Seq(Records)
    BY DEF Mutations, Records, Tombstone, CartTypeOK
<1>2. Len(topic) \in Nat
    BY LogLength
<1>3. CASE topic' = Append(topic, r)
    BY <1>1, <1>2, <1>3, AppendProperties DEF Offsets
<1>4. CASE topic' = topic \o <<Tombstone(r), r>>
  <2> DEFINE t == <<Tombstone(r), r>>
  <2>1. t \in Seq(Records) /\ Len(t) = 2 /\ t[1] = Tombstone(r) /\ t[2] = r
    BY <1>1
  <2> HIDE DEF t
  <2>2. /\ topic' \in Seq(Records) /\ Len(topic') = Len(topic) + 2
        /\ \A o \in 1..Len(topic) : topic'[o] = topic[o]
        /\ topic'[Len(topic) + 1] = t[1] /\ topic'[Len(topic) + 2] = t[2]
    BY <1>1, <1>2, <1>4, <2>1, ConcatProperties DEF t
  <2> QED
    BY <1>2, <2>1, <2>2 DEF Offsets
<1> QED
    BY <1>3, <1>4 DEF Produce

LEMMA PrefixStays ==
    ASSUME CartTypeOK, \A o \in Offsets : topic'[o] = topic[o],
           NEW n \in 0..Len(topic), NEW u \in Users, NEW i \in Items
    PROVE  Projection(n)'[u][i] = Projection(n)[u][i]
<1>1. 1..n \subseteq Offsets
    BY LogLength DEF Offsets
<1>2. Writes(u, i, n)' = Writes(u, i, n)
    BY <1>1 DEF Writes
<1>3. \A o \in Writes(u, i, n) : topic'[o] = topic[o]
    BY <1>1 DEF Writes
<1> QED
    BY <1>2, <1>3 DEF Projection

\* The producer adds one write, of its own key.
LEMMA ProduceWrites ==
    ASSUME CartTypeOK, NEW r \in Mutations, Produce(r), NEW u, NEW i
    PROVE  AllWrites(u, i)' =
              AllWrites(u, i) \cup (IF r.user = u /\ r.item = i
                                    THEN {Len(topic')} ELSE {})
<1>1. Len(topic) \in Nat /\ r.op # "TOMBSTONE" /\ Tombstone(r).op = "TOMBSTONE"
    BY LogLength DEF Mutations, Tombstone
<1>2. /\ Len(topic') \in Nat /\ Len(topic') > Len(topic)
      /\ \A o \in Offsets : topic'[o] = topic[o]
      /\ topic'[Len(topic')] = r
      /\ \A o \in 1..Len(topic') : \/ o \in Offsets \/ o = Len(topic')
                                   \/ topic'[o].op = "TOMBSTONE"
    BY <1>1, ProduceExtends DEF Offsets
<1>3. 1..Len(topic) \subseteq 1..Len(topic') /\ Len(topic') \in 1..Len(topic')
    BY <1>1, <1>2
<1> QED
    BY <1>1, <1>2, <1>3 DEF AllWrites, Writes, Offsets

LEMMA ProduceProjection ==
    ASSUME CartTypeOK, NEW r \in Mutations, Produce(r),
           NEW u \in Users, NEW i \in Items, AllWrites(u, i)' = AllWrites(u, i)
    PROVE  Projection(Len(topic))'[u][i] = Projection(Len(topic))[u][i]
<1>1. Len(topic) \in Nat
    BY LogLength
<1>2. \A o \in AllWrites(u, i) : topic'[o] = topic[o]
    BY ProduceExtends DEF AllWrites, Writes, Offsets
<1> QED
    BY <1>2 DEF Projection, AllWrites

-----------------------------------------------------------------------------
(* Types.                                                                    *)

LEMMA PolledRecord ==
    ASSUME CartTypeOK, NEW o \in Offsets, IsNext(o)
    PROVE  /\ o \in Nat /\ o > position /\ o <= Len(topic)
           /\ topic[o].user \in Users /\ topic[o].item \in Items
           /\ o \notin compacted
BY LogLength DEF IsNext, Pending, Offsets, Records

LEMMA CartTypeStep ==
    ASSUME CartTypeOK, SkippedInv, [Next]_vars
    PROVE  CartTypeOK'
<1>0. /\ Len(topic) \in Nat /\ position \in Nat /\ committed \in Nat
      /\ committed <= position
    BY LogLength
<1>1. CASE \E r \in Mutations : Produce(r)
  <2>1. PICK r \in Mutations : Produce(r)
    BY <1>1
  <2>2. topic' \in Seq(Records) /\ Len(topic') \in Nat /\ Len(topic') > Len(topic)
    BY <2>1, ProduceExtends
  <2> QED
    BY <1>0, <2>1, <2>2
    DEF CartTypeOK, Produce, Offsets, consumerVars, redisVars, diskVars, bounds
<1>2. CASE \E o \in Offsets : Compact(o)
    BY <1>2
    DEF CartTypeOK, Compact, Offsets, consumerVars, redisVars, diskVars, bounds
<1>3. CASE \E o \in Offsets : SkipTombstone(o)
    BY <1>0, <1>3, PolledRecord
    DEF CartTypeOK, SkipTombstone, Offsets, brokerVars, redisVars, diskVars, bounds
<1>4. CASE \E o \in Offsets : HSet(o)
  <2>1. PICK o \in Offsets : HSet(o)
    BY <1>4
  <2>2. cart' \in Carts
    BY <2>1, PolledRecord DEF CartTypeOK, Carts, HSet
  <2> QED
    BY <1>0, <2>1, <2>2, PolledRecord
    DEF CartTypeOK, HSet, Offsets, brokerVars, diskVars, bounds
<1>5. CASE \E o \in Offsets : HDel(o)
  <2>1. PICK o \in Offsets : HDel(o)
    BY <1>5
  <2>2. cart' \in Carts
    BY <2>1, PolledRecord DEF CartTypeOK, Carts, HDel
  <2> QED
    BY <1>0, <2>1, <2>2, PolledRecord
    DEF CartTypeOK, HDel, Offsets, brokerVars, diskVars, bounds
<1>6. CASE SetExpiry
  <2>1. position \in Offsets
    BY <1>0, <1>6 DEF SetExpiry, SkippedInv, CartTypeOK, Offsets
  <2>2. topic[position].user \in Users
    BY <2>1, LogLength DEF Records
  <2> QED
    BY <1>6, <2>2 DEF CartTypeOK, SetExpiry, Offsets, brokerVars, diskVars, bounds
<1>7. CASE Commit
    BY <1>0, <1>7
    DEF CartTypeOK, Commit, Offsets, brokerVars, redisVars, diskVars, bounds
<1>8. CASE Crash
    BY <1>8, CartBounds DEF CartTypeOK, Crash, Offsets, brokerVars, redisVars, diskVars
<1>9. CASE Restart
    BY <1>0, <1>9
    DEF CartTypeOK, Restart, Offsets, brokerVars, redisVars, diskVars, bounds
<1>10. CASE \E u \in Users : ExpireCart(u)
  <2>1. PICK u \in Users : ExpireCart(u)
    BY <1>10
  <2>2. cart' \in Carts
    BY <2>1 DEF CartTypeOK, Carts, ExpireCart, EmptyCart
  <2> QED
    BY <2>1, <2>2, CartBounds
    DEF CartTypeOK, ExpireCart, Offsets, brokerVars, consumerVars, diskVars
<1>11. CASE \E emptied \in BOOLEAN : Rebuild(emptied)
  <2>1. PICK emptied \in BOOLEAN : Rebuild(emptied)
    BY <1>11
  <2>2. [u \in Users |-> EmptyCart] \in Carts
    BY DEF Carts, EmptyCart
  <2>3. cart' \in Carts /\ ttl' \subseteq Users
    BY <2>1, <2>2 DEF CartTypeOK, Rebuild, redisVars
  <2> QED
    BY <1>0, <2>1, <2>3, CartBounds DEF CartTypeOK, Rebuild, Offsets, brokerVars
<1>12. CASE Sync
    BY <1>12
    DEF CartTypeOK, Sync, Offsets, brokerVars, consumerVars, redisVars, bounds
<1>13. CASE LoseWrites
    BY <1>13, CartBounds
    DEF CartTypeOK, LoseWrites, Offsets, brokerVars, consumerVars
<1>14. CASE UNCHANGED vars
    BY <1>14 DEF CartTypeOK, Offsets, vars, brokerVars, consumerVars, redisVars,
                 diskVars, bounds
<1> QED
    BY <1>1, <1>2, <1>3, <1>4, <1>5, <1>6, <1>7, <1>8, <1>9, <1>10, <1>11, <1>12,
       <1>13, <1>14 DEF Next

-----------------------------------------------------------------------------
(* What the broker removes, what Redis holds, what the consumer has skipped. *)

LEMMA SupersededStep ==
    ASSUME CartTypeOK, SupersededInv, [Next]_vars
    PROVE  SupersededInv'
<1>1. CASE \E r \in Mutations : Produce(r)
  <2>1. PICK r \in Mutations : Produce(r)
    BY <1>1
  <2>2. /\ Len(topic) \in Nat /\ Len(topic') \in Nat /\ Len(topic') > Len(topic)
        /\ \A o \in Offsets : topic'[o] = topic[o]
        /\ topic'[Len(topic')] = r
        /\ \A o \in Offsets' : o \in Offsets \/ o = Len(topic') \/ topic'[o] = Tombstone(r)
        /\ r.op # "TOMBSTONE" /\ r.user = Tombstone(r).user
        /\ r.item = Tombstone(r).item /\ compacted' = compacted
        /\ compacted \subseteq Offsets
    BY <2>1, LogLength, ProduceExtends DEF Mutations, Tombstone, Produce, CartTypeOK
  <2>3. ASSUME NEW o \in Offsets', topic'[o].op = "TOMBSTONE" \/ o \in compacted',
               NEW u, u = topic'[o].user, NEW i, i = topic'[o].item
        PROVE  \E w \in AllWrites(u, i)' : w > o
    <3>1. AllWrites(u, i)' = AllWrites(u, i) \cup
              (IF r.user = u /\ r.item = i THEN {Len(topic')} ELSE {})
      BY <2>1, ProduceWrites
    <3>2. CASE o \in Offsets
      BY <2>2, <2>3, <3>1, <3>2 DEF SupersededInv
    <3>3. CASE o \notin Offsets
      <4>1. topic'[o] = Tombstone(r) /\ o # Len(topic') /\ o \in 1..Len(topic')
        BY <2>2, <2>3, <3>3 DEF Offsets
      <4> QED
        BY <2>2, <2>3, <3>1, <4>1
    <3> QED
      BY <3>2, <3>3
  <2> QED
    BY <2>3 DEF SupersededInv
<1>2. CASE \E o \in Offsets : Compact(o)
  <2>1. PICK o \in Offsets : Compact(o)
    BY <1>2
  <2>2. PICK p \in Offsets : p > o /\ SameKey(o, p)
    BY <2>1 DEF Compact
  <2>3. \E w \in AllWrites(topic[o].user, topic[o].item) : w > o
    <3>1. CASE topic[p].op = "TOMBSTONE"
      <4>1. PICK w \in AllWrites(topic[p].user, topic[p].item) : w > p
        BY <3>1 DEF SupersededInv
      <4>2. w \in Nat /\ p \in Nat /\ o \in Nat
        BY LogLength DEF AllWrites, Writes
      <4> QED
        BY <2>2, <4>1, <4>2 DEF SameKey
    <3>2. CASE topic[p].op # "TOMBSTONE"
      <4>1. p \in AllWrites(topic[o].user, topic[o].item)
        BY <2>2, <3>2 DEF SameKey, AllWrites, Writes, Offsets
      <4> QED
        BY <2>2, <4>1
    <3> QED
      BY <3>1, <3>2
  <2>4. topic' = topic /\ compacted' = compacted \cup {o}
    BY <2>1 DEF Compact
  <2> QED
    BY <2>3, <2>4 DEF SupersededInv, AllWrites, Writes, Offsets
<1>3. CASE UNCHANGED brokerVars
  BY <1>3 DEF SupersededInv, AllWrites, Writes, Offsets, brokerVars
<1> QED
    BY <1>1, <1>2, <1>3
    DEF Next, SkipTombstone, HSet, HDel, SetExpiry, Commit, Crash, Restart,
        ExpireCart, Rebuild, Sync, LoseWrites, vars

LEMMA WrittenStays ==
    ASSUME CartTypeOK, [Next]_vars,
           NEW u \in Users, NEW i \in Items, NEW o, Written(u, i, o)
    PROVE  Written(u, i, o)'
<1>1. CASE \E r \in Mutations : Produce(r)
  <2>1. Offsets \subseteq Offsets' /\ \A p \in Offsets : topic'[p] = topic[p]
    BY <1>1, ProduceExtends, LogLength DEF Offsets
  <2> QED
    BY <2>1 DEF Written
<1>2. CASE topic' = topic
  BY <1>2 DEF Written, Offsets
<1> QED
    BY <1>1, <1>2
    DEF Next, Compact, SkipTombstone, HSet, HDel, SetExpiry, Commit, Crash, Restart,
        ExpireCart, Rebuild, Sync, LoseWrites, vars, brokerVars

LEMMA FieldAfterHSet ==
    ASSUME CartTypeOK, NEW o \in Offsets, HSet(o), NEW u \in Users, NEW i \in Items
    PROVE  cart'[u][i] = IF topic[o].user = u /\ topic[o].item = i
                         THEN o ELSE cart[u][i]
BY PolledRecord DEF HSet, CartTypeOK, Carts

LEMMA FieldAfterHDel ==
    ASSUME CartTypeOK, NEW o \in Offsets, HDel(o), NEW u \in Users, NEW i \in Items
    PROVE  cart'[u][i] = IF topic[o].user = u /\ topic[o].item = i
                         THEN 0 ELSE cart[u][i]
BY PolledRecord DEF HDel, CartTypeOK, Carts

\* How a step changes a field of Redis.
LEMMA FieldChanges ==
    ASSUME CartTypeOK, [Next]_vars, NEW u \in Users, NEW i \in Items
    PROVE  \/ cart'[u][i] = cart[u][i]
           \/ cart'[u][i] = 0
           \/ cart'[u][i] = synced[1][u][i]
           \/ \E o \in Offsets : HSet(o) /\ cart'[u][i] = o /\ Written(u, i, o)
<1>1. CASE \E o \in Offsets : HSet(o)
  <2>1. PICK o \in Offsets : HSet(o)
    BY <1>1
  <2>2. cart'[u][i] = IF topic[o].user = u /\ topic[o].item = i
                      THEN o ELSE cart[u][i]
    BY <2>1, FieldAfterHSet
  <2>3. topic[o].op = "UPSERT"
    BY <2>1 DEF HSet
  <2> QED
    BY <2>1, <2>2, <2>3 DEF Written
<1>2. CASE \E o \in Offsets : HDel(o)
  BY <1>2, FieldAfterHDel
<1>3. CASE \E v \in Users : ExpireCart(v)
  BY <1>3 DEF ExpireCart, EmptyCart, CartTypeOK, Carts
<1>4. CASE \E emptied \in BOOLEAN : Rebuild(emptied)
  BY <1>4 DEF Rebuild, EmptyCart, redisVars
<1>5. CASE LoseWrites
  BY <1>5 DEF LoseWrites
<1>6. CASE cart' = cart
  BY <1>6
<1> QED
    BY <1>1, <1>2, <1>3, <1>4, <1>5, <1>6
    DEF Next, Produce, Compact, SkipTombstone, SetExpiry, Commit, Crash, Restart,
        Sync, vars, redisVars

LEMMA FieldStep ==
    ASSUME CartTypeOK, FieldInv, [Next]_vars
    PROVE  FieldInv'
<1> SUFFICES ASSUME NEW u \in Users, NEW i \in Items
             PROVE  /\ cart'[u][i] # 0 => Written(u, i, cart[u][i])'
                    /\ synced'[1][u][i] # 0 => Written(u, i, synced[1][u][i])'
    BY DEF FieldInv
<1>1. \A o : Written(u, i, o) => Written(u, i, o)'
    BY WrittenStays
<1>2. ASSUME NEW o, o # 0, o = cart'[u][i]
      PROVE  Written(u, i, o)'
    BY <1>1, <1>2, FieldChanges DEF FieldInv
<1>3. ASSUME NEW o, o # 0, o = synced'[1][u][i]
      PROVE  Written(u, i, o)'
  <2>1. synced' = synced \/ synced' = <<cart, ttl>>
    BY DEF Next, Produce, Compact, SkipTombstone, HSet, HDel, SetExpiry, Commit,
       Crash, Restart, ExpireCart, Rebuild, Sync, LoseWrites, vars, diskVars,
       redisVars
  <2> QED
    BY <1>1, <1>3, <2>1 DEF FieldInv
<1> QED
    BY <1>2, <1>3 DEF Written

\* What lies between the position and the next record was removed.
LEMMA PassedIsIdle ==
    ASSUME CartTypeOK, NEW o \in Offsets, IsNext(o), NEW p \in (position + 1)..(o - 1)
    PROVE  Idle(p)
<1>1. p \in Offsets /\ p > position /\ ~(o <= p)
    BY LogLength DEF Offsets
<1> QED
    BY <1>1 DEF IsNext, Pending, Idle

LEMMA SkippedUpTo ==
    ASSUME CartTypeOK, SkippedInv, phase = "poll", NEW o \in Offsets, IsNext(o),
           NEW p \in (committed + 1)..(o - 1)
    PROVE  Idle(p)
<1>1. position \in Nat /\ committed \in Nat /\ o \in Nat
    BY LogLength
<1>2. CASE p <= position
    BY <1>1, <1>2 DEF SkippedInv
<1>3. CASE p > position
  <2>1. p \in (position + 1)..(o - 1)
    BY <1>1, <1>3
  <2> QED
    BY <2>1, PassedIsIdle
<1> QED
    BY <1>1, <1>2, <1>3

LEMMA IdleStays ==
    ASSUME CartTypeOK, [Next]_vars, NEW p \in Offsets, Idle(p)
    PROVE  Idle(p)'
<1>1. CASE \E r \in Mutations : Produce(r)
    BY <1>1, ProduceExtends DEF Produce, Idle
<1>2. CASE topic' = topic /\ compacted \subseteq compacted'
    BY <1>2 DEF Idle
<1> QED
    BY <1>1, <1>2
    DEF Next, Compact, SkipTombstone, HSet, HDel, SetExpiry, Commit, Crash, Restart,
        ExpireCart, Rebuild, Sync, LoseWrites, vars, brokerVars

LEMMA SkippedStep ==
    ASSUME CartTypeOK, SkippedInv, [Next]_vars
    PROVE  SkippedInv'
<1>0. /\ Len(topic) \in Nat /\ position \in Nat /\ committed \in Nat
      /\ committed <= position /\ position <= Len(topic)
    BY LogLength
<1>1. \A p \in 1..position : Idle(p) => Idle(p)'
    BY <1>0, IdleStays DEF Offsets
<1>2. CASE \E o \in Offsets : SkipTombstone(o)
  <2>1. PICK o \in Offsets : SkipTombstone(o)
    BY <1>2
  <2>2. /\ IsNext(o) /\ phase = "poll" /\ topic[o].op = "TOMBSTONE"
        /\ position' = o /\ committed' = committed /\ phase' = phase
        /\ topic' = topic /\ compacted' = compacted
    BY <2>1 DEF SkipTombstone, brokerVars
  <2>3. \A p \in (committed + 1)..(o - 1) : Idle(p)
    BY <2>2, SkippedUpTo
  <2>4. \A p \in (committed + 1)..o : Idle(p)
    BY <1>0, <2>2, <2>3, LogLength DEF Idle
  <2> QED
    BY <2>2, <2>4 DEF SkippedInv, Idle
<1>3. CASE \E o \in Offsets : HSet(o) \/ HDel(o)
  <2>1. PICK o \in Offsets : HSet(o) \/ HDel(o)
    BY <1>3
  <2>2. /\ IsNext(o) /\ phase = "poll" /\ phase' \in {"expire", "commit"}
        /\ position' = o /\ committed' = committed
        /\ topic' = topic /\ compacted' = compacted
    BY <2>1 DEF HSet, HDel, brokerVars
  <2>3. \A p \in (committed + 1)..(o - 1) : Idle(p)
    BY <2>2, SkippedUpTo
  <2>4. committed < o
    BY <1>0, <2>2, PolledRecord
  <2> QED
    BY <2>2, <2>3, <2>4 DEF SkippedInv, Idle
<1>4. CASE SetExpiry
    BY <1>4 DEF SetExpiry, SkippedInv, Idle, brokerVars
<1>5. CASE Commit \/ Restart \/ \E emptied \in BOOLEAN : Rebuild(emptied)
  <2>1. phase' = "poll" /\ committed' = position' /\ position' \in Nat
    BY <1>0, <1>5 DEF Commit, Restart, Rebuild
  <2>2. PICK n \in Nat : committed' = n /\ position' = n
    BY <2>1
  <2>3. (n + 1)..n = {}
    OBVIOUS
  <2> QED
    BY <2>1, <2>2, <2>3 DEF SkippedInv
<1>6. CASE Crash
    BY <1>6 DEF Crash, SkippedInv
<1>7. CASE UNCHANGED consumerVars
    BY <1>0, <1>1, <1>7 DEF SkippedInv, consumerVars
<1> QED
    BY <1>2, <1>3, <1>4, <1>5, <1>6, <1>7
    DEF Next, Produce, Compact, ExpireCart, Sync, LoseWrites, vars

-----------------------------------------------------------------------------
(* What Redis reflects.                                                      *)

\* Every write of the key lies at n or before it.
WritesUpTo(u, i, n) == \A o \in AllWrites(u, i) : o <= n

\* After the record o that comes next, a key whose writes all lie at o or before
\* it has o as its last write, or had no write that was due.
LEMMA UpToNext ==
    ASSUME CartTypeOK, SupersededInv, NEW o \in Offsets, IsNext(o),
           NEW u \in Users, NEW i \in Items, WritesUpTo(u, i, o)
    PROVE  IF o \in AllWrites(u, i) THEN IsLast(u, i, o)
           ELSE WritesUpTo(u, i, position)
<1>1. AllWrites(u, i) \subseteq Nat /\ position \in Nat /\ o \in Nat
    BY LogLength DEF AllWrites, Writes
<1>2. CASE o \in AllWrites(u, i)
    BY <1>2 DEF IsLast, WritesUpTo
<1>3. CASE o \notin AllWrites(u, i)
  <2>1. ASSUME NEW w \in AllWrites(u, i), w > position
        PROVE  FALSE
    <3>1. PICK v \in AllWrites(u, i) : v >= o
        BY <2>1, NextCoversWrites
    <3>2. v = o
        BY <1>1, <3>1 DEF WritesUpTo
    <3> QED
        BY <1>3, <3>2
  <2>2. \A w \in AllWrites(u, i) : w <= position
    BY <1>1, <2>1
  <2> QED
    BY <1>3, <2>2 DEF WritesUpTo
<1> QED
    BY <1>2, <1>3

LEMMA ProjectionOfLast ==
    ASSUME CartTypeOK, NEW u \in Users, NEW i \in Items, NEW w, IsLast(u, i, w)
    PROVE  Projection(Len(topic))[u][i] = IF topic[w].op = "UPSERT" THEN w ELSE 0
BY LogLength, ProjectionValue DEF IsLast, AllWrites

AppliedField(u, i) ==
    WritesUpTo(u, i, position) => cart[u][i] = Projection(Len(topic))[u][i]

LEMMA AppliedProduce ==
    ASSUME CartTypeOK, NEW r \in Mutations, Produce(r),
           NEW u \in Users, NEW i \in Items, AppliedField(u, i)
    PROVE  AppliedField(u, i)'
<1>1. /\ cart' = cart /\ position' = position /\ Len(topic') \in Nat
      /\ Len(topic') > Len(topic) /\ Len(topic) \in Nat
      /\ position \in Nat /\ position <= Len(topic)
    BY ProduceExtends, LogLength DEF Produce, redisVars, consumerVars
<1>2. CASE r.user = u /\ r.item = i
  <2>1. Len(topic') \in AllWrites(u, i)'
    BY <1>2, ProduceWrites
  <2>2. ~WritesUpTo(u, i, position)'
    BY <1>1, <2>1 DEF WritesUpTo
  <2> QED
    BY <2>2 DEF AppliedField
<1>3. CASE ~(r.user = u /\ r.item = i)
  <2>1. AllWrites(u, i)' = AllWrites(u, i) \cup {}
    BY <1>3, ProduceWrites
  <2>2. Projection(Len(topic))'[u][i] = Projection(Len(topic))[u][i]
    BY <2>1, ProduceProjection
  <2> QED
    BY <1>1, <2>1, <2>2 DEF AppliedField, WritesUpTo
<1> QED
    BY <1>2, <1>3

LEMMA AppliedNext ==
    ASSUME CartTypeOK, SupersededInv, NEW u \in Users, NEW i \in Items,
           AppliedField(u, i), UNCHANGED topic,
           NEW o \in Offsets, SkipTombstone(o) \/ HSet(o) \/ HDel(o)
    PROVE  AppliedField(u, i)'
<1> SUFFICES ASSUME WritesUpTo(u, i, o)
             PROVE  cart'[u][i] = Projection(Len(topic))[u][i]
  <2>1. position' = o
    BY DEF SkipTombstone, HSet, HDel
  <2> QED
    BY <2>1 DEF AppliedField, WritesUpTo, AllWrites, Writes, Projection
<1>1. IsNext(o)
    BY DEF SkipTombstone, HSet, HDel
<1>2. CASE o \in AllWrites(u, i)
  <2>1. IsLast(u, i, o) /\ topic[o].user = u /\ topic[o].item = i
        /\ topic[o].op # "TOMBSTONE"
    BY <1>1, <1>2, UpToNext DEF AllWrites, Writes
  <2>2. Projection(Len(topic))[u][i] = IF topic[o].op = "UPSERT" THEN o ELSE 0
    BY <2>1, ProjectionOfLast
  <2>3. CASE HSet(o)
    <3>1. cart'[u][i] = o
      BY <2>1, <2>3, FieldAfterHSet
    <3> QED
      BY <2>2, <2>3, <3>1 DEF HSet
  <2>4. CASE HDel(o)
    <3>1. cart'[u][i] = 0
      BY <2>1, <2>4, FieldAfterHDel
    <3> QED
      BY <2>2, <2>4, <3>1 DEF HDel
  <2> QED
    BY <2>1, <2>3, <2>4 DEF SkipTombstone
<1>3. CASE o \notin AllWrites(u, i)
  <2>1. cart[u][i] = Projection(Len(topic))[u][i]
    BY <1>1, <1>3, UpToNext DEF AppliedField
  <2>2. topic[o].op # "TOMBSTONE" => ~(topic[o].user = u /\ topic[o].item = i)
    BY <1>3 DEF AllWrites, Writes, Offsets
  <2>3. CASE HSet(o)
    <3>1. topic[o].op # "TOMBSTONE"
      BY <2>3 DEF HSet
    <3>2. cart'[u][i] = cart[u][i]
      BY <2>2, <2>3, <3>1, FieldAfterHSet
    <3> QED
      BY <2>1, <3>2
  <2>4. CASE HDel(o)
    <3>1. topic[o].op # "TOMBSTONE"
      BY <2>4 DEF HDel
    <3>2. cart'[u][i] = cart[u][i]
      BY <2>2, <2>4, <3>1, FieldAfterHDel
    <3> QED
      BY <2>1, <3>2
  <2>5. CASE SkipTombstone(o)
    BY <2>1, <2>5 DEF SkipTombstone, redisVars
  <2> QED
    BY <2>3, <2>4, <2>5
<1> QED
    BY <1>2, <1>3

LEMMA AppliedStep ==
    ASSUME CartInv, CartTypeOK', [Next]_vars
    PROVE  AppliedInv'
<1> USE DEF CartInv
<1> SUFFICES ASSUME expiries' = 0, intact', NEW u \in Users, NEW i \in Items
             PROVE  AppliedField(u, i)'
    BY DEF AppliedInv, AppliedField, WritesUpTo
<1>0. /\ position \in Nat /\ committed \in Nat /\ committed <= position
      /\ expiries \in Nat /\ AllWrites(u, i) \subseteq Nat
    BY LogLength, CartBounds DEF CartTypeOK, AllWrites, Writes
<1>1. expiries = 0 /\ intact => AppliedField(u, i)
    BY DEF AppliedInv, AppliedField, WritesUpTo
<1>2. CASE \E r \in Mutations : Produce(r)
  <2>1. PICK r \in Mutations : Produce(r)
    BY <1>2
  <2> QED
    BY <1>1, <2>1, AppliedProduce DEF Produce, diskVars, bounds
<1>3. CASE \E o \in Offsets : SkipTombstone(o) \/ HSet(o) \/ HDel(o)
  <2>1. PICK o \in Offsets : SkipTombstone(o) \/ HSet(o) \/ HDel(o)
    BY <1>3
  <2>2. topic' = topic /\ intact' = intact /\ expiries' = expiries
    BY <2>1 DEF SkipTombstone, HSet, HDel, brokerVars, diskVars, bounds
  <2> QED
    BY <1>1, <2>1, <2>2, AppliedNext
<1>4. CASE Restart
  <2>1. /\ topic' = topic /\ intact' = intact /\ expiries' = expiries
        /\ cart' = cart /\ position' = committed
    BY <1>4 DEF Restart, brokerVars, redisVars, diskVars, bounds
  <2> QED
    BY <1>0, <1>1, <2>1 DEF AppliedField, WritesUpTo, AllWrites, Writes, Projection
<1>5. CASE \E v \in Users : ExpireCart(v)
    BY <1>0, <1>5 DEF ExpireCart
<1>6. CASE \E emptied \in BOOLEAN : Rebuild(emptied)
  <2>1. /\ topic' = topic /\ position' = 0
        /\ cart' = cart \/ cart' = [v \in Users |-> EmptyCart]
    BY <1>6 DEF Rebuild, brokerVars, redisVars
  <2>2. CASE AllWrites(u, i) = {}
    <3>1. Projection(Len(topic))[u][i] = 0
      BY <2>2, LogLength, ProjectionNone DEF AllWrites
    <3>2. cart[u][i] = 0
      BY <2>2 DEF FieldInv, Written, AllWrites, Writes, Offsets
    <3>3. cart'[u][i] = 0
      BY <2>1, <3>2 DEF EmptyCart
    <3> QED
      BY <2>1, <3>1, <3>3 DEF AppliedField, Projection, Writes
  <2>3. CASE AllWrites(u, i) # {}
    <3>1. ~WritesUpTo(u, i, position)'
      BY <1>0, <2>1, <2>3 DEF WritesUpTo, AllWrites, Writes
    <3> QED
      BY <3>1 DEF AppliedField
  <2> QED
    BY <2>2, <2>3
<1>7. CASE LoseWrites
  <2>1. intact' = (intact /\ synced = redisVars) /\ intact' \in BOOLEAN
    BY <1>7 DEF LoseWrites, CartTypeOK
  <2>2. intact /\ synced = redisVars
    BY <2>1
  <2>3. topic' = topic /\ position' = position /\ expiries' = expiries /\ cart' = cart
    BY <1>7, <2>2 DEF LoseWrites, brokerVars, consumerVars, redisVars
  <2> QED
    BY <1>1, <2>2, <2>3 DEF AppliedField, WritesUpTo, AllWrites, Writes, Projection
<1>8. CASE UNCHANGED <<topic, position, cart, intact, expiries>>
    BY <1>1, <1>8 DEF AppliedField, WritesUpTo, AllWrites, Writes, Projection
<1> QED
    BY <1>2, <1>3, <1>4, <1>5, <1>6, <1>7, <1>8
    DEF Next, Compact, SetExpiry, Commit, Crash, Sync, vars, brokerVars,
        consumerVars, redisVars, diskVars, bounds

-----------------------------------------------------------------------------
(* Carts without an expiry.                                                  *)

\* A write of the key is to come, or is the one whose EXPIRE is to come.
Due(u, i) == \E w \in AllWrites(u, i) : w >= NextDue

LEMMA NextDueType ==
    ASSUME CartTypeOK, SkippedInv
    PROVE  /\ NextDue \in Nat
           /\ phase = "poll" => NextDue = position + 1
           /\ phase = "expire" => NextDue = position
           /\ NextDue >= committed + 1
BY LogLength DEF NextDue, SkippedInv

\* A record that comes next leaves due what was due, but for its own write.
LEMMA DueAfterNext ==
    ASSUME CartTypeOK, SupersededInv, SkippedInv, NEW o \in Offsets, IsNext(o),
           phase = "poll", NEW u \in Users, NEW i \in Items, Due(u, i)
    PROVE  \E v \in AllWrites(u, i) : v >= o
<1>1. position \in Nat /\ NextDue = position + 1 /\ AllWrites(u, i) \subseteq Nat
    BY LogLength, NextDueType DEF AllWrites, Writes
<1>2. PICK w \in AllWrites(u, i) : w > position
    BY <1>1 DEF Due
<1> QED
    BY <1>2, NextCoversWrites

LEMMA ExpiryStep ==
    ASSUME CartInv, CartTypeOK', SkippedInv', [Next]_vars
    PROVE  ExpiryInv'
<1> USE DEF CartInv
<1> SUFFICES ASSUME intact', NEW u \in Users, NEW i \in Items,
                    u \notin ttl', cart'[u][i] # 0
             PROVE  Due(u, i)'
    BY DEF ExpiryInv, Due
<1>0. /\ position \in Nat /\ committed \in Nat /\ committed <= position
      /\ AllWrites(u, i) \subseteq Offsets /\ Offsets \subseteq Nat
      /\ NextDue \in Nat /\ NextDue >= committed + 1
    BY LogLength, NextDueType DEF AllWrites, Writes, Offsets
<1>1. intact /\ u \notin ttl /\ cart[u][i] # 0 => Due(u, i)
    BY DEF ExpiryInv, Due
<1>2. CASE \E r \in Mutations : Produce(r)
  <2>1. PICK r \in Mutations : Produce(r)
    BY <1>2
  <2>2. Due(u, i)
    BY <1>1, <2>1 DEF Produce, redisVars, diskVars
  <2>3. AllWrites(u, i) \subseteq AllWrites(u, i)'
    BY <2>1, ProduceWrites
  <2>4. NextDue' = NextDue
    BY <2>1 DEF Produce, consumerVars, NextDue
  <2> QED
    BY <2>2, <2>3, <2>4 DEF Due
<1>3. CASE \E o \in Offsets : SkipTombstone(o) \/ HSet(o) \/ HDel(o)
  <2>1. PICK o \in Offsets : SkipTombstone(o) \/ HSet(o) \/ HDel(o)
    BY <1>3
  <2>2. /\ IsNext(o) /\ phase = "poll" /\ topic' = topic /\ intact' = intact
        /\ position' = o /\ o \in Nat
    BY <1>0, <2>1 DEF SkipTombstone, HSet, HDel, brokerVars, diskVars
  <2>3. AllWrites(u, i)' = AllWrites(u, i)
    BY <2>2 DEF AllWrites, Writes
  <2>4. CASE SkipTombstone(o)
    <3>1. NextDue' = o + 1 /\ topic[o].op = "TOMBSTONE" /\ Due(u, i)
      BY <1>1, <2>2, <2>4 DEF SkipTombstone, NextDue, redisVars
    <3>2. PICK v \in AllWrites(u, i) : v >= o
      BY <2>2, <3>1, DueAfterNext
    <3>3. v # o
      BY <3>1 DEF AllWrites, Writes
    <3>4. v \in Nat /\ o \in Nat
      BY <1>0, <2>2
    <3>5. v >= o + 1
      BY <3>2, <3>3, <3>4
    <3> QED
      BY <2>3, <3>1, <3>5 DEF Due
  <2>5. CASE HSet(o)
    <3>1. NextDue' = o /\ ttl' = ttl /\ topic[o].op = "UPSERT"
      BY <2>2, <2>5 DEF HSet, NextDue
    <3>2. CASE topic[o].user = u /\ topic[o].item = i
      <4>1. o \in AllWrites(u, i)
        BY <3>1, <3>2 DEF AllWrites, Writes, Offsets
      <4> QED
        BY <2>2, <2>3, <3>1, <4>1 DEF Due
    <3>3. CASE ~(topic[o].user = u /\ topic[o].item = i)
      <4>1. cart'[u][i] = cart[u][i]
        BY <2>5, <3>3, FieldAfterHSet
      <4>2. Due(u, i)
        BY <1>1, <2>2, <3>1, <4>1
      <4>3. \E v \in AllWrites(u, i) : v >= o
        BY <2>2, <4>2, DueAfterNext
      <4> QED
        BY <2>3, <3>1, <4>3 DEF Due
    <3> QED
      BY <3>2, <3>3
  <2>6. CASE HDel(o)
    <3>1. NextDue' = o + 1 /\ topic[o].op = "DELETE"
          /\ ttl' = {v \in ttl : cart'[v] # EmptyCart}
      BY <2>2, <2>6 DEF HDel, NextDue
    <3>2. ~(topic[o].user = u /\ topic[o].item = i) /\ cart'[u][i] = cart[u][i]
      BY <2>6, FieldAfterHDel
    <3>3. u \notin ttl
      BY <3>1 DEF EmptyCart
    <3>4. Due(u, i)
      BY <1>1, <2>2, <3>2, <3>3
    <3>5. PICK v \in AllWrites(u, i) : v >= o
      BY <2>2, <3>4, DueAfterNext
    <3>6. v # o
      BY <3>2 DEF AllWrites, Writes
    <3>7. v \in Nat /\ o \in Nat
      BY <1>0, <2>2
    <3>8. v >= o + 1
      BY <3>5, <3>6, <3>7
    <3> QED
      BY <2>3, <3>1, <3>8 DEF Due
  <2> QED
    BY <2>1, <2>4, <2>5, <2>6
<1>4. CASE SetExpiry
  <2>1. /\ topic' = topic /\ cart' = cart /\ intact' = intact
        /\ NextDue' = position + 1 /\ NextDue = position
        /\ ttl' = IF HasCart(topic[position].user)
                  THEN ttl \cup {topic[position].user} ELSE ttl
    BY <1>4, NextDueType DEF SetExpiry, NextDue, brokerVars, diskVars
  <2>2. HasCart(u) /\ u \notin ttl /\ u # topic[position].user
    BY <2>1 DEF HasCart, EmptyCart
  <2>3. PICK w \in AllWrites(u, i) : w >= position
    BY <1>1, <2>1, <2>2 DEF Due
  <2>4. w # position
    BY <2>2 DEF AllWrites, Writes
  <2> QED
    BY <1>0, <2>1, <2>3, <2>4 DEF Due, AllWrites, Writes
<1>5. CASE Commit \/ Crash \/ Restart
  <2>1. topic' = topic /\ cart' = cart /\ ttl' = ttl /\ intact' = intact
    BY <1>5 DEF Commit, Crash, Restart, brokerVars, redisVars, diskVars
  <2>2. NextDue' <= NextDue /\ NextDue' \in Nat
    <3>1. CASE Commit \/ Restart
      <4>1. NextDue' = NextDue
        BY <3>1 DEF Commit, Restart, NextDue
      <4> QED
        BY <1>0, <4>1
    <3>2. CASE Crash
      <4>1. NextDue' = committed + 1
        BY <3>2 DEF Crash, NextDue
      <4> QED
        BY <1>0, <4>1
    <3> QED
      BY <1>5, <3>1, <3>2
  <2> QED
    BY <1>0, <1>1, <2>1, <2>2 DEF Due, AllWrites, Writes
<1>6. CASE \E v \in Users : ExpireCart(v)
  <2>1. PICK v \in Users : ExpireCart(v)
    BY <1>6
  <2>2. u # v /\ cart'[u][i] = cart[u][i]
    BY <2>1 DEF ExpireCart, EmptyCart, CartTypeOK, Carts
  <2>3. topic' = topic /\ intact' = intact /\ u \notin ttl /\ NextDue' = NextDue
    BY <2>1, <2>2 DEF ExpireCart, brokerVars, consumerVars, diskVars, NextDue
  <2> QED
    BY <1>1, <2>2, <2>3 DEF Due, AllWrites, Writes
<1>7. CASE \E emptied \in BOOLEAN : Rebuild(emptied)
  <2>1. /\ topic' = topic /\ NextDue' = 1
        /\ cart' = cart \/ cart' = [v \in Users |-> EmptyCart]
    BY <1>7 DEF Rebuild, brokerVars, redisVars, NextDue
  <2>2. cart'[u][i] = cart[u][i]
    BY <2>1 DEF EmptyCart
  <2>3. PICK w \in AllWrites(u, i) : w = cart[u][i]
    BY <2>2 DEF FieldInv, Written, AllWrites, Writes, Offsets
  <2>4. w >= 1
    BY <1>0, <2>3 DEF Offsets
  <2> QED
    BY <2>1, <2>4 DEF Due, AllWrites, Writes
<1>8. CASE LoseWrites
  <2>1. intact' = (intact /\ synced = redisVars) /\ intact' \in BOOLEAN
    BY <1>8 DEF LoseWrites, CartTypeOK
  <2>2. intact /\ synced = redisVars
    BY <2>1
  <2>3. topic' = topic /\ cart' = cart /\ ttl' = ttl /\ NextDue' = NextDue
    BY <1>8, <2>2 DEF LoseWrites, brokerVars, consumerVars, redisVars, NextDue
  <2> QED
    BY <1>1, <2>2, <2>3 DEF Due, AllWrites, Writes
<1>9. CASE UNCHANGED <<topic, consumerVars, redisVars, intact>>
    BY <1>1, <1>9 DEF Due, AllWrites, Writes, NextDue, consumerVars, redisVars
<1> QED
    BY <1>2, <1>3, <1>4, <1>5, <1>6, <1>7, <1>8, <1>9
    DEF Next, Compact, Sync, vars, brokerVars, diskVars, bounds

-----------------------------------------------------------------------------
(* The invariant and what follows from it.                                   *)

LEMMA CartInvInit == Init => CartInv
<1> SUFFICES ASSUME Init
             PROVE  CartInv
    OBVIOUS
<1>1. Len(topic) = 0 /\ topic \in Seq(Records)
    BY EmptySeq DEF Init
<1>2. cart \in Carts /\ synced \in Carts \X SUBSET Users
    BY DEF Init, Carts, EmptyCart, redisVars
<1>3. CartTypeOK
    BY <1>1, <1>2, CartBounds DEF Init, CartTypeOK, Offsets
<1>4. Offsets = {} /\ \A u, i : Writes(u, i, 0) = {}
    BY <1>1 DEF Offsets, Writes
<1>5. \A u \in Users, i \in Items : cart[u][i] = 0 /\ synced[1][u][i] = 0
    BY DEF Init, EmptyCart, redisVars
<1>6. SupersededInv /\ FieldInv /\ ExpiryInv
    BY <1>4, <1>5 DEF SupersededInv, FieldInv, ExpiryInv
<1>7. SkippedInv
    BY DEF Init, SkippedInv
<1>8. AppliedInv
    BY <1>1, <1>4, <1>5, ProjectionNone DEF AppliedInv
<1> QED
    BY <1>3, <1>6, <1>7, <1>8 DEF CartInv

LEMMA CartInvStep ==
    ASSUME CartInv, [Next]_vars
    PROVE  CartInv'
<1>1. CartTypeOK /\ SupersededInv /\ FieldInv /\ SkippedInv
    BY DEF CartInv
<1>2. CartTypeOK' /\ SupersededInv' /\ FieldInv' /\ SkippedInv'
    BY <1>1, CartTypeStep, SupersededStep, FieldStep, SkippedStep
<1> QED
    BY <1>2, AppliedStep, ExpiryStep DEF CartInv

LEMMA CartInvHolds == Spec => []CartInv
BY CartInvInit, CartInvStep, PTL DEF Spec

\* Whatever crashes, redeliveries, skipped tombstones, compaction, rebuilds and
\* lost writes there were: an offset is committed only once Redis reflects it.
THEOREM CommittedApplied == Spec => []CommittedIsApplied
<1>1. CartInv => CommittedIsApplied
  <2> SUFFICES ASSUME CartInv, expiries = 0, intact,
                      NEW u \in Users, NEW i \in Items,
                      \A o \in Writes(u, i, Len(topic)) : o <= committed
               PROVE  cart[u][i] = Projection(Len(topic))[u][i]
    BY DEF CommittedIsApplied
  <2>1. /\ committed \in Nat /\ position \in Nat /\ committed <= position
        /\ AllWrites(u, i) \subseteq Nat
    BY LogLength DEF CartInv, AllWrites, Writes
  <2>2. \A o \in AllWrites(u, i) : o <= position
    BY <2>1 DEF AllWrites
  <2> QED
    BY <2>2 DEF CartInv, AppliedInv
<1> QED
    BY <1>1, CartInvHolds, PTL

\* A consumer that has caught up has left no cart without an expiry, wherever
\* it died between HSET and EXPIRE.
THEOREM CartsExpire == Spec => []NoImmortalCart
<1>1. CartInv => NoImmortalCart
  <2> SUFFICES ASSUME CartInv, phase = "poll", Pending = {}, intact,
                      NEW u \in Users, HasCart(u), u \notin ttl
               PROVE  FALSE
    BY DEF NoImmortalCart
  <2>1. PICK i \in Items : cart[u][i] # 0
    BY DEF HasCart, EmptyCart, CartInv, CartTypeOK, Carts
  <2>2. /\ position \in Nat /\ NextDue = position + 1
        /\ AllWrites(u, i) \subseteq Nat
    BY LogLength, NextDueType DEF CartInv, AllWrites, Writes
  <2>3. PICK w \in AllWrites(u, i) : w > position
    BY <2>1, <2>2 DEF CartInv, ExpiryInv
  <2>4. PICK v \in AllWrites(u, i) : IsLast(u, i, v)
    BY <2>3, LastExists DEF CartInv
  <2>5. v \in Offsets \ compacted /\ v > position
    BY <2>2, <2>3, <2>4, LastStays DEF CartInv, IsLast
  <2> QED
    BY <2>5 DEF Pending
<1> QED
    BY <1>1, CartInvHolds, PTL

-----------------------------------------------------------------------------
(* Readers.                                                                  *)

LEMMA ReadStepIsStep == [ReadNext]_readVars => [Next]_vars
    BY DEF ReadNext, ReadCart, readVars, vars

\* A reader changes nothing the materializer or Redis has: what is proved
\* without readers holds beside them.
THEOREM ReadsDisturbNothing == ReadSpec => Spec
<1>1. ReadInit => Init
    BY DEF ReadInit
<1> QED
    BY <1>1, ReadStepIsStep, PTL DEF ReadSpec, Spec

LEMMA StaysUndisturbed ==
    ASSUME CartTypeOK, [Next]_vars, Undisturbed'
    PROVE  Undisturbed /\ (LoseWrites => cart' = cart)
<1>0. expiries \in Nat /\ rebuilds \in Nat
    BY CartBounds DEF CartTypeOK
<1>1. CASE \E u \in Users : ExpireCart(u)
    BY <1>0, <1>1 DEF ExpireCart, Undisturbed
<1>2. CASE \E emptied \in BOOLEAN : Rebuild(emptied)
    BY <1>0, <1>2 DEF Rebuild, Undisturbed
<1>3. CASE LoseWrites
  <2>1. intact' = (intact /\ synced = redisVars) /\ intact'
    BY <1>3 DEF LoseWrites, Undisturbed
  <2>2. intact /\ synced = redisVars
    BY <2>1
  <2> QED
    BY <1>3, <2>2 DEF LoseWrites, Undisturbed, redisVars
<1>4. CASE UNCHANGED <<expiries, rebuilds, intact>>
    BY <1>3, <1>4 DEF Undisturbed
<1> QED
    BY <1>1, <1>2, <1>3, <1>4
    DEF Next, Produce, Compact, SkipTombstone, HSet, HDel, SetExpiry, Commit, Crash,
        Restart, Sync, vars, diskVars, bounds

\* A mutation that is carried out, again or for the first time, lies at or beyond
\* what a field is as of, and no write before it will be carried out.
LEMMA AsOfNext ==
    ASSUME CartInv, NEW o \in Offsets, HSet(o) \/ HDel(o),
           NEW u \in Users, NEW i \in Items, topic[o].user = u, topic[o].item = i,
           NEW m \in 0..Len(topic), AsOf(u, i, m)
    PROVE  o >= m /\ AsOf(u, i, o)'
<1> USE DEF CartInv
<1>1. /\ IsNext(o) /\ phase = "poll" /\ topic' = topic /\ compacted' = compacted
      /\ committed' = committed /\ topic[o].op # "TOMBSTONE"
    BY DEF HSet, HDel, brokerVars
<1>2. /\ o \in Nat /\ position \in Nat /\ committed \in Nat /\ o > position
      /\ o <= Len(topic) /\ committed <= position /\ o \notin compacted
    BY <1>1, LogLength, PolledRecord
<1>3. o \in AllWrites(u, i) /\ o \in Writes(u, i, o)
    BY <1>1, <1>2 DEF AllWrites, Writes, Offsets
<1>4. o >= m
    BY <1>2, <1>3 DEF AsOf
<1>5. Projection(o)'[u][i] = IF topic[o].op = "UPSERT" THEN o ELSE 0
  <2>1. \A p \in Writes(u, i, o) : p <= o
    BY <1>2 DEF Writes
  <2>2. Projection(o)[u][i] = IF topic[o].op = "UPSERT" THEN o ELSE 0
    BY <1>2, <1>3, <2>1, ProjectionValue
  <2>3. o \in 0..Len(topic)
    BY <1>2
  <2> QED
    BY <1>1, <2>2, <2>3, PrefixStays
<1>6. cart'[u][i] = IF topic[o].op = "UPSERT" THEN o ELSE 0
  <2>1. CASE HSet(o)
    <3>1. cart'[u][i] = o
      BY <2>1, FieldAfterHSet
    <3> QED
      BY <2>1, <3>1 DEF HSet
  <2>2. CASE HDel(o)
    <3>1. cart'[u][i] = 0
      BY <2>2, FieldAfterHDel
    <3> QED
      BY <2>2, <3>1 DEF HDel
  <2> QED
    BY <2>1, <2>2
<1>7. ASSUME NEW w \in AllWrites(u, i) \ compacted, w > committed
      PROVE  w >= o
  <2>1. w \in Offsets /\ w \in Nat /\ ~Idle(w)
    BY <1>7, LogLength DEF AllWrites, Writes, Offsets, Idle
  <2>2. w \notin (committed + 1)..(o - 1)
    BY <1>1, <2>1, SkippedUpTo
  <2> QED
    BY <1>2, <1>7, <2>1, <2>2
<1>8. AllWrites(u, i)' = AllWrites(u, i)
    BY <1>1 DEF AllWrites, Writes
<1> QED
    BY <1>1, <1>4, <1>5, <1>6, <1>7, <1>8 DEF AsOf

LEMMA AsOfStays ==
    ASSUME CartInv, [Next]_vars, NEW u \in Users, NEW i \in Items,
           cart'[u][i] = cart[u][i], committed' >= committed, committed' \in Nat,
           NEW m \in 0..Len(topic), AsOf(u, i, m)
    PROVE  AsOf(u, i, m)'
<1> USE DEF CartInv
<1>0. /\ Len(topic) \in Nat /\ committed \in Nat /\ committed <= Len(topic)
      /\ AllWrites(u, i) \subseteq Nat
    BY LogLength DEF AllWrites, Writes
<1>1. /\ \A o \in Offsets : topic'[o] = topic[o]
      /\ \A w \in AllWrites(u, i)' \ compacted' :
            w \in AllWrites(u, i) \ compacted \/ w > Len(topic)
  <2>1. CASE \E r \in Mutations : Produce(r)
    <3>1. PICK r \in Mutations : Produce(r)
      BY <2>1
    <3>2. /\ \A o \in Offsets : topic'[o] = topic[o]
          /\ Len(topic') > Len(topic)
      BY <3>1, ProduceExtends
    <3>3. AllWrites(u, i)' \subseteq AllWrites(u, i) \cup {Len(topic')}
      BY <3>1, ProduceWrites
    <3>4. compacted' = compacted
      BY <3>1 DEF Produce
    <3> QED
      BY <3>2, <3>3, <3>4
  <2>2. CASE topic' = topic /\ compacted \subseteq compacted'
    BY <2>2 DEF AllWrites, Writes
  <2> QED
    BY <2>1, <2>2
    DEF Next, Compact, SkipTombstone, HSet, HDel, SetExpiry, Commit, Crash, Restart,
        ExpireCart, Rebuild, Sync, LoseWrites, vars, brokerVars
<1>2. Projection(m)'[u][i] = Projection(m)[u][i]
    BY <1>1, PrefixStays
<1>3. ASSUME NEW w \in AllWrites(u, i)' \ compacted', w > committed'
      PROVE  w >= m
  <2>1. CASE w \in AllWrites(u, i) \ compacted
    BY <1>0, <1>3, <2>1 DEF AsOf
  <2>2. CASE w > Len(topic) /\ w \in Nat
    BY <1>0, <2>2
  <2>3. w \in Nat
    BY <1>3 DEF AllWrites, Writes
  <2> QED
    BY <1>1, <1>3, <2>1, <2>2, <2>3
<1> QED
    BY <1>2, <1>3 DEF AsOf

\* While Redis is undisturbed only the consumer's calls change a field, and the
\* committed offset never goes back.
LEMMA UndisturbedStep ==
    ASSUME CartTypeOK, [Next]_vars, Undisturbed', NEW u \in Users, NEW i \in Items
    PROVE  /\ committed' >= committed
           /\ Len(topic') >= Len(topic) /\ Len(topic') \in Nat
           /\ \/ cart'[u][i] = cart[u][i]
              \/ \E o \in Offsets : /\ HSet(o) \/ HDel(o)
                                    /\ topic[o].user = u /\ topic[o].item = i
<1>0. /\ Len(topic) \in Nat /\ committed \in Nat /\ position \in Nat
      /\ committed <= position /\ expiries \in Nat /\ rebuilds \in Nat
    BY LogLength, CartBounds DEF CartTypeOK
<1>1. CASE \E r \in Mutations : Produce(r)
    BY <1>0, <1>1, ProduceExtends DEF Produce, consumerVars, redisVars
<1>2. CASE \E o \in Offsets : HSet(o) \/ HDel(o)
  <2>1. PICK o \in Offsets : HSet(o) \/ HDel(o)
    BY <1>2
  <2>2. committed' = committed /\ topic' = topic
    BY <2>1 DEF HSet, HDel, brokerVars
  <2>3. (topic[o].user = u /\ topic[o].item = i) \/ cart'[u][i] = cart[u][i]
    BY <2>1, FieldAfterHSet, FieldAfterHDel
  <2> QED
    BY <1>0, <2>1, <2>2, <2>3
<1>3. CASE Commit
    BY <1>0, <1>3 DEF Commit, brokerVars, redisVars
<1>4. CASE LoseWrites
    BY <1>0, <1>4, StaysUndisturbed DEF LoseWrites, brokerVars, consumerVars
<1>5. CASE (\E v \in Users : ExpireCart(v)) \/ \E emptied \in BOOLEAN : Rebuild(emptied)
    BY <1>0, <1>5 DEF ExpireCart, Rebuild, Undisturbed
<1>6. CASE UNCHANGED <<topic, committed, cart>>
    BY <1>0, <1>6
<1> QED
    BY <1>1, <1>2, <1>3, <1>4, <1>5, <1>6
    DEF Next, Compact, SkipTombstone, SetExpiry, Crash, Restart, Sync, vars,
        brokerVars, consumerVars, redisVars

LEMMA SeenNext ==
    ASSUME CartInv, SeenInv, [Next]_vars, seen' = Kept
    PROVE  SeenInv'
<1>0. CartTypeOK /\ Len(topic) \in Nat /\ committed \in Nat /\ seen \in Carts
    BY LogLength DEF CartInv, SeenInv
<1>1. seen' \in Carts
    BY <1>0 DEF Kept, NothingSeen, EmptyCart, Carts
<1>2. ASSUME Undisturbed', NEW u \in Users, NEW i \in Items
      PROVE  \E n \in seen'[u][i]..Len(topic') : AsOf(u, i, n)'
  <2>1. Undisturbed /\ seen' = seen
    BY <1>0, <1>2, StaysUndisturbed DEF Kept
  <2>2. PICK m \in seen[u][i]..Len(topic) : AsOf(u, i, m)
    BY <2>1 DEF SeenInv
  <2>3. seen[u][i] \in Nat
    BY <1>0 DEF Carts
  <2>4. m \in 0..Len(topic)
    BY <1>0, <2>2, <2>3
  <2>5. /\ committed' >= committed
        /\ Len(topic') >= Len(topic) /\ Len(topic') \in Nat
    BY <1>0, <1>2, UndisturbedStep
  <2>6. CASE cart'[u][i] = cart[u][i]
    <3>1. committed' \in Nat
      BY CartInvStep, LogLength DEF CartInv, CartTypeOK
    <3>2. AsOf(u, i, m)'
      BY <2>2, <2>4, <2>5, <2>6, <3>1, AsOfStays
    <3>3. m \in seen[u][i]..Len(topic')
      BY <1>0, <2>2, <2>3, <2>5
    <3> QED
      BY <2>1, <3>2, <3>3
  <2>7. CASE \E o \in Offsets : /\ HSet(o) \/ HDel(o)
                                /\ topic[o].user = u /\ topic[o].item = i
    <3>1. PICK o \in Offsets : /\ HSet(o) \/ HDel(o)
                               /\ topic[o].user = u /\ topic[o].item = i
      BY <2>7
    <3>2. o >= m /\ AsOf(u, i, o)'
      BY <2>2, <2>4, <3>1, AsOfNext
    <3>3. o \in seen[u][i]..Len(topic')
      BY <1>0, <2>2, <2>3, <2>4, <2>5, <3>2 DEF Offsets
    <3> QED
      BY <2>1, <3>2, <3>3
  <2> QED
    BY <1>0, <1>2, <2>6, <2>7, UndisturbedStep
<1> QED
    BY <1>1, <1>2 DEF SeenInv

\* An answer is as of an offset no later than the one the field is as of.
LEMMA SeenRead ==
    ASSUME CartInv, SeenInv, NEW v \in Users, ReadCart(v)
    PROVE  SeenInv'
<1>0. Undisturbed /\ UNCHANGED vars /\ seen \in Carts /\ Len(topic) \in Nat
    BY LogLength DEF ReadCart, SeenInv, CartInv
<1>1. \A u \in Users, i \in Items : \A m : AsOf(u, i, m) => AsOf(u, i, m)'
    BY <1>0 DEF AsOf, AllWrites, Writes, Projection, vars, brokerVars,
       consumerVars, redisVars
<1>2. ASSUME NEW u \in Users, NEW i \in Items
      PROVE  /\ seen'[u][i] \in Nat
             /\ \E m \in seen'[u][i]..Len(topic) : AsOf(u, i, m)
  <2>1. PICK m \in seen[u][i]..Len(topic) : AsOf(u, i, m)
    BY <1>0 DEF SeenInv
  <2>2. seen[u][i] \in Nat /\ m \in Nat
    BY <1>0, <2>1 DEF Carts
  <2>3. CASE u # v
    <3>1. seen'[u] = seen[u]
      BY <1>0, <2>3 DEF ReadCart, Carts
    <3> QED
      BY <2>1, <2>2, <3>1
  <2>4. CASE u = v
    <3> DEFINE S == ShownAfter(u, i, cart[u][i], seen[u][i])
    <3>1. seen'[u][i] = CHOOSE n \in S : \A k \in S : n <= k
      BY <1>0, <2>4 DEF ReadCart, Carts
    <3>2. S \in SUBSET Nat /\ m \in S
      BY <1>0, <2>1, <2>2 DEF ShownAfter, AsOf
    <3> HIDE DEF S
    <3>3. \E n \in S : \A k \in S : n <= k
      BY <3>2, LeastExists
    <3>4. seen'[u][i] \in S /\ seen'[u][i] <= m
      BY <3>1, <3>2, <3>3
    <3>5. PICK n \in Nat : n = seen'[u][i]
      BY <3>2, <3>4
    <3>6. m \in n..Len(topic)
      BY <1>0, <2>1, <2>2, <3>4, <3>5
    <3> QED
      BY <2>1, <3>5, <3>6
  <2> QED
    BY <2>3, <2>4
<1>3. seen' \in Carts
  <2> DEFINE Least(i) == CHOOSE n \in ShownAfter(v, i, cart[v][i], seen[v][i]) :
                            \A m \in ShownAfter(v, i, cart[v][i], seen[v][i]) : n <= m
  <2>1. seen' = [seen EXCEPT ![v] = [i \in Items |-> Least(i)]]
    BY DEF ReadCart
  <2> HIDE DEF Least
  <2>2. seen'[v] = [i \in Items |-> Least(i)]
    BY <1>0, <2>1 DEF Carts
  <2>3. seen'[v] \in [Items -> Nat]
    BY <1>2, <2>2
  <2> QED
    BY <1>0, <2>1, <2>2, <2>3 DEF Carts
<1>4. topic' = topic
    BY <1>0 DEF vars, brokerVars
<1> QED
    BY <1>1, <1>2, <1>3, <1>4 DEF SeenInv

\* For any number of users, items and answers: however often the materializer
\* repeats its last call after a crash, an answer never shows an item as of an
\* earlier mutation than the answer before it.
THEOREM AnswersAdvance == ReadSpec => []AnswersNeverGoBack
<1>1. ReadInit => SeenInv
  <2> SUFFICES ASSUME ReadInit, NEW u \in Users, NEW i \in Items
               PROVE  seen \in Carts /\ \E m \in seen[u][i]..Len(topic) : AsOf(u, i, m)
    BY DEF SeenInv, ReadInit, NothingSeen, EmptyCart, Carts
  <2>1. /\ seen \in Carts /\ seen[u][i] = 0 /\ Len(topic) = 0 /\ committed = 0
        /\ cart[u][i] = 0
    BY EmptySeq DEF ReadInit, Init, NothingSeen, EmptyCart, Carts
  <2>2. Writes(u, i, 0) = {}
    BY DEF Writes
  <2>3. AsOf(u, i, 0)
    BY <2>1, <2>2, ProjectionNone DEF AsOf, AllWrites
  <2> QED
    BY <2>1, <2>3
<1>2. CartInv /\ SeenInv /\ [ReadNext]_readVars => SeenInv'
  <2> SUFFICES ASSUME CartInv, SeenInv, [ReadNext]_readVars
               PROVE  SeenInv'
    OBVIOUS
  <2>1. CASE Next /\ seen' = Kept
    BY <2>1, SeenNext
  <2>2. CASE \E u \in Users : ReadCart(u)
    BY <2>2, SeenRead
  <2>3. CASE UNCHANGED readVars
    <3>1. UNCHANGED <<topic, compacted, committed, cart, seen, Undisturbed>>
      BY <2>3 DEF Undisturbed, readVars, vars, brokerVars, consumerVars, redisVars,
         diskVars, bounds
    <3>2. \A u \in Users, i \in Items : \A m : AsOf(u, i, m) => AsOf(u, i, m)'
      BY <3>1 DEF AsOf, AllWrites, Writes, Projection
    <3> QED
      BY <3>1, <3>2 DEF SeenInv
  <2> QED
    BY <2>1, <2>2, <2>3 DEF ReadNext
<1>3. CartInv /\ SeenInv => AnswersNeverGoBack
  <2> SUFFICES ASSUME CartInv, SeenInv, Undisturbed,
                      NEW u \in Users, NEW i \in Items
               PROVE  ShownAfter(u, i, cart[u][i], seen[u][i]) # {}
    BY DEF AnswersNeverGoBack
  <2> QED
    BY DEF SeenInv, ShownAfter, AsOf
<1> QED
    BY <1>1, <1>2, <1>3, ReadsDisturbNothing, CartInvHolds, PTL DEF ReadSpec
=============================================================================
