------------------------------ MODULE RedisCart ------------------------------
(***************************************************************************)
(* The cart materializer: one consumer of the compacted topic of cart      *)
(* mutations, which writes each mutation to the user's Redis hash and then *)
(* commits its offset.  It keeps no version: what Redis ends up with       *)
(* depends on the order and the redelivery of records alone.               *)
(*                                                                         *)
(* The Redis calls of one record (HSET then EXPIRE, or HDEL), the commit   *)
(* and the next poll are separate steps; the process may die between any   *)
(* two and is restarted by the container runtime from the committed        *)
(* offset.  A hash field holds the offset of the mutation that wrote it.   *)
(* Redis appends to its file once a second: its host may fail and bring it *)
(* back without the last writes, whatever Kafka's offset says.             *)
(***************************************************************************)
EXTENDS Integers, Sequences

CONSTANTS
    Users, Items,
    MaxTopic,     \* bound: records ever written to the topic
    MaxCrashes,   \* bound: deaths of the consumer process
    MaxExpiries,  \* bound: carts whose TTL runs out
    MaxRebuilds,  \* bound: rebuilds by the operator
    MaxLosses     \* bound: failures of the Redis host

ASSUME CartBounds ==
    /\ MaxTopic \in Nat /\ MaxCrashes \in Nat
    /\ MaxExpiries \in Nat /\ MaxRebuilds \in Nat /\ MaxLosses \in Nat

VARIABLES
    topic,      \* records: [op, user, item]
    compacted,  \* offsets the broker has removed
    position,   \* offset of the last record polled and finished with
    committed,  \* last committed offset of the consumer group
    phase,      \* poll, expire (after HSET), commit, down
    cart,       \* Redis: user -> item -> offset of the UPSERT, 0 if absent
    ttl,        \* Redis: users whose hash has an expiry set
    synced,     \* the Redis state its append-only file holds
    intact,     \* no write has been lost since the last rebuild began
    crashes, expiries, rebuilds, losses

brokerVars == <<topic, compacted>>
consumerVars == <<position, committed, phase>>
redisVars == <<cart, ttl>>
diskVars == <<synced, intact>>
bounds == <<crashes, expiries, rebuilds, losses>>
vars == <<brokerVars, consumerVars, redisVars, diskVars, bounds>>

\* The job's Top-1 view writes UPSERT and DELETE rows; the sink may write a
\* tombstone (a null value) for the row it replaces, never as a key's last.
Mutations == [op : {"UPSERT", "DELETE"}, user : Users, item : Items]
Tombstone(r) == [r EXCEPT !.op = "TOMBSTONE"]
Offsets == 1..Len(topic)
SameKey(a, b) == topic[a].user = topic[b].user /\ topic[a].item = topic[b].item

EmptyCart == [i \in Items |-> 0]
HasCart(u) == cart[u] # EmptyCart

\* Offsets still to be delivered, and the first of them.
Pending == {o \in Offsets : o > position /\ o \notin compacted}
IsNext(o) == o \in Pending /\ \A p \in Pending : o <= p

Init ==
    /\ topic = << >> /\ compacted = {}
    /\ position = 0 /\ committed = 0 /\ phase = "poll"
    /\ cart = [u \in Users |-> EmptyCart] /\ ttl = {}
    /\ synced = redisVars /\ intact = TRUE
    /\ crashes = 0 /\ expiries = 0 /\ rebuilds = 0 /\ losses = 0

-----------------------------------------------------------------------------
(* The broker. *)

Produce(r) ==
    /\ \/ /\ Len(topic) < MaxTopic
          /\ topic' = Append(topic, r)
       \/ /\ Len(topic) < MaxTopic - 1
          /\ topic' = topic \o <<Tombstone(r), r>>
    /\ UNCHANGED <<compacted, consumerVars, redisVars, diskVars, bounds>>

\* cleanup.policy=compact: a record goes once its key has a later one.
Compact(o) ==
    /\ o \notin compacted
    /\ \E p \in Offsets : p > o /\ SameKey(o, p)
    /\ compacted' = compacted \cup {o}
    /\ UNCHANGED <<topic, consumerVars, redisVars, diskVars, bounds>>

-----------------------------------------------------------------------------
(* The consumer's loop. *)

\* Mutant: a null value raises out of the loop.
TombstoneRaises(o) ==
    /\ phase = "poll" /\ IsNext(o) /\ topic[o].op = "TOMBSTONE"
    /\ phase' = "down"
    /\ UNCHANGED <<brokerVars, position, committed, redisVars, diskVars, bounds>>

\* A null value is skipped, and its offset is not committed.
SkipTombstone(o) ==
    /\ phase = "poll" /\ IsNext(o) /\ topic[o].op = "TOMBSTONE"
    /\ position' = o
    /\ UNCHANGED <<brokerVars, committed, phase, redisVars, diskVars, bounds>>

HSet(o) ==
    /\ phase = "poll" /\ IsNext(o) /\ topic[o].op = "UPSERT"
    /\ cart' = [cart EXCEPT ![topic[o].user][topic[o].item] = o]
    /\ position' = o
    /\ phase' = "expire"
    /\ UNCHANGED <<brokerVars, committed, ttl, diskVars, bounds>>

SetExpiry ==
    /\ phase = "expire"
    /\ ttl' = IF HasCart(topic[position].user)
              THEN ttl \cup {topic[position].user} ELSE ttl
    /\ phase' = "commit"
    /\ UNCHANGED <<brokerVars, position, committed, cart, diskVars, bounds>>

\* Mutant: a DELETE is skipped as a tombstone is.
HDelSkipped(o) ==
    /\ phase = "poll" /\ IsNext(o) /\ topic[o].op = "DELETE"
    /\ position' = o
    /\ phase' = "commit"
    /\ UNCHANGED <<brokerVars, committed, redisVars, diskVars, bounds>>

\* Redis removes a hash, and its expiry, with its last field.
HDel(o) ==
    /\ phase = "poll" /\ IsNext(o) /\ topic[o].op = "DELETE"
    /\ cart' = [cart EXCEPT ![topic[o].user][topic[o].item] = 0]
    /\ ttl' = {u \in ttl : cart'[u] # EmptyCart}
    /\ position' = o
    /\ phase' = "commit"
    /\ UNCHANGED <<brokerVars, committed, diskVars, bounds>>

\* Mutant: asynchronous=True, which the process may not live to see done.
CommitLater ==
    /\ phase = "commit"
    /\ committed' \in {committed, position}
    /\ phase' = "poll"
    /\ UNCHANGED <<brokerVars, position, redisVars, diskVars, bounds>>

Commit ==
    /\ phase = "commit"
    /\ committed' = position
    /\ phase' = "poll"
    /\ UNCHANGED <<brokerVars, position, redisVars, diskVars, bounds>>

Consume ==
    \/ \E o \in Offsets : SkipTombstone(o) \/ HSet(o) \/ HDel(o)
    \/ SetExpiry
    \/ Commit

-----------------------------------------------------------------------------
(* Failures, TTL and rebuilds. *)

\* The process dies, or a Redis or Kafka error ends it.
Crash ==
    /\ phase # "down"
    /\ crashes < MaxCrashes
    /\ crashes' = crashes + 1
    /\ phase' = "down"
    /\ UNCHANGED <<brokerVars, position, committed, redisVars, diskVars, expiries,
                   rebuilds, losses>>

\* Mutant: enable.auto.commit, so what was polled counts as committed.
RestartAutoCommitted ==
    /\ phase = "down"
    /\ committed' = position
    /\ phase' = "poll"
    /\ UNCHANGED <<brokerVars, position, redisVars, diskVars, bounds>>

Restart ==
    /\ phase = "down"
    /\ position' = committed
    /\ phase' = "poll"
    /\ UNCHANGED <<brokerVars, committed, redisVars, diskVars, bounds>>

ExpireCart(u) ==
    /\ u \in ttl
    /\ expiries < MaxExpiries
    /\ expiries' = expiries + 1
    /\ cart' = [cart EXCEPT ![u] = EmptyCart]
    /\ ttl' = ttl \ {u}
    /\ UNCHANGED <<brokerVars, consumerVars, diskVars, crashes, rebuilds, losses>>

\* The operator stops the consumer, wherever it stands, and has another one
\* read the topic again under another REDIS_CART_CONSUMER_GROUP
\* (auto.offset.reset=earliest), over an emptied Redis or over the old one.
Rebuild(emptied) ==
    /\ rebuilds < MaxRebuilds
    /\ rebuilds' = rebuilds + 1
    /\ position' = 0 /\ committed' = 0 /\ phase' = "poll"
    /\ IF emptied THEN cart' = [u \in Users |-> EmptyCart] /\ ttl' = {}
                  ELSE UNCHANGED redisVars
    /\ intact' = TRUE
    /\ UNCHANGED <<brokerVars, synced, crashes, expiries, losses>>

\* appendfsync everysec; of no consequence once no loss can follow.
Sync ==
    /\ losses < MaxLosses
    /\ synced' = redisVars
    /\ UNCHANGED <<brokerVars, consumerVars, redisVars, intact, bounds>>

\* The consumer may notice, which is a crash, or not.
LoseWrites ==
    /\ losses < MaxLosses
    /\ losses' = losses + 1
    /\ cart' = synced[1] /\ ttl' = synced[2]
    /\ intact' = (intact /\ synced = redisVars)
    /\ UNCHANGED <<brokerVars, consumerVars, synced, crashes, expiries, rebuilds>>

Next ==
    \/ \E r \in Mutations : Produce(r)
    \/ \E o \in Offsets : \/ Compact(o)
                          \/ SkipTombstone(o)
                          \/ HSet(o)
                          \/ HDel(o)
    \/ SetExpiry
    \/ Commit
    \/ Crash
    \/ Restart
    \/ \E u \in Users : ExpireCart(u)
    \/ \E emptied \in BOOLEAN : Rebuild(emptied)
    \/ Sync
    \/ LoseWrites

Spec == Init /\ [][Next]_vars

\* The loop runs, and restart: unless-stopped brings the container back.
FairSpec == Spec /\ WF_vars(Consume) /\ WF_vars(Restart)

-----------------------------------------------------------------------------
(* The reference: the cart a reader of the first n records would build. *)

Writes(u, i, n) ==
    {o \in 1..n : topic[o].user = u /\ topic[o].item = i
                    /\ topic[o].op # "TOMBSTONE"}

Projection(n) ==
    [u \in Users |-> [i \in Items |->
        IF \E o \in Writes(u, i, n) : /\ topic[o].op = "UPSERT"
                                      /\ \A p \in Writes(u, i, n) : p <= o
        THEN CHOOSE o \in Writes(u, i, n) : \A p \in Writes(u, i, n) : p <= o
        ELSE 0]]

\* A commit covers nothing that Redis does not reflect: once the group's offset
\* has passed every record of a (user, item), its field holds the last mutation
\* of that key, whatever crashes, redeliveries, skipped tombstones, compaction
\* and rebuilds there were.  In particular a consumer that has caught up serves
\* the carts the log describes, and the compacted log rebuilds Redis, also one
\* that has lost writes.
CommittedIsApplied ==
    expiries = 0 /\ intact =>
        \A u \in Users, i \in Items :
            (\A o \in Writes(u, i, Len(topic)) : o <= committed)
                => cart[u][i] = Projection(Len(topic))[u][i]

\* No cart is left without an expiry for good: dying between HSET and EXPIRE
\* is repaired by the redelivery (redis_cart.py:30-31, 72-73), and a Redis that
\* comes back with the first write and not the second one by a rebuild.
NoImmortalCart ==
    phase = "poll" /\ Pending = {} /\ intact => \A u \in Users : HasCart(u) => u \in ttl

\* A consumer that is behind catches up: whenever records are pending, a later
\* poll has every one of the (finitely many) records behind it, through crashes
\* and rebuilds (redis_cart.py:63-73, restart: unless-stopped).
EveryMutationConsumed ==
    (Pending # {}) ~> (phase = "poll" /\ position = Len(topic))
=============================================================================
