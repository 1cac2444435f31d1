---------------------------- MODULE FeatureReads ----------------------------
(***************************************************************************)
(* GET /v1/users/{user_id}/features beside the feature materializer: the   *)
(* API reads the hash, then its TTL, and answers.  Between the two calls   *)
(* the materializer may replace the hash, and the hash may expire; several *)
(* requests are under way at a time.                                       *)
(*                                                                         *)
(* answered is no state of the code: the greatest version any answer for a *)
(* user has shown, and so what a later request has to live up to.          *)
(***************************************************************************)
EXTENDS RedisFeatures

CONSTANT Clients

VARIABLES
    request,  \* client -> [phase, user, values, floor]
    answered  \* user -> feature_version, 0 before any

readVars == <<vars, request, answered>>

Idle == [phase |-> "idle", user |-> 0, values |-> Absent, floor |-> 0]

ReadInit ==
    /\ Init
    /\ request = [c \in Clients |-> Idle]
    /\ answered = [u \in Users |-> 0]

\* hgetall
ReadHash(c, u) ==
    /\ request[c] = Idle
    /\ request' = [request EXCEPT ![c] = [phase |-> "read", user |-> u,
                                          values |-> store[u], floor |-> answered[u]]]
    /\ UNCHANGED <<vars, answered>>

VersionShown(r) == IF r.values = Absent THEN 0 ELSE r.values.version

\* ttl, and the answer: available unless the hash was empty.
Answer(c) ==
    LET r == request[c]
    IN  /\ r.phase = "read"
        /\ request' = [request EXCEPT ![c] = Idle]
        /\ answered' = [answered EXCEPT ![r.user] =
                           IF VersionShown(r) > @ THEN VersionShown(r) ELSE @]
        /\ UNCHANGED vars

ReadNext ==
    \/ Next /\ UNCHANGED <<request, answered>>
    \/ \E c \in Clients : Answer(c) \/ \E u \in Users : ReadHash(c, u)

ReadSpec == ReadInit /\ [][ReadNext]_readVars
FairReadSpec ==
    /\ ReadSpec
    /\ WF_readVars(Consume /\ UNCHANGED <<request, answered>>)
    /\ WF_readVars(Restart /\ UNCHANGED <<request, answered>>)

\* Until a hash expires: a request that begins after an answer shows its version
\* or a newer one, through redelivery and rewinds of the materializer; and the
\* TTL an answer carries is that of its snapshot or of one that has replaced it,
\* never of an older one or of no hash (serving.py:59-89, redis_features.py:17-35).
AnswersNeverGoBack ==
    expiries = 0 =>
        \A c \in Clients : request[c].phase = "read" =>
            LET r == request[c]
            IN  /\ VersionShown(r) >= r.floor
                /\ r.values # Absent => /\ store[r.user] # Absent
                                        /\ store[r.user].version >= r.values.version
=============================================================================
