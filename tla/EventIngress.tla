---------------------------- MODULE EventIngress ----------------------------
(***************************************************************************)
(* What POST /v1/events promises its clients (app.py:49-59, kafka.py:      *)
(* 160-164), without threads, lock, producer or broker: a submitted        *)
(* message is in flight until it is written, once, or dropped; the client  *)
(* may be told at any time that it failed, but that it was accepted only   *)
(* when the topic holds it.  IngressApi implements this; the replay        *)
(* client's http command relies on it.                                     *)
(***************************************************************************)
EXTENDS Integers, Sequences, FiniteSets

CONSTANT Messages

VARIABLES
    log,       \* the topic user-behavior-events
    inflight,  \* messages whose write is still possible
    accepted   \* messages answered with 202

Written(m) == \E i \in DOMAIN log : log[i] = m

Init == log = << >> /\ inflight = {} /\ accepted = {}

Submit(m) ==
    /\ m \notin inflight /\ ~Written(m)
    /\ inflight' = inflight \cup {m}
    /\ UNCHANGED <<log, accepted>>

\* Possibly long after the client was told that the request failed.
Write(m) ==
    /\ m \in inflight
    /\ log' = Append(log, m)
    /\ inflight' = inflight \ {m}
    /\ UNCHANGED accepted

Drop(m) ==
    /\ m \in inflight
    /\ inflight' = inflight \ {m}
    /\ UNCHANGED <<log, accepted>>

Confirm(m) ==
    /\ Written(m)
    /\ accepted' = accepted \cup {m}
    /\ UNCHANGED <<log, inflight>>

\* The service dies: some of what is in flight is written, in some order, and
\* the rest is lost.
Fail ==
    /\ \E n \in 0..Cardinality(inflight) : \E s \in [1..n -> inflight] :
          /\ \A i, j \in 1..n : s[i] = s[j] => i = j
          /\ log' = log \o s
    /\ inflight' = {}
    /\ UNCHANGED accepted

Next ==
    \/ \E m \in Messages : Submit(m) \/ Write(m) \/ Drop(m) \/ Confirm(m)
    \/ Fail

Spec == Init /\ [][Next]_<<log, inflight, accepted>>
=============================================================================
