----------------------------- MODULE IngressApi -----------------------------
(***************************************************************************)
(* POST /v1/events: handlers run on the threads of the server's pool and   *)
(* share one KafkaEventPublisher; publish_confirmed holds its lock while   *)
(* it publishes one event and flushes.                                     *)
(*                                                                         *)
(* A request is named by its number; requests[n] is its body, and the      *)
(* message it publishes carries the same number.                           *)
(***************************************************************************)
EXTENDS EventContract, EventPublisher, FiniteSets

CONSTANTS
    Threads,       \* handler threads of the API process
    Bodies,        \* request bodies clients may send
    MaxRequests,   \* bound: requests ever received
    MaxFailures,   \* bound: deliveries the broker lets expire
    MaxCrashes,    \* bound: restarts of the API process
    NoThread

ASSUME NoThreadAssumption == NoThread \notin Threads
ASSUME RequestBounds ==
    MaxRequests \in Nat /\ MaxFailures \in Nat /\ MaxCrashes \in Nat

VARIABLES
    requests,  \* bodies received so far
    pc,        \* per thread: idle, waiting, locked, flushing
    serving,   \* per thread: the request it handles, 0 when idle
    holder,    \* the thread that holds KafkaEventPublisher._lock
    answers,   \* [request, code] given to clients
    failures, crashes

apiVars == <<requests, pc, serving, holder, answers>>
vars == <<queue, reports, errors, log, requests, pc, serving, holder, answers,
          failures, crashes>>

Event(n) == RequestedEvent(requests[n])
Answered(n, code) == [request |-> n, code |-> code] \in answers

Init ==
    /\ PublisherInit
    /\ requests = << >>
    /\ pc = [t \in Threads |-> "idle"]
    /\ serving = [t \in Threads |-> 0]
    /\ holder = NoThread
    /\ answers = {}
    /\ failures = 0
    /\ crashes = 0

\* A thread takes a request; validation happens before the lock.
Receive(t, body) ==
    /\ pc[t] = "idle"
    /\ Len(requests) < MaxRequests
    /\ requests' = Append(requests, body)
    /\ IF RequestAccepted(body)
       THEN /\ pc' = [pc EXCEPT ![t] = "waiting"]
            /\ serving' = [serving EXCEPT ![t] = Len(requests')]
            /\ UNCHANGED answers
       ELSE /\ answers' = answers \cup {[request |-> Len(requests'), code |-> 422]}
            /\ UNCHANGED <<pc, serving>>
    /\ UNCHANGED <<publisherVars, holder, failures, crashes>>

Lock(t) ==
    /\ pc[t] = "waiting"
    /\ holder = NoThread
    /\ holder' = t
    /\ pc' = [pc EXCEPT ![t] = "locked"]
    /\ UNCHANGED <<publisherVars, requests, serving, answers, failures, crashes>>

\* The handler returns or raises: the lock is released on both ways out.
Reply(t, code) ==
    /\ answers' = answers \cup {[request |-> serving[t], code |-> code]}
    /\ pc' = [pc EXCEPT ![t] = "idle"]
    /\ serving' = [serving EXCEPT ![t] = 0]
    /\ holder' = NoThread
    /\ UNCHANGED <<requests, failures, crashes>>

\* Mutant: the lock guards the publish and not the flush.
PublishAndUnlock(t) ==
    /\ pc[t] = "locked"
    /\ Publish(serving[t])
    /\ pc' = [pc EXCEPT ![t] = "flushing"]
    /\ holder' = NoThread
    /\ UNCHANGED <<requests, serving, answers, failures, crashes>>

PublishRequest(t) ==
    /\ pc[t] = "locked"
    /\ Publish(serving[t])
    /\ pc' = [pc EXCEPT ![t] = "flushing"]
    /\ UNCHANGED <<requests, serving, holder, answers, failures, crashes>>

\* BufferError is neither a ValueError nor a RuntimeError: HTTP 500.
ProducerIsFull(t) ==
    /\ pc[t] = "locked"
    /\ QueueFull
    /\ Reply(t, 500)
    /\ UNCHANGED publisherVars

Confirm(t) ==
    /\ pc[t] = "flushing"
    /\ FlushDone
    /\ Reply(t, IF FlushRaises THEN 503 ELSE 202)

\* Mutant: a flush that times out is answered with an undocumented status.
GiveUpWith504(t) ==
    /\ pc[t] = "flushing"
    /\ FlushTimesOut
    /\ Reply(t, 504)

\* Mutant: a flush that times out publishes the event once more.
GiveUpRetries(t) ==
    /\ pc[t] = "flushing"
    /\ FlushTimesOut
    /\ pc' = [pc EXCEPT ![t] = "locked"]
    /\ UNCHANGED <<requests, serving, holder, answers, failures, crashes>>

\* Mutant: the exception leaves the lock held.
GiveUpKeepsLock(t) ==
    /\ pc[t] = "flushing"
    /\ FlushTimesOut
    /\ answers' = answers \cup {[request |-> serving[t], code |-> 503]}
    /\ pc' = [pc EXCEPT ![t] = "idle"]
    /\ serving' = [serving EXCEPT ![t] = 0]
    /\ UNCHANGED <<requests, holder, failures, crashes>>

GiveUp(t) ==
    /\ pc[t] = "flushing"
    /\ FlushTimesOut
    /\ Reply(t, 503)

Acknowledge == BrokerAcknowledges /\ UNCHANGED <<apiVars, failures, crashes>>

Expire ==
    /\ failures < MaxFailures
    /\ failures' = failures + 1
    /\ DeliveryFails
    /\ UNCHANGED <<apiVars, crashes>>

\* The process dies; its clients see a closed connection (code 0).
Crash ==
    /\ crashes < MaxCrashes
    /\ crashes' = crashes + 1
    /\ PublisherLost
    /\ answers' = answers \cup {[request |-> serving[t], code |-> 0] :
                                    t \in {u \in Threads : serving[u] # 0}}
    /\ pc' = [t \in Threads |-> "idle"]
    /\ serving' = [t \in Threads |-> 0]
    /\ holder' = NoThread
    /\ UNCHANGED <<requests, failures>>

Step(t) ==
    Lock(t) \/ PublishRequest(t) \/ ProducerIsFull(t) \/ Confirm(t) \/ GiveUp(t)

Next ==
    \/ \E t \in Threads : \/ \E body \in Bodies : Receive(t, body)
                          \/ Lock(t)
                          \/ PublishRequest(t)
                          \/ ProducerIsFull(t)
                          \/ Confirm(t)
                          \/ GiveUp(t)
    \/ Acknowledge
    \/ Expire
    \/ Crash

Spec == Init /\ [][Next]_vars

\* Threads are scheduled and a flush ends by its timeout at the latest; the
\* broker owes nothing.
FairSpec == Spec /\ \A t \in Threads : WF_vars(Step(t))

-----------------------------------------------------------------------------
Logged(n) == \E i \in DOMAIN log : log[i] = n

TypeOK ==
    /\ requests \in Seq(Bodies)
    /\ pc \in [Threads -> {"idle", "waiting", "locked", "flushing"}]
    /\ serving \in [Threads -> 0..Len(requests)]
    /\ holder \in Threads \cup {NoThread}
    /\ answers \subseteq [request : 1..Len(requests), code : {0, 202, 422, 500, 503}]
    /\ queue \in Seq(1..Len(requests)) /\ log \in Seq(1..Len(requests))
    /\ errors \subseteq 1..Len(requests)
    /\ reports \in Seq([message : 1..Len(requests), failed : BOOLEAN])
    /\ failures \in 0..MaxFailures /\ crashes \in 0..MaxCrashes

\* 202 is given only for an event the topic holds, whatever other requests'
\* messages, timeouts, failures and restarts happen in between (app.py:49-59).
AcceptedIsDurable ==
    \A n \in DOMAIN requests : Answered(n, 202) => Logged(n)

\* The lock makes a confirmation the requester's own: between publishing and
\* its flush no other request's message enters the producer behind it, so what
\* settles the flush includes its message, last (kafka.py:162-164).
FlushCoversOwn ==
    \A t \in Threads : pc[t] = "flushing" =>
        /\ holder = t
        /\ queue # << >> => queue[Len(queue)] = serving[t]

\* Threads, lock, producer, timeouts and restarts implement what the replay
\* client relies on: a request in the hands of a handler or of the producer is
\* in flight, what is written is written once, and 202 follows the write
\* (app.py:49-59, kafka.py:160-172).
InFlight ==
    {serving[t] : t \in {u \in Threads : pc[u] \in {"waiting", "locked"}}}
        \cup {queue[i] : i \in DOMAIN queue}

Ingress == INSTANCE EventIngress
               WITH Messages <- 1..MaxRequests,
                    inflight <- InFlight,
                    accepted <- {n \in DOMAIN requests : Answered(n, 202)}
ImplementsIngress == Ingress!Spec

\* The promise of publish_confirmed's docstring, one event and its own
\* acknowledgement: an acknowledged event is not answered as a failed one
\* once its message has settled (kafka.py:160-164, app.py:57-58).
FailureIsOwn ==
    \A t \in Threads :
        pc[t] = "flushing" /\ queue = << >> /\ FlushRaises =>
            serving[t] \in ErrorsServed

\* Every request is answered in the end.
EveryRequestAnswered ==
    \A t \in Threads : (pc[t] # "idle") ~> (pc[t] = "idle")
=============================================================================
