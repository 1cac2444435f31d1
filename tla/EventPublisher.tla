--------------------------- MODULE EventPublisher ---------------------------
(***************************************************************************)
(* KafkaEventPublisher over an idempotent librdkafka producer (acks=all).  *)
(* The publisher is this repository's: publish, the delivery callback, and *)
(* close, which flushes.  The producer's queue, the broker and the moment  *)
(* a delivery report becomes available are external; a report is handled   *)
(* by whichever call of the publisher polls next.                          *)
(*                                                                         *)
(* The module is the part its two users share: IngressApi (one publisher   *)
(* for all requests) and ReplayClient (one publisher per run).             *)
(***************************************************************************)
EXTENDS Integers, Sequences

CONSTANT QueueLimit  \* messages the producer holds before BufferError

ASSUME QueueLimitAssumption == QueueLimit \in Nat \ {0}

VARIABLES
    queue,    \* messages produced and not settled, in order
    reports,  \* delivery reports not yet served: [message, failed]
    errors,   \* _delivery_errors, as the set of messages whose delivery failed
    log       \* the topic user-behavior-events

publisherVars == <<queue, reports, errors, log>>

PublisherInit ==
    /\ queue = << >>
    /\ reports = << >>
    /\ errors = {}
    /\ log = << >>

\* A message counts until its report has been served.
Outstanding == Len(queue) + Len(reports)
QueueFull == Outstanding >= QueueLimit

ErrorsServed ==
    errors \cup {reports[i].message : i \in {j \in DOMAIN reports : reports[j].failed}}

\* The delivery callbacks run inside a poll or a flush.
ServeReports ==
    /\ errors' = ErrorsServed
    /\ reports' = << >>

\* publish: produce, then poll(0).
Publish(message) ==
    /\ ~QueueFull
    /\ queue' = Append(queue, message)
    /\ ServeReports
    /\ UNCHANGED log

\* Mutant: the number of messages flush leaves behind is not looked at.
FlushDoneUnchecked ==
    /\ ServeReports
    /\ UNCHANGED <<queue, log>>

\* close(timeout) when flush returns 0: everything settled and reported; it
\* raises if any delivery this publisher ever made has failed.
FlushDone ==
    /\ queue = << >>
    /\ ServeReports
    /\ UNCHANGED <<queue, log>>

\* Mutant: close ignores the failures the callbacks have noted.
FlushNeverRaises == FALSE

FlushRaises == ErrorsServed # {}

\* close(timeout) when the timeout comes first: messages stay in the producer.
FlushTimesOut ==
    /\ queue # << >>
    /\ ServeReports
    /\ UNCHANGED <<queue, log>>

Settle(failed) ==
    /\ queue' = Tail(queue)
    /\ reports' = Append(reports, [message |-> Head(queue), failed |-> failed])
    /\ UNCHANGED errors

\* Idempotence keeps the order and writes a message at most once.
BrokerAcknowledges ==
    /\ queue # << >>
    /\ Settle(FALSE)
    /\ log' = Append(log, Head(queue))

\* The delivery timeout expires; the write may have happened, its
\* acknowledgement lost.
DeliveryFails ==
    /\ queue # << >>
    /\ Settle(TRUE)
    /\ log' \in {log, Append(log, Head(queue))}

\* The process ends: what it still held is lost, or was already on its way.
PublisherLost ==
    /\ \E n \in 0..Len(queue) : log' = log \o SubSeq(queue, 1, n)
    /\ queue' = << >>
    /\ reports' = << >>
    /\ errors' = {}
=============================================================================
