-------------------------- MODULE IngressApiProofs --------------------------
(***************************************************************************)
(* The ingress API for every set of threads and bodies, any queue limit    *)
(* and any number of requests, failed deliveries and crashes.              *)
(*                                                                         *)
(* The argument is the lock's: a thread that flushes holds it, so nobody   *)
(* publishes behind its message, and its message is the last of the queue  *)
(* until it is settled.                                                    *)
(***************************************************************************)
EXTENDS IngressApi, TLAPS, SequenceTheorems, FiniteSetTheorems

\* A thread that is not idle has a request.
ServingInv == \A t \in Threads : pc[t] # "idle" => serving[t] # 0

LockInv == \A t \in Threads : pc[t] \in {"locked", "flushing"} => holder = t

Settled(n) == Logged(n) \/ n \in ErrorsServed

\* A flush waits for the thread's own message, or has it behind.
OwnInv ==
    \A t \in Threads : pc[t] = "flushing" =>
        IF queue # << >> THEN queue[Len(queue)] = serving[t] ELSE Settled(serving[t])

IInv == TypeOK /\ ServingInv /\ LockInv /\ OwnInv /\ AcceptedIsDurable

-----------------------------------------------------------------------------
(* Sequences. *)

LEMMA SeqGrows ==
    ASSUME NEW m \in Nat, NEW n \in Nat, m <= n, NEW s \in Seq(1..m)
    PROVE  s \in Seq(1..n)
<1>1. Len(s) \in Nat /\ s \in [1..Len(s) -> 1..m]
    BY LenProperties
<1>2. s \in [1..Len(s) -> 1..n]
    BY <1>1
<1> QED
    BY <1>1, <1>2, IsASeq

\* A prefix of the queue behind the log keeps what was logged.
LEMMA LoggedKept ==
    ASSUME NEW S, log \in Seq(S), NEW s \in Seq(S), log' = log \o s,
           NEW n, Logged(n)
    PROVE  Logged(n)'
<1>1. PICK i \in DOMAIN log : log[i] = n
    BY DEF Logged
<1>2. i \in 1..Len(log) /\ Len(log) \in Nat /\ Len(s) \in Nat
    BY LenProperties
<1>3. i \in DOMAIN log' /\ log'[i] = log[i]
    BY <1>2, ConcatProperties, LenProperties
<1> QED
    BY <1>1, <1>3 DEF Logged

-----------------------------------------------------------------------------
(* The publisher's operations. *)

\* The broker or the timeout settles the first message of the queue.
LEMMA SettleStep ==
    ASSUME IInv, UNCHANGED apiVars, NEW failed \in BOOLEAN,
           queue # << >>, Settle(failed),
           \/ failed = TRUE /\ log' = log
           \/ log' = Append(log, Head(queue))
    PROVE  /\ queue' \in Seq(1..Len(requests)) /\ log' \in Seq(1..Len(requests))
           /\ reports' \in Seq([message : 1..Len(requests), failed : BOOLEAN])
           /\ \A n : Logged(n) => Logged(n)'
           /\ OwnInv'
<1> DEFINE N == 1..Len(requests)
<1>1. /\ queue \in Seq(N) /\ log \in Seq(N)
      /\ reports \in Seq([message : N, failed : BOOLEAN])
    BY DEF IInv, TypeOK
<1>2. /\ Head(queue) \in N /\ Tail(queue) \in Seq(N) /\ Head(queue) = queue[1]
      /\ Len(Tail(queue)) = Len(queue) - 1 /\ Len(queue) \in Nat \ {0}
      /\ \A i \in 1..Len(Tail(queue)) : Tail(queue)[i] = queue[i + 1]
    BY <1>1, HeadTailProperties, EmptySeq, LenProperties
<1>3. queue' = Tail(queue)
      /\ reports' = Append(reports, [message |-> Head(queue), failed |-> failed])
      /\ errors' = errors
    BY DEF Settle
<1>4. queue' \in Seq(N)
    BY <1>2, <1>3
<1>5. log' \in Seq(N)
  <2>1. CASE log' = log
    BY <1>1, <2>1
  <2>2. CASE log' = Append(log, Head(queue))
    BY <1>1, <1>2, <2>2, AppendProperties
  <2> QED
    BY <2>1, <2>2
<1>6. [message |-> Head(queue), failed |-> failed] \in [message : N, failed : BOOLEAN]
    BY <1>2
<1>7. reports' \in Seq([message : N, failed : BOOLEAN])
    BY <1>1, <1>3, <1>6, AppendProperties
<1>8. \A n : Logged(n) => Logged(n)'
  <2>1. CASE log' = log
    BY <2>1 DEF Logged
  <2>2. CASE log' = Append(log, Head(queue))
    <3>1. /\ DOMAIN log = 1..Len(log) /\ DOMAIN log' = 1..(Len(log) + 1)
          /\ Len(log) \in Nat
          /\ \A i \in 1..Len(log) : log'[i] = log[i]
        BY <1>1, <1>2, <2>2, AppendProperties, LenProperties
    <3> QED
        BY <3>1 DEF Logged
  <2> QED
    BY <2>1, <2>2
<1>9. PICK first \in N : first = queue[1] /\ first = Head(queue)
    BY <1>2
<1>10. Settled(first)'
  <2>1. CASE failed = TRUE /\ log' = log
    <3>1. /\ Len(reports) \in Nat /\ DOMAIN reports' = 1..(Len(reports) + 1)
          /\ reports'[Len(reports) + 1] = [message |-> first, failed |-> failed]
        BY <1>1, <1>3, <1>6, <1>7, <1>9, AppendProperties, LenProperties
    <3>2. PICK k \in DOMAIN reports' : reports'[k] = [message |-> first, failed |-> failed]
        BY <3>1
    <3>3. reports'[k].message = first /\ reports'[k].failed
        BY <2>1, <3>2
    <3>4. first \in {reports'[i].message : i \in {j \in DOMAIN reports' : reports'[j].failed}}
        BY <3>3
    <3> QED
        BY <3>4 DEF Settled, ErrorsServed
  <2>2. CASE log' = Append(log, Head(queue))
    <3>1. /\ Len(log) \in Nat /\ DOMAIN log' = 1..(Len(log) + 1)
          /\ log'[Len(log) + 1] = first
        BY <1>1, <1>2, <1>5, <1>9, <2>2, AppendProperties, LenProperties
    <3> QED
        BY <3>1 DEF Settled, Logged
  <2> QED
    BY <2>1, <2>2
<1>11. ASSUME NEW t \in Threads, pc'[t] = "flushing"
       PROVE  IF queue' # << >> THEN queue'[Len(queue')] = serving'[t]
                                ELSE Settled(serving[t])'
  <2>1. queue[Len(queue)] = serving[t] /\ serving'[t] = serving[t]
    BY <1>11 DEF IInv, OwnInv, apiVars
  <2>2. CASE Len(queue) = 1
    <3>1. queue' = << >>
        BY <1>2, <1>3, <1>4, <2>2, EmptySeq
    <3>2. first = serving'[t]
        BY <1>9, <2>1, <2>2
    <3> QED
        BY <1>10, <3>1, <3>2
  <2>3. CASE Len(queue) > 1
    <3>1. Len(queue') = Len(queue) - 1 /\ Len(queue') > 0
        BY <1>2, <1>3, <2>3
    <3>2. queue' # << >>
        BY <3>1, EmptySeq
    <3>3. queue'[Len(queue')] = queue[Len(queue)]
        BY <1>2, <1>3, <3>1
    <3> QED
        BY <2>1, <3>2, <3>3
  <2> QED
    BY <1>2, <2>2, <2>3
<1> QED
    BY <1>4, <1>5, <1>7, <1>8, <1>11 DEF OwnInv

\* Serving the reports moves failures from the reports to the errors.
LEMMA ServeKeepsErrors ==
    ASSUME ServeReports
    PROVE  ErrorsServed' = ErrorsServed /\ errors' = ErrorsServed /\ reports' = << >>
<1>1. errors' = ErrorsServed /\ reports' = << >>
    BY DEF ServeReports
<1>2. DOMAIN reports' = {}
    BY <1>1
<1> QED
    BY <1>1, <1>2 DEF ErrorsServed

LEMMA ErrorsType ==
    ASSUME TypeOK
    PROVE  ErrorsServed \subseteq 1..Len(requests)
<1> DEFINE R == [message : 1..Len(requests), failed : BOOLEAN]
<1>1. reports \in Seq(R) /\ DOMAIN reports = 1..Len(reports)
    BY LenProperties DEF TypeOK
<1>2. \A i \in DOMAIN reports : reports[i] \in R
    BY <1>1, ElementOfSeq
<1>3. \A r \in R : r.message \in 1..Len(requests)
    OBVIOUS
<1>4. \A i \in DOMAIN reports : reports[i].message \in 1..Len(requests)
    BY <1>2, <1>3
<1>5. errors \subseteq 1..Len(requests)
    BY DEF TypeOK
<1> QED
    BY <1>4, <1>5 DEF ErrorsServed

-----------------------------------------------------------------------------
(* The handlers. *)

\* A request takes the next number; what was typed stays so.
LEMMA ReceiveStep ==
    ASSUME IInv, NEW t \in Threads, NEW body \in Bodies, Receive(t, body)
    PROVE  IInv'
<1> DEFINE N == 1..Len(requests)
           M == 1..(Len(requests) + 1)
           R(S) == [message : S, failed : BOOLEAN]
<1>1. Len(requests) \in Nat
    BY LenProperties DEF IInv, TypeOK
<1>2. requests' \in Seq(Bodies) /\ Len(requests') = Len(requests) + 1
    BY AppendProperties DEF IInv, TypeOK, Receive
<1>3. UNCHANGED <<queue, reports, errors, log, holder, failures, crashes>>
    BY DEF Receive, publisherVars
<1>4. queue \in Seq(M) /\ log \in Seq(M)
    BY <1>1, SeqGrows DEF IInv, TypeOK
<1>5. reports \in Seq(R(M))
  <2>1. reports \in Seq(R(N))
    BY DEF IInv, TypeOK
  <2>2. Len(reports) \in Nat /\ reports \in [1..Len(reports) -> R(N)]
    BY <2>1, LenProperties
  <2>3. N \subseteq M
    BY <1>1
  <2>4. R(N) \subseteq R(M)
    BY <2>3
  <2>5. reports \in [1..Len(reports) -> R(M)]
    BY <2>2, <2>4
  <2> HIDE DEF R
  <2> QED
    BY <2>2, <2>5, IsASeq
<1>6. TypeOK'
  <2>1. /\ requests' \in Seq(Bodies) /\ holder' \in Threads \cup {NoThread}
        /\ failures' \in 0..MaxFailures /\ crashes' \in 0..MaxCrashes
    BY <1>2, <1>3 DEF IInv, TypeOK
  <2>2. /\ queue' \in Seq(1..Len(requests')) /\ log' \in Seq(1..Len(requests'))
        /\ reports' \in Seq([message : 1..Len(requests'), failed : BOOLEAN])
    BY <1>2, <1>3, <1>4, <1>5
  <2>3. errors' \subseteq 1..Len(requests')
    BY <1>1, <1>2, <1>3 DEF IInv, TypeOK
  <2>4. /\ pc' \in [Threads -> {"idle", "waiting", "locked", "flushing"}]
        /\ serving' \in [Threads -> 0..Len(requests')]
    <3>1. /\ pc \in [Threads -> {"idle", "waiting", "locked", "flushing"}]
          /\ serving \in [Threads -> 0..Len(requests)]
        BY DEF IInv, TypeOK
    <3>2. serving \in [Threads -> 0..Len(requests')] /\ Len(requests') \in 0..Len(requests')
        BY <1>1, <1>2, <3>1
    <3>3. \/ /\ pc' = [pc EXCEPT ![t] = "waiting"]
             /\ serving' = [serving EXCEPT ![t] = Len(requests')]
          \/ UNCHANGED <<pc, serving>>
        BY DEF Receive
    <3> QED
        BY <3>1, <3>2, <3>3
  <2>5. answers' \subseteq [request : 1..Len(requests'), code : {0, 202, 422, 500, 503}]
    BY <1>1, <1>2 DEF IInv, TypeOK, Receive
  <2> QED
    BY <2>1, <2>2, <2>3, <2>4, <2>5 DEF TypeOK
<1>7. \A u \in Threads : u # t => pc'[u] = pc[u] /\ serving'[u] = serving[u]
    BY DEF IInv, TypeOK, Receive
<1>8. pc'[t] \in {"idle", "waiting"} /\ (pc'[t] # "idle" => serving'[t] # 0)
    BY <1>1, <1>2 DEF IInv, TypeOK, Receive
<1>9. ServingInv' /\ LockInv'
    BY <1>3, <1>7, <1>8 DEF IInv, ServingInv, LockInv
<1>10. OwnInv'
    BY <1>3, <1>7, <1>8 DEF IInv, OwnInv, Settled, Logged, ErrorsServed
<1>11. AcceptedIsDurable'
  <2>1. \A n \in DOMAIN requests' : Answered(n, 202)' => Answered(n, 202)
    BY DEF Receive, Answered
  <2>2. \A n : Answered(n, 202) => n \in DOMAIN requests
    BY LenProperties DEF IInv, TypeOK, Answered
  <2> QED
    BY <1>3, <2>1, <2>2 DEF IInv, AcceptedIsDurable, Logged
<1> QED
    BY <1>6, <1>9, <1>10, <1>11 DEF IInv

ReportsTyped ==
    /\ errors \subseteq 1..Len(requests)
    /\ reports \in Seq([message : 1..Len(requests), failed : BOOLEAN])

\* An answer, with the publisher's queue and topic as they were.
LEMMA ReplyStep ==
    ASSUME IInv, NEW t \in Threads, pc[t] # "idle", holder = t,
           NEW code, code = 500 \/ code = 503 \/ (code = 202 /\ Logged(serving[t])),
           Reply(t, code), queue' = queue, log' = log, ReportsTyped'
    PROVE  IInv'
<1>1. serving[t] \in 1..Len(requests)
    BY DEF IInv, TypeOK, ServingInv
<1>2. TypeOK'
    BY <1>1 DEF IInv, TypeOK, Reply, ReportsTyped
<1>3. \A u \in Threads : /\ u # t => pc'[u] = pc[u] /\ serving'[u] = serving[u]
                         /\ u = t => pc'[u] = "idle"
    BY DEF IInv, TypeOK, Reply
<1>4. \A u \in Threads : pc'[u] \notin {"locked", "flushing"}
    BY <1>3 DEF IInv, LockInv
<1>5. ServingInv' /\ LockInv' /\ OwnInv'
    BY <1>3, <1>4 DEF IInv, ServingInv, LockInv, OwnInv
<1>6. AcceptedIsDurable'
    BY <1>1 DEF IInv, AcceptedIsDurable, Answered, Reply, Logged
<1> QED
    BY <1>2, <1>5, <1>6 DEF IInv

LEMMA ServeTypes ==
    ASSUME IInv, ServeReports, requests' = requests
    PROVE  ReportsTyped'
<1>1. errors' = ErrorsServed /\ reports' = << >>
    BY ServeKeepsErrors
<1> QED
    BY <1>1, ErrorsType, EmptySeq DEF IInv, ReportsTyped

LEMMA PublishStep ==
    ASSUME IInv, NEW t \in Threads, PublishRequest(t)
    PROVE  IInv'
<1>1. /\ pc[t] = "locked" /\ queue' = Append(queue, serving[t]) /\ ServeReports
      /\ UNCHANGED <<log, requests, serving, holder, answers, failures, crashes>>
      /\ pc' = [pc EXCEPT ![t] = "flushing"]
    BY DEF PublishRequest, Publish
<1>2. serving[t] \in 1..Len(requests) /\ queue \in Seq(1..Len(requests))
    BY <1>1 DEF IInv, TypeOK, ServingInv
<1>3. queue' \in Seq(1..Len(requests)) /\ Len(queue') = Len(queue) + 1
      /\ queue'[Len(queue')] = serving[t] /\ Len(queue) \in Nat
    BY <1>1, <1>2, AppendProperties, LenProperties
<1>4. queue' # << >>
    BY <1>3, EmptySeq
<1>5. TypeOK'
    BY <1>1, <1>3, ServeTypes DEF IInv, TypeOK, ReportsTyped
<1>6. \A u \in Threads : /\ u # t => pc'[u] = pc[u]
                         /\ u # t => pc[u] \notin {"locked", "flushing"}
    BY <1>1 DEF IInv, TypeOK, LockInv
<1>7. ServingInv' /\ LockInv'
    BY <1>1, <1>6 DEF IInv, TypeOK, ServingInv, LockInv
<1>8. OwnInv'
    BY <1>1, <1>3, <1>4, <1>6 DEF IInv, OwnInv
<1>9. AcceptedIsDurable'
    BY <1>1 DEF IInv, AcceptedIsDurable, Answered, Logged
<1> QED
    BY <1>5, <1>7, <1>8, <1>9 DEF IInv

\* Everything the producer held is written in part, in order, and forgotten.
LEMMA CrashStep ==
    ASSUME IInv, Crash
    PROVE  IInv'
<1> DEFINE N == 1..Len(requests)
<1>1. queue \in Seq(N) /\ log \in Seq(N) /\ Len(queue) \in Nat
    BY LenProperties DEF IInv, TypeOK
<1>2. PICK n \in 0..Len(queue) : log' = log \o SubSeq(queue, 1, n)
    BY DEF Crash, PublisherLost
<1>3. SubSeq(queue, 1, n) \in Seq(N)
    BY <1>1, <1>2, SubSeqProperties
<1>4. log' \in Seq(N)
    BY <1>1, <1>2, <1>3, ConcatProperties
<1>5. \A m : Logged(m) => Logged(m)'
    BY <1>1, <1>2, <1>3, LoggedKept
<1>6. queue' = << >> /\ reports' = << >> /\ errors' = {} /\ UNCHANGED <<requests, failures>>
    BY DEF Crash, PublisherLost
<1>7. \A t \in Threads : pc'[t] = "idle"
    BY DEF Crash
<1>8. answers' \subseteq [request : N, code : {0, 202, 422, 500, 503}]
  <2>1. \A u \in Threads : serving[u] # 0 => serving[u] \in N
    BY DEF IInv, TypeOK
  <2> QED
    BY <2>1 DEF IInv, TypeOK, Crash
<1>9. crashes' \in 0..MaxCrashes
    BY RequestBounds DEF IInv, TypeOK, Crash
<1>10. /\ pc' \in [Threads -> {"idle", "waiting", "locked", "flushing"}]
       /\ serving' \in [Threads -> 0..Len(requests')]
       /\ holder' \in Threads \cup {NoThread}
    BY <1>6, LenProperties DEF IInv, TypeOK, Crash
<1>11. TypeOK'
    BY <1>4, <1>6, <1>8, <1>9, <1>10, EmptySeq DEF IInv, TypeOK
<1>12. ServingInv' /\ LockInv' /\ OwnInv'
    BY <1>7 DEF ServingInv, LockInv, OwnInv
<1>13. AcceptedIsDurable'
  <2>1. \A m : Answered(m, 202)' => Answered(m, 202)
    <3>1. ASSUME NEW m, NEW k
          PROVE  [request |-> m, code |-> 202] # [request |-> k, code |-> 0]
      <4>1. [request |-> m, code |-> 202].code # [request |-> k, code |-> 0].code
        OBVIOUS
      <4> QED
        BY <4>1
    <3>2. answers' = answers \cup {[request |-> serving[t], code |-> 0] :
                                        t \in {u \in Threads : serving[u] # 0}}
        BY DEF Crash
    <3> QED
        BY <3>1, <3>2 DEF Answered
  <2>2. requests' = requests
    BY <1>6
  <2> QED
    BY <1>5, <2>1, <2>2 DEF IInv, AcceptedIsDurable
<1> QED
    BY <1>11, <1>12, <1>13 DEF IInv

LEMMA InvStep ==
    ASSUME IInv, [Next]_vars
    PROVE  IInv'
<1>1. ASSUME NEW t \in Threads, NEW body \in Bodies, Receive(t, body)
      PROVE  IInv'
    BY <1>1, ReceiveStep
<1>2. ASSUME NEW t \in Threads, Lock(t)
      PROVE  IInv'
  <2>1. /\ UNCHANGED <<publisherVars, requests, serving, answers, failures, crashes>>
        /\ pc[t] = "waiting" /\ holder = NoThread /\ holder' = t
        /\ pc' = [pc EXCEPT ![t] = "locked"]
    BY <1>2 DEF Lock
  <2>2. \A u \in Threads : pc[u] \notin {"locked", "flushing"}
    BY <2>1, NoThreadAssumption DEF IInv, LockInv
  <2>3. TypeOK'
    BY <2>1 DEF IInv, TypeOK, publisherVars
  <2>4. ServingInv' /\ LockInv' /\ OwnInv'
    BY <2>1, <2>2 DEF IInv, TypeOK, ServingInv, LockInv, OwnInv
  <2>5. AcceptedIsDurable'
    BY <2>1 DEF IInv, AcceptedIsDurable, Answered, Logged, publisherVars
  <2> QED
    BY <2>3, <2>4, <2>5 DEF IInv
<1>3. ASSUME NEW t \in Threads, PublishRequest(t)
      PROVE  IInv'
    BY <1>3, PublishStep
<1>4. ASSUME NEW t \in Threads, ProducerIsFull(t)
      PROVE  IInv'
  <2>1. pc[t] = "locked" /\ Reply(t, 500) /\ UNCHANGED <<queue, reports, errors, log>>
    BY <1>4 DEF ProducerIsFull, publisherVars
  <2>2. ReportsTyped'
    BY <2>1 DEF IInv, TypeOK, ReportsTyped, Reply
  <2>3. holder = t
    BY <2>1 DEF IInv, LockInv
  <2> QED
    BY <2>1, <2>2, <2>3, ReplyStep
<1>5. ASSUME NEW t \in Threads, Confirm(t)
      PROVE  IInv'
  <2>1. /\ pc[t] = "flushing" /\ queue = << >> /\ ServeReports
        /\ queue' = queue /\ log' = log
        /\ FlushRaises => Reply(t, 503)
        /\ ~FlushRaises => Reply(t, 202)
    BY <1>5 DEF Confirm, FlushDone
  <2>2. holder = t /\ Settled(serving[t])
    BY <2>1 DEF IInv, OwnInv, LockInv
  <2>3. ReportsTyped'
    BY <2>1, ServeTypes DEF Reply
  <2>4. CASE FlushRaises
    BY <2>1, <2>2, <2>3, <2>4, ReplyStep
  <2>5. CASE ~FlushRaises
    <3>1. Logged(serving[t])
        BY <2>2, <2>5 DEF FlushRaises, Settled
    <3> QED
        BY <2>1, <2>2, <2>3, <2>5, <3>1, ReplyStep
  <2> QED
    BY <2>4, <2>5
<1>6. ASSUME NEW t \in Threads, GiveUp(t)
      PROVE  IInv'
  <2>1. /\ pc[t] = "flushing" /\ ServeReports /\ queue' = queue /\ log' = log
        /\ Reply(t, 503)
    BY <1>6 DEF GiveUp, FlushTimesOut
  <2>2. ReportsTyped'
    BY <2>1, ServeTypes DEF Reply
  <2>3. holder = t
    BY <2>1 DEF IInv, LockInv
  <2> QED
    BY <2>1, <2>2, <2>3, ReplyStep
<1>7. CASE Acknowledge
  <2>1. /\ UNCHANGED apiVars /\ UNCHANGED <<failures, crashes>> /\ queue # << >>
        /\ Settle(FALSE) /\ log' = Append(log, Head(queue))
    BY <1>7 DEF Acknowledge, BrokerAcknowledges
  <2>2. /\ queue' \in Seq(1..Len(requests)) /\ log' \in Seq(1..Len(requests))
        /\ reports' \in Seq([message : 1..Len(requests), failed : BOOLEAN])
        /\ \A n : Logged(n) => Logged(n)'
        /\ OwnInv'
    BY <2>1, SettleStep
  <2>4. requests' = requests /\ pc' = pc /\ serving' = serving /\ holder' = holder
        /\ answers' = answers /\ errors' = errors
    BY <2>1 DEF apiVars, Settle
  <2>5. TypeOK'
    BY <2>1, <2>2, <2>4 DEF IInv, TypeOK
  <2>6. ServingInv' /\ LockInv'
    BY <2>4 DEF IInv, ServingInv, LockInv
  <2>7. AcceptedIsDurable'
    BY <2>2, <2>4 DEF IInv, AcceptedIsDurable, Answered
  <2> QED
    BY <2>2, <2>5, <2>6, <2>7 DEF IInv
<1>8. CASE Expire
  <2>1. /\ UNCHANGED apiVars /\ crashes' = crashes /\ queue # << >>
        /\ Settle(TRUE) /\ (log' = log \/ log' = Append(log, Head(queue)))
    BY <1>8 DEF Expire, DeliveryFails
  <2>2. failures' \in 0..MaxFailures
    BY <1>8, RequestBounds DEF IInv, TypeOK, Expire
  <2>3. /\ queue' \in Seq(1..Len(requests)) /\ log' \in Seq(1..Len(requests))
        /\ reports' \in Seq([message : 1..Len(requests), failed : BOOLEAN])
        /\ \A n : Logged(n) => Logged(n)'
        /\ OwnInv'
    BY <2>1, SettleStep
  <2>4. requests' = requests /\ pc' = pc /\ serving' = serving /\ holder' = holder
        /\ answers' = answers /\ errors' = errors
    BY <2>1 DEF apiVars, Settle
  <2>5. TypeOK'
    BY <2>1, <2>2, <2>3, <2>4 DEF IInv, TypeOK
  <2>6. ServingInv' /\ LockInv'
    BY <2>4 DEF IInv, ServingInv, LockInv
  <2>7. AcceptedIsDurable'
    BY <2>3, <2>4 DEF IInv, AcceptedIsDurable, Answered
  <2> QED
    BY <2>3, <2>5, <2>6, <2>7 DEF IInv
<1>9. CASE Crash
    BY <1>9, CrashStep
<1>10. CASE UNCHANGED vars
    BY <1>10
    DEF vars, IInv, TypeOK, ServingInv, LockInv, OwnInv, Settled, ErrorsServed,
        AcceptedIsDurable, Answered, Logged
<1> QED
    BY <1>1, <1>2, <1>3, <1>4, <1>5, <1>6, <1>7, <1>8, <1>9, <1>10 DEF Next

-----------------------------------------------------------------------------
THEOREM Invariant == Spec => []IInv
<1>1. Init => IInv
  <2> SUFFICES ASSUME Init
               PROVE  IInv
    OBVIOUS
  <2>1. Len(requests) = 0 /\ DOMAIN requests = {}
    BY DEF Init
  <2>2. TypeOK
    BY <2>1, RequestBounds, EmptySeq DEF Init, PublisherInit, TypeOK
  <2>3. ServingInv /\ LockInv /\ OwnInv /\ AcceptedIsDurable
    BY <2>1 DEF Init, ServingInv, LockInv, OwnInv, AcceptedIsDurable
  <2> QED
    BY <2>2, <2>3 DEF IInv
<1>2. IInv /\ [Next]_vars => IInv'
    BY InvStep
<1> QED
    BY <1>1, <1>2, PTL DEF Spec

\* Type correctness of the API and of its publisher.
THEOREM TypeCorrect == Spec => []TypeOK
<1>1. IInv => TypeOK
    BY DEF IInv
<1> QED
    BY <1>1, Invariant, PTL

\* 202 is only ever given for an event that the topic holds.
THEOREM Durable == Spec => []AcceptedIsDurable
<1>1. IInv => AcceptedIsDurable
    BY DEF IInv
<1> QED
    BY <1>1, Invariant, PTL

\* A flush waits for no message behind the requester's own.
THEOREM CoversOwn == Spec => []FlushCoversOwn
<1>1. IInv => FlushCoversOwn
    BY DEF IInv, LockInv, OwnInv, FlushCoversOwn
<1> QED
    BY <1>1, Invariant, PTL

-----------------------------------------------------------------------------
(* The API implements EventIngress.  A message has one place: in the hands *)
(* of one handler, in the queue or in the topic.                           *)

Holds(t) == pc[t] \in {"waiting", "locked"}
Queued(n) == \E i \in DOMAIN queue : queue[i] = n

OnePlaceInv ==
    /\ Len(requests) <= MaxRequests
    /\ \A t \in Threads : Holds(t) => ~Queued(serving[t]) /\ ~Logged(serving[t])
    /\ \A t, u \in Threads :
          Holds(t) /\ Holds(u) /\ serving[t] = serving[u] => t = u
    /\ \A i, j \in DOMAIN queue : queue[i] = queue[j] => i = j
    /\ \A i \in DOMAIN queue : ~Logged(queue[i])

Accepted == {n \in DOMAIN requests : Answered(n, 202)}
ingressVars == <<log, InFlight, Accepted>>

LEMMA InFlightIs ==
    /\ \A n : n \in InFlight <=>
             Queued(n) \/ \E t \in Threads : Holds(t) /\ serving[t] = n
    /\ \A n : n \in InFlight' <=>
             Queued(n)' \/ \E t \in Threads : Holds(t)' /\ serving'[t] = n
BY DEF InFlight, Queued, Holds

LEMMA InFlightType ==
    ASSUME IInv, OnePlaceInv
    PROVE  /\ InFlight \subseteq 1..Len(requests)
           /\ Len(requests) \in Nat /\ 1..Len(requests) \subseteq 1..MaxRequests
<1>1. Len(requests) \in Nat /\ queue \in Seq(1..Len(requests))
    BY LenProperties DEF IInv, TypeOK
<1>2. \A i \in DOMAIN queue : queue[i] \in 1..Len(requests)
    BY <1>1, ElementOfSeq, LenProperties
<1>3. \A t \in Threads : Holds(t) => serving[t] \in 1..Len(requests)
    BY DEF IInv, TypeOK, ServingInv, Holds
<1>4. InFlight \subseteq 1..Len(requests)
    BY <1>2, <1>3 DEF InFlight, Holds
<1> QED
    BY <1>1, <1>4, RequestBounds DEF OnePlaceInv

\* A new request is submitted, or was answered at once.
LEMMA ReceiveRefines ==
    ASSUME IInv, OnePlaceInv, NEW t \in Threads, NEW body \in Bodies, Receive(t, body)
    PROVE  OnePlaceInv' /\ [Ingress!Next]_ingressVars
<1> DEFINE new == Len(requests) + 1
<1>1. /\ Len(requests) \in Nat /\ Len(requests) < MaxRequests
      /\ Len(requests') = new /\ DOMAIN requests' = 1..new /\ DOMAIN requests = 1..Len(requests)
    BY AppendProperties, LenProperties DEF IInv, TypeOK, Receive
<1>2. queue' = queue /\ log' = log
    BY DEF Receive, publisherVars
<1>3. \A i \in DOMAIN log : log[i] \in 1..Len(requests)
    BY ElementOfSeq, LenProperties DEF IInv, TypeOK
<1>4. ~Logged(new) /\ new \notin InFlight
    BY <1>1, <1>3, InFlightType DEF Logged
<1>5. Accepted' = Accepted
  <2>1. \A n : [request |-> n, code |-> 202] \in answers' <=>
                [request |-> n, code |-> 202] \in answers
    BY DEF Receive
  <2>2. [request |-> new, code |-> 202] \notin answers
    BY <1>1 DEF IInv, TypeOK
  <2>3. \A n \in 1..new : n \in 1..Len(requests) \/ n = new
    BY <1>1
  <2> QED
    BY <1>1, <2>1, <2>2, <2>3 DEF Accepted, Answered
<1>6. CASE UNCHANGED <<pc, serving>>
  <2>1. InFlight' = InFlight
    BY <1>2, <1>6 DEF InFlight
  <2>2. Len(requests') <= MaxRequests
    BY <1>1, RequestBounds
  <2>3. OnePlaceInv'
    BY <1>2, <1>6, <2>2 DEF OnePlaceInv, Holds, Queued, Logged
  <2> QED
    BY <1>2, <1>5, <2>1, <2>3 DEF ingressVars
<1>7. CASE /\ pc' = [pc EXCEPT ![t] = "waiting"]
           /\ serving' = [serving EXCEPT ![t] = Len(requests')]
  <2>1. /\ ~Holds(t) /\ Holds(t)' /\ serving'[t] = new
        /\ \A u \in Threads : u # t => (Holds(u)' <=> Holds(u)) /\ serving'[u] = serving[u]
    BY <1>1, <1>7 DEF IInv, TypeOK, Receive, Holds
  <2>2. \A n : n \in InFlight' <=> n \in InFlight \/ n = new
    BY <1>2, <2>1, InFlightIs DEF Queued
  <2>3. Ingress!Submit(new)
    BY <1>2, <1>4, <1>5, <2>2 DEF Ingress!Submit, Ingress!Written, Logged, Accepted
  <2>4. new \in 1..MaxRequests
    BY <1>1, RequestBounds
  <2>5. \A u \in Threads : Holds(u) => serving[u] # new
    BY <1>4, InFlightIs
  <2>6. ~Queued(new)
    BY <1>4, InFlightIs
  <2>7. OnePlaceInv'
    <3>1. Len(requests')  <= MaxRequests
        BY <1>1, RequestBounds
    <3>2. \A u \in Threads : Holds(u)' => ~Queued(serving[u])' /\ ~Logged(serving[u])'
        BY <1>2, <1>4, <2>1, <2>6 DEF OnePlaceInv, Queued, Logged
    <3>3. \A u, v \in Threads :
             Holds(u)' /\ Holds(v)' /\ serving'[u] = serving'[v] => u = v
        BY <2>1, <2>5 DEF OnePlaceInv
    <3> QED
        BY <1>2, <3>1, <3>2, <3>3 DEF OnePlaceInv, Logged
  <2> QED
    BY <2>3, <2>4, <2>7 DEF Ingress!Next
<1> QED
    BY <1>6, <1>7 DEF Receive

\* Steps of a thread that holds the lock: what stays of a place.
LEMMA HandsOver ==
    ASSUME IInv, OnePlaceInv, NEW t \in Threads, PublishRequest(t)
    PROVE  OnePlaceInv' /\ UNCHANGED ingressVars
<1>1. /\ Holds(t) /\ queue' = Append(queue, serving[t])
      /\ UNCHANGED <<log, requests, serving, answers>> /\ pc' = [pc EXCEPT ![t] = "flushing"]
    BY DEF PublishRequest, Publish, Holds
<1>2. serving[t] \in 1..Len(requests) /\ queue \in Seq(1..Len(requests))
    BY <1>1 DEF IInv, TypeOK, ServingInv, Holds
<1>3. /\ Len(queue) \in Nat
      /\ DOMAIN queue = 1..Len(queue) /\ DOMAIN queue' = 1..(Len(queue) + 1)
      /\ queue'[Len(queue) + 1] = serving[t]
      /\ \A i \in 1..Len(queue) : queue'[i] = queue[i]
    BY <1>1, <1>2, AppendProperties, LenProperties
<1>4. \A u \in Threads : Holds(u)' <=> Holds(u) /\ u # t
    BY <1>1 DEF IInv, TypeOK, Holds
<1>5. \A n : Queued(n)' <=> Queued(n) \/ n = serving[t]
    BY <1>3 DEF Queued
<1>6. InFlight' = InFlight
  <2>1. \A n : n \in InFlight' <=> n \in InFlight
    BY <1>1, <1>4, <1>5, InFlightIs
  <2> QED
    BY <2>1
<1>7. OnePlaceInv'
  <2>1. \A u \in Threads : Holds(u)' => ~Queued(serving[u])' /\ ~Logged(serving[u])'
    BY <1>1, <1>4, <1>5 DEF OnePlaceInv, Logged
  <2>2. \A i, j \in DOMAIN queue' : queue'[i] = queue'[j] => i = j
    <3>1. ~Queued(serving[t])
        BY <1>1 DEF OnePlaceInv
    <3>2. \A i \in 1..Len(queue) : queue[i] # serving[t]
        BY <1>3, <3>1 DEF Queued
    <3> QED
        BY <1>3, <3>2 DEF OnePlaceInv
  <2>3. \A i \in DOMAIN queue' : ~Logged(queue[i])'
    BY <1>1, <1>3 DEF OnePlaceInv, Logged
  <2> QED
    BY <1>1, <1>4, <2>1, <2>2, <2>3 DEF OnePlaceInv
<1> QED
    BY <1>1, <1>6, <1>7 DEF ingressVars, Accepted, Answered
\* An answer takes a request out of the handler's hands, the queue and the
\* topic as they were.
LEMMA ReplyRefines ==
    ASSUME IInv, OnePlaceInv, NEW t \in Threads, pc[t] # "idle", holder = t,
           NEW code, Reply(t, code), queue' = queue, log' = log
    PROVE  /\ OnePlaceInv'
           /\ \A n : n \in InFlight' <=>
                 n \in InFlight /\ (Holds(t) => n # serving[t])
           /\ code # 202 => Accepted' = Accepted
           /\ code = 202 => Accepted' = Accepted \cup {serving[t]}
           /\ serving[t] \in 1..Len(requests)
<1>1. /\ requests' = requests /\ pc' = [pc EXCEPT ![t] = "idle"]
      /\ serving' = [serving EXCEPT ![t] = 0]
      /\ answers' = answers \cup {[request |-> serving[t], code |-> code]}
    BY DEF Reply
<1>2. serving[t] \in 1..Len(requests) /\ DOMAIN requests = 1..Len(requests)
    BY LenProperties DEF IInv, TypeOK, ServingInv
<1>3. \A u \in Threads : /\ Holds(u)' <=> Holds(u) /\ u # t
                         /\ u # t => serving'[u] = serving[u]
    BY <1>1 DEF IInv, TypeOK, Holds
<1>4. \A n : Queued(n)' <=> Queued(n)
    BY DEF Queued
<1>5. OnePlaceInv'
  <2>1. \A u \in Threads : Holds(u)' => ~Queued(serving[u])' /\ ~Logged(serving[u])'
    BY <1>3, <1>4 DEF OnePlaceInv, Logged
  <2>2. \A u, v \in Threads :
           Holds(u)' /\ Holds(v)' /\ serving'[u] = serving'[v] => u = v
    BY <1>3 DEF OnePlaceInv
  <2> QED
    BY <1>1, <2>1, <2>2 DEF OnePlaceInv, Logged
<1>6. ASSUME NEW n
      PROVE  n \in InFlight' <=> n \in InFlight /\ (Holds(t) => n # serving[t])
  <2>1. CASE Holds(t)
    <3>1. ~Queued(serving[t])
        BY <2>1 DEF OnePlaceInv
    <3>2. \A u \in Threads : Holds(u) /\ u # t => serving[u] # serving[t]
        BY <2>1 DEF OnePlaceInv
    <3> QED
        BY <1>3, <1>4, <2>1, <3>1, <3>2, InFlightIs
  <2>2. CASE ~Holds(t)
    <3>1. \A u \in Threads : /\ Holds(u)' <=> Holds(u)
                             /\ Holds(u) => serving'[u] = serving[u]
        BY <1>3, <2>2
    <3> QED
        BY <1>4, <2>2, <3>1, InFlightIs
  <2> QED
    BY <2>1, <2>2
<1>7. \A n \in 1..Len(requests) :
         Answered(n, 202)' <=> Answered(n, 202) \/ (n = serving[t] /\ code = 202)
  <2>1. \A n : [request |-> n, code |-> 202] = [request |-> serving[t], code |-> code]
                <=> n = serving[t] /\ code = 202
    <3> SUFFICES ASSUME NEW n,
                        [request |-> n, code |-> 202] = [request |-> serving[t], code |-> code]
                 PROVE  n = serving[t] /\ code = 202
        OBVIOUS
    <3>1. /\ [request |-> n, code |-> 202].request = [request |-> serving[t], code |-> code].request
          /\ [request |-> n, code |-> 202].code = [request |-> serving[t], code |-> code].code
        OBVIOUS
    <3> QED
        BY <3>1
  <2> QED
    BY <1>1, <2>1 DEF Answered
<1> QED
    BY <1>1, <1>2, <1>5, <1>6, <1>7 DEF Accepted

\* The first message of the queue leaves it, for the topic or for nowhere.
LEMMA SettleRefines ==
    ASSUME IInv, OnePlaceInv, UNCHANGED apiVars, queue # << >>, queue' = Tail(queue),
           log' = log \/ log' = Append(log, Head(queue))
    PROVE  /\ OnePlaceInv'
           /\ Head(queue) \in InFlight
           /\ InFlight' = InFlight \ {Head(queue)}
           /\ Accepted' = Accepted
<1>1. queue \in Seq(1..Len(requests)) /\ log \in Seq(1..Len(requests))
    BY DEF IInv, TypeOK
<1>2. /\ Len(queue) \in Nat \ {0} /\ Head(queue) = queue[1]
      /\ DOMAIN queue = 1..Len(queue) /\ DOMAIN queue' = 1..(Len(queue) - 1)
      /\ \A i \in 1..(Len(queue) - 1) : queue'[i] = queue[i + 1]
      /\ Head(queue) \in 1..Len(requests)
    BY <1>1, HeadTailProperties, EmptySeq, LenProperties
<1>3. UNCHANGED <<requests, pc, serving, answers>>
    BY DEF apiVars
<1>4. \A i \in DOMAIN queue' : queue'[i] = queue[i + 1] /\ i + 1 \in DOMAIN queue
                               /\ i \in Nat
    BY <1>2
<1>5. 1 \in DOMAIN queue /\ Queued(Head(queue))
    BY <1>2 DEF Queued
<1>6. \A n : Queued(n)' <=> Queued(n) /\ n # Head(queue)
  <2>1. ASSUME NEW n, Queued(n)'
        PROVE  Queued(n) /\ n # Head(queue)
    <3>1. PICK i \in DOMAIN queue' : queue'[i] = n
        BY <2>1 DEF Queued
    <3>2. queue[i + 1] = n /\ i + 1 \in DOMAIN queue /\ i + 1 # 1
        BY <1>2, <1>4, <3>1
    <3>3. queue[i + 1] # queue[1]
        BY <1>5, <3>2 DEF OnePlaceInv
    <3> QED
        BY <1>2, <3>2, <3>3 DEF Queued
  <2>2. ASSUME NEW n, Queued(n), n # Head(queue)
        PROVE  Queued(n)'
    <3>1. PICK i \in DOMAIN queue : queue[i] = n
        BY <2>2 DEF Queued
    <3>2. i # 1
        BY <1>2, <2>2, <3>1
    <3>3. i - 1 \in 1..(Len(queue) - 1) /\ (i - 1) + 1 = i
        BY <1>2, <3>2
    <3>4. queue'[i - 1] = n /\ i - 1 \in DOMAIN queue'
        BY <1>2, <3>1, <3>3
    <3> QED
        BY <3>4 DEF Queued
  <2> QED
    BY <2>1, <2>2
<1>7. \A n : Logged(n)' => Logged(n) \/ n = Head(queue)
  <2>1. CASE log' = log
    BY <2>1 DEF Logged
  <2>2. CASE log' = Append(log, Head(queue))
    <3>1. /\ DOMAIN log = 1..Len(log) /\ DOMAIN log' = 1..(Len(log) + 1)
          /\ Len(log) \in Nat /\ log'[Len(log) + 1] = Head(queue)
          /\ \A i \in 1..Len(log) : log'[i] = log[i]
        BY <1>1, <1>2, <2>2, AppendProperties, LenProperties
    <3> QED
        BY <3>1 DEF Logged
  <2> QED
    BY <2>1, <2>2
<1>8. OnePlaceInv'
  <2>1. ASSUME NEW u \in Threads, Holds(u)'
        PROVE  ~Queued(serving[u])' /\ ~Logged(serving[u])'
    <3>1. Holds(u) /\ serving'[u] = serving[u]
        BY <1>3, <2>1 DEF Holds
    <3>2. ~Queued(serving[u]) /\ ~Logged(serving[u]) /\ serving[u] # Head(queue)
        BY <1>5, <3>1 DEF OnePlaceInv
    <3> QED
        BY <1>6, <1>7, <3>1, <3>2
  <2>2. \A u, v \in Threads :
           Holds(u)' /\ Holds(v)' /\ serving'[u] = serving'[v] => u = v
    BY <1>3 DEF OnePlaceInv, Holds
  <2>3. \A i, j \in DOMAIN queue' : queue'[i] = queue'[j] => i = j
    <3> SUFFICES ASSUME NEW i \in DOMAIN queue', NEW j \in DOMAIN queue',
                        queue'[i] = queue'[j]
                 PROVE  i = j
        OBVIOUS
    <3>1. i + 1 = j + 1 /\ i \in Nat /\ j \in Nat
        BY <1>4 DEF OnePlaceInv
    <3> QED
        BY <3>1
  <2>4. \A i \in DOMAIN queue' : ~Logged(queue[i])'
    <3>1. ASSUME NEW n, Queued(n)'
          PROVE  ~Logged(n)'
      <4>1. Queued(n) /\ n # Head(queue)
        BY <1>6, <3>1
      <4>2. ~Logged(n)
        BY <4>1 DEF OnePlaceInv, Queued
      <4> QED
        BY <1>7, <4>1, <4>2
    <3> QED
        BY <3>1 DEF Queued, Logged
  <2>5. Len(requests') <= MaxRequests
    BY <1>3 DEF OnePlaceInv
  <2> QED
    BY <2>1, <2>2, <2>3, <2>4, <2>5 DEF OnePlaceInv
<1>9. \A n : n \in InFlight' <=> n \in InFlight /\ n # Head(queue)
  <2>1. \A u \in Threads : Holds(u) => serving[u] # Head(queue)
    BY <1>5 DEF OnePlaceInv
  <2>2. \A u \in Threads : (Holds(u)' <=> Holds(u)) /\ serving'[u] = serving[u]
    BY <1>3 DEF Holds
  <2> QED
    BY <1>6, <2>1, <2>2, InFlightIs
<1>10. InFlight' = InFlight \ {Head(queue)} /\ Head(queue) \in InFlight
    BY <1>5, <1>9, InFlightIs
<1> QED
    BY <1>3, <1>8, <1>10 DEF Accepted, Answered

\* A crash writes some of what was in flight, each once, and forgets the rest.
LEMMA CrashRefines ==
    ASSUME IInv, OnePlaceInv, Crash
    PROVE  OnePlaceInv' /\ Ingress!Fail
<1>1. queue \in Seq(1..Len(requests)) /\ Len(queue) \in Nat /\ DOMAIN queue = 1..Len(queue)
    BY LenProperties DEF IInv, TypeOK
<1>2. /\ queue' = << >> /\ requests' = requests
      /\ \A t \in Threads : pc'[t] = "idle"
    BY DEF Crash, PublisherLost
<1>3. PICK n \in 0..Len(queue) : log' = log \o SubSeq(queue, 1, n)
    BY DEF Crash, PublisherLost
<1>4. /\ SubSeq(queue, 1, n) \in Seq(1..Len(requests)) /\ Len(SubSeq(queue, 1, n)) = n
      /\ \A i \in 1..n : SubSeq(queue, 1, n)[i] = queue[i]
    BY <1>1, <1>3, SubSeqProperties
<1>5. PICK s : s = SubSeq(queue, 1, n)
    OBVIOUS
<1>6. \A i \in 1..n : i \in DOMAIN queue /\ s[i] = queue[i]
    BY <1>1, <1>3, <1>4, <1>5
<1>7. s \in [1..n -> InFlight]
  <2>1. s \in [1..n -> 1..Len(requests)]
    BY <1>4, <1>5, LenProperties
  <2>2. \A i \in 1..n : s[i] \in InFlight
    BY <1>6 DEF InFlight
  <2> QED
    BY <2>1, <2>2
<1>8. \A i, j \in 1..n : s[i] = s[j] => i = j
    BY <1>6 DEF OnePlaceInv
<1>9. n \in 0..Cardinality(InFlight)
  <2>1. IsFiniteSet(1..Len(requests)) /\ IsFiniteSet(1..n) /\ Cardinality(1..n) = n
    <3>1. n \in Int /\ n >= 0 /\ Len(requests) \in Int
        BY <1>1, <1>3, InFlightType
    <3>2. IsFiniteSet(1..Len(requests)) /\ IsFiniteSet(1..n)
        BY <3>1, FS_Interval
    <3>3. Cardinality(1..n) = IF 1 > n THEN 0 ELSE n - 1 + 1
        BY <3>1, FS_Interval
    <3> QED
        BY <3>1, <3>2, <3>3
  <2>2. IsFiniteSet(InFlight) /\ Cardinality(InFlight) \in Nat
    BY <2>1, FS_Subset, FS_CardinalityType, InFlightType
  <2>3. ~(Cardinality(InFlight) < Cardinality(1..n))
    BY <1>7, <1>8, <2>1, <2>2, FS_PigeonHole
  <2> QED
    BY <1>1, <1>3, <2>1, <2>2, <2>3
<1>10. InFlight' = {} /\ OnePlaceInv'
  <2>1. DOMAIN queue' = {}
    BY <1>2
  <2>2. \A t \in Threads : ~Holds(t)'
    BY <1>2 DEF Holds
  <2> QED
    BY <1>2, <2>1, <2>2 DEF InFlight, Holds, OnePlaceInv
<1>11. Accepted' = Accepted
  <2>1. \A m : [request |-> m, code |-> 202] \in answers' <=>
               [request |-> m, code |-> 202] \in answers
    <3>1. ASSUME NEW m, NEW k
          PROVE  [request |-> m, code |-> 202] # [request |-> k, code |-> 0]
      <4>1. [request |-> m, code |-> 202].code # [request |-> k, code |-> 0].code
        OBVIOUS
      <4> QED
        BY <4>1
    <3>2. answers' = answers \cup {[request |-> serving[t], code |-> 0] :
                                        t \in {u \in Threads : serving[u] # 0}}
        BY DEF Crash
    <3> QED
        BY <3>1, <3>2
  <2> QED
    BY <1>2, <2>1 DEF Accepted, Answered
<1>12. \E k \in 0..Cardinality(InFlight) : \E f \in [1..k -> InFlight] :
          /\ \A i, j \in 1..k : f[i] = f[j] => i = j
          /\ log' = log \o f
    BY <1>3, <1>5, <1>7, <1>8, <1>9
<1> QED
    BY <1>10, <1>11, <1>12 DEF Ingress!Fail, Accepted, Ingress!Cardinality, Cardinality

LEMMA RefinesStep ==
    ASSUME IInv, OnePlaceInv, [Next]_vars
    PROVE  OnePlaceInv' /\ [Ingress!Next]_ingressVars
<1>1. ASSUME NEW t \in Threads, NEW body \in Bodies, Receive(t, body)
      PROVE  OnePlaceInv' /\ [Ingress!Next]_ingressVars
    BY <1>1, ReceiveRefines
<1>2. ASSUME NEW t \in Threads, Lock(t)
      PROVE  OnePlaceInv' /\ [Ingress!Next]_ingressVars
  <2>1. /\ UNCHANGED <<queue, log, requests, serving, answers>>
        /\ pc[t] = "waiting" /\ pc' = [pc EXCEPT ![t] = "locked"]
    BY <1>2 DEF Lock, publisherVars
  <2>2. \A u \in Threads : (Holds(u)' <=> Holds(u)) /\ serving'[u] = serving[u]
    BY <2>1 DEF IInv, TypeOK, Holds
  <2>3. \A n : (Queued(n)' <=> Queued(n)) /\ (Logged(n)' <=> Logged(n))
    BY <2>1 DEF Queued, Logged
  <2>4. OnePlaceInv'
    BY <2>1, <2>2, <2>3 DEF OnePlaceInv, Queued, Logged
  <2>5. InFlight' = InFlight
    <3>1. \A n : n \in InFlight' <=> n \in InFlight
        BY <2>2, <2>3, InFlightIs
    <3> QED
        BY <3>1
  <2> QED
    BY <2>1, <2>4, <2>5 DEF ingressVars, Accepted, Answered
<1>3. ASSUME NEW t \in Threads, PublishRequest(t)
      PROVE  OnePlaceInv' /\ [Ingress!Next]_ingressVars
    BY <1>3, HandsOver
<1>4. ASSUME NEW t \in Threads, ProducerIsFull(t)
      PROVE  OnePlaceInv' /\ [Ingress!Next]_ingressVars
  <2>1. /\ pc[t] = "locked" /\ Reply(t, 500) /\ queue' = queue /\ log' = log /\ Holds(t)
        /\ holder = t
    BY <1>4 DEF ProducerIsFull, publisherVars, Holds, IInv, LockInv
  <2>2. /\ OnePlaceInv' /\ Accepted' = Accepted /\ serving[t] \in 1..Len(requests)
        /\ \A n : n \in InFlight' <=> n \in InFlight /\ n # serving[t]
    BY <2>1, ReplyRefines
  <2>3. Ingress!Drop(serving[t])
    BY <2>1, <2>2, InFlightIs DEF Ingress!Drop, Accepted
  <2>4. serving[t] \in 1..MaxRequests
    BY <2>2, InFlightType
  <2> QED
    BY <2>2, <2>3, <2>4 DEF Ingress!Next
<1>5. ASSUME NEW t \in Threads, Confirm(t)
      PROVE  OnePlaceInv' /\ [Ingress!Next]_ingressVars
  <2>1. /\ pc[t] = "flushing" /\ queue = << >> /\ queue' = queue /\ log' = log
        /\ Reply(t, IF FlushRaises THEN 503 ELSE 202)
        /\ holder = t /\ Settled(serving[t]) /\ ~Holds(t)
    BY <1>5 DEF Confirm, FlushDone, IInv, LockInv, OwnInv, Holds
  <2>2. CASE FlushRaises
    <3>1. OnePlaceInv' /\ Accepted' = Accepted
          /\ \A n : n \in InFlight' <=> n \in InFlight
        BY <2>1, <2>2, ReplyRefines
    <3> QED
        BY <2>1, <3>1 DEF ingressVars
  <2>3. CASE ~FlushRaises
    <3>1. /\ OnePlaceInv' /\ Accepted' = Accepted \cup {serving[t]}
          /\ \A n : n \in InFlight' <=> n \in InFlight
          /\ serving[t] \in 1..Len(requests)
        BY <2>1, <2>3, ReplyRefines
    <3>2. Logged(serving[t])
        BY <2>1, <2>3 DEF FlushRaises, Settled
    <3>3. Ingress!Confirm(serving[t])
        BY <2>1, <3>1, <3>2 DEF Ingress!Confirm, Ingress!Written, Logged, Accepted
    <3>4. serving[t] \in 1..MaxRequests
        BY <3>1, InFlightType
    <3> QED
        BY <3>1, <3>3, <3>4 DEF Ingress!Next
  <2> QED
    BY <2>2, <2>3
<1>6. ASSUME NEW t \in Threads, GiveUp(t)
      PROVE  OnePlaceInv' /\ [Ingress!Next]_ingressVars
  <2>1. /\ pc[t] = "flushing" /\ queue' = queue /\ log' = log /\ Reply(t, 503)
        /\ holder = t /\ ~Holds(t)
    BY <1>6 DEF GiveUp, FlushTimesOut, IInv, LockInv, Holds
  <2>2. OnePlaceInv' /\ Accepted' = Accepted
        /\ \A n : n \in InFlight' <=> n \in InFlight
    BY <2>1, ReplyRefines
  <2> QED
    BY <2>1, <2>2 DEF ingressVars
<1>7. ASSUME UNCHANGED apiVars, queue # << >>, queue' = Tail(queue),
             log' = log \/ log' = Append(log, Head(queue))
      PROVE  OnePlaceInv' /\ [Ingress!Next]_ingressVars
  <2>1. /\ OnePlaceInv' /\ Head(queue) \in InFlight
        /\ InFlight' = InFlight \ {Head(queue)} /\ Accepted' = Accepted
    BY <1>7, SettleRefines
  <2>2. Ingress!Write(Head(queue)) \/ Ingress!Drop(Head(queue))
    BY <1>7, <2>1 DEF Ingress!Write, Ingress!Drop, Accepted
  <2>3. Head(queue) \in 1..MaxRequests
    BY <2>1, InFlightType
  <2> QED
    BY <2>1, <2>2, <2>3 DEF Ingress!Next
<1>8. CASE Acknowledge
    BY <1>7, <1>8 DEF Acknowledge, BrokerAcknowledges, Settle
<1>9. CASE Expire
    BY <1>7, <1>9 DEF Expire, DeliveryFails, Settle, apiVars
<1>10. CASE Crash
    BY <1>10, CrashRefines DEF Ingress!Next
<1>11. CASE UNCHANGED vars
  <2>1. UNCHANGED <<queue, log, requests, pc, serving, answers>>
    BY <1>11 DEF vars
  <2> QED
    BY <2>1 DEF OnePlaceInv, Holds, Queued, Logged, ingressVars, InFlight, Accepted, Answered
<1> QED
    BY <1>1, <1>2, <1>3, <1>4, <1>5, <1>6, <1>8, <1>9, <1>10, <1>11 DEF Next

\* The API implements EventIngress: whatever threads, the lock, timeouts,
\* failed deliveries and crashes do, a submitted event is written at most once
\* and confirmed only when it is written.
THEOREM Implementation == Spec => ImplementsIngress
<1>1. Init => OnePlaceInv /\ Ingress!Init
  <2> SUFFICES ASSUME Init
               PROVE  OnePlaceInv /\ Ingress!Init
    OBVIOUS
  <2>1. /\ queue = << >> /\ log = << >> /\ requests = << >> /\ Len(requests) = 0
        /\ DOMAIN queue = {} /\ DOMAIN requests = {}
        /\ \A t \in Threads : pc[t] = "idle"
    BY DEF Init, PublisherInit
  <2>2. OnePlaceInv
    BY <2>1, RequestBounds DEF OnePlaceInv, Holds
  <2>3. InFlight = {}
    BY <2>1 DEF InFlight
  <2> QED
    BY <2>1, <2>2, <2>3 DEF Ingress!Init
<1>2. IInv /\ OnePlaceInv /\ [Next]_vars => OnePlaceInv' /\ [Ingress!Next]_ingressVars
    BY RefinesStep
<1> QED
    BY <1>1, <1>2, Invariant, PTL
    DEF Spec, ImplementsIngress, Ingress!Spec, ingressVars, Accepted
=============================================================================
