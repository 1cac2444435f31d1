------------------------- MODULE ReplayClientProofs -------------------------
(***************************************************************************)
(* The replay client for any files, batch size, number of runs, commands,  *)
(* failed deliveries and kills.                                            *)
(*                                                                         *)
(* The argument: what a run has put into the topic, what is queued and     *)
(* what is in hand follow each other in source order; a row that has been  *)
(* taken and is not in hand was delivered, is queued or is known to have   *)
(* failed; at most one message of a run is with the API, and it is the     *)
(* next one of its run; and only a run that was told --force opens an      *)
(* output that is there.                                                   *)
(***************************************************************************)
EXTENDS ReplayClient, FiniteSetTheorems, TLAPS

Messages == [run : Nat, row : Nat]

\* The messages of the current run; a message is in one place at a time.
InLog(r, x) == \E i \in DOMAIN log : log[i].run = r /\ log[i].row = x
InQueue(x) == \E i \in DOMAIN queue : queue[i].row = x
InBatch(x) == \E i \in DOMAIN batch : batch[i] = x
Failed == errors # {} \/ \E i \in DOMAIN reports : reports[i].failed

Rows == DOMAIN rows
Sendable(m) == m.run \in 1..run /\ m.row \in AcceptedRows

ClientTypeOK ==
    /\ rows \in Files
    /\ run \in Nat
    /\ args \in [command : Commands, force : BOOLEAN]
    /\ position \in 0..Len(rows)
    /\ waiting \in 0..Len(rows)
    /\ stats \in [rows : Nat, emitted : Nat, invalid : Nat, batches : Nat]
    /\ exit \in {"none", "running", "ok", "error", "crashed"}
    /\ run = 0 => exit = "none"
    /\ outcomes \subseteq [run : Nat, command : Commands, force : BOOLEAN,
                           exit : {"ok", "error", "crashed"}]

MessagesOK ==
    /\ log \in Seq(Messages) /\ \A i \in DOMAIN log : Sendable(log[i])
    /\ queue \in Seq(Messages) /\ \A i \in DOMAIN queue : Sendable(queue[i])
    /\ batch \in Seq(Nat) /\ \A i \in DOMAIN batch : batch[i] \in AcceptedRows
    /\ reports \in Seq([message : Messages, failed : BOOLEAN])
    /\ inflight \subseteq Messages /\ \A m \in inflight : Sendable(m)

\* A run has one outcome, known when it has ended.
OutcomeInv ==
    /\ \A o \in outcomes : o.run \in 1..run
    /\ \A o \in outcomes : o.run = run =>
          exit # "running" /\ o.command = args.command /\ o.force = args.force
    /\ run > 0 /\ exit # "running" =>
          \E o \in outcomes : o.run = run /\ o.command = args.command /\ o.force = args.force

\* Each sink is used by its command alone.
SinkInv ==
    /\ queue # << >> => Running /\ \A i \in DOMAIN queue : queue[i].run = run
    /\ args.command # "publish" /\ Running =>
          queue = << >> /\ reports = << >> /\ errors = {}
    /\ waiting # NoRow =>
          Running /\ args.command = "http" /\ batch # << >> /\ waiting = batch[1]
    /\ \A m \in inflight : m.run = run =>
          args.command = "http" /\ (exit = "running" => waiting = m.row)
    /\ \A m, n \in inflight : m.run = n.run => m = n

\* Log, queue and batch follow each other in source order.
OrderInv ==
    /\ \A r \in Nat : PublishedInOrder(r)
    /\ \A m \in inflight, i \in DOMAIN log : log[i].run = m.run => log[i].row < m.row
    /\ \A i, j \in DOMAIN queue : i < j => queue[i].row < queue[j].row
    /\ \A i \in DOMAIN log, j \in DOMAIN queue :
          log[i].run = run => log[i].row < queue[j].row

BatchInv ==
    Running =>
        /\ \A i, j \in DOMAIN batch : i < j => batch[i] < batch[j]
        /\ \A j \in DOMAIN batch : batch[j] <= position
        /\ \A i \in DOMAIN queue : queue[i].row <= position /\ ~InBatch(queue[i].row)
        /\ \A i \in DOMAIN log : log[i].run = run =>
              /\ log[i].row <= position
              /\ log[i].row = waiting \/ ~InBatch(log[i].row)
        /\ \A x \in AcceptedRows : x <= position /\ ~InBatch(x) =>
              \A j \in DOMAIN batch : x < batch[j]

\* What has been taken from the file and is not in hand has been delivered, is
\* queued, or is known to have failed.
DeliveredInv ==
    /\ Running /\ args.command # "replay" =>
          \A x \in AcceptedRows : x <= position /\ ~InBatch(x) =>
              InLog(run, x) \/ InQueue(x) \/ Failed
    /\ \A o \in outcomes : o.exit = "ok" /\ o.command # "replay" =>
          \A x \in AcceptedRows : InLog(o.run, x)

\* A message of an http run leaves no gap behind it, in flight or written.
Gapless(m) == Postable(m) /\ \A x \in AcceptedRows : x < m.row => InLog(m.run, x)

GapInv ==
    /\ \A m \in inflight : Gapless(m)
    /\ \A v \in Invocations : v.command = "http" =>
          \A i \in DOMAIN log : log[i].run = v.run => Gapless(log[i])

RowsUpTo(n) == {x \in AcceptedRows : x <= n}
RejectedUpTo(n) == {x \in RejectedRows : x <= n}

StatsInv ==
    /\ Running \/ exit = "ok" =>
          /\ stats.rows = position
          /\ stats.emitted + Len(batch) = Cardinality(RowsUpTo(position))
          /\ stats.invalid = Cardinality(RejectedUpTo(position))
    /\ exit = "ok" => position = Len(rows) /\ batch = << >>

\* Rows whose lines the current run has written to an output of its own.
WrittenRows(f) ==
    IF f = "events" THEN {x \in AcceptedRows : x <= position /\ ~InBatch(x)}
    ELSE RejectedUpTo(position)

LinesOK(f) == outputs[f] \in [exists : BOOLEAN, lines : Seq(Messages)]

FileInv ==
    /\ DOMAIN outputs = OutputNames
    /\ \A f \in OutputNames : LinesOK(f)
    /\ Running => \A f \in Requested(args.command) :
          /\ outputs[f].exists
          /\ LinesOf(f, run)
          /\ LineRows(f) = WrittenRows(f)
    /\ \A o \in outcomes : o.exit = "ok" =>
          \A f \in Requested(o.command) : outputs[f].exists
    /\ Running /\ ~args.force => \A o \in outcomes : o.exit = "ok" =>
          Requested(args.command) \cap Requested(o.command) = {}

RCInv ==
    /\ ClientTypeOK /\ MessagesOK /\ OutcomeInv /\ SinkInv /\ OrderInv /\ BatchInv
    /\ DeliveredInv /\ GapInv /\ StatsInv /\ FileInv /\ OutputKeptUnlessForced

-----------------------------------------------------------------------------
LEMMA RowsTyped ==
    ASSUME RCInv
    PROVE  /\ Len(rows) \in Nat /\ DOMAIN rows = 1..Len(rows)
           /\ AcceptedRows \subseteq 1..Len(rows) /\ RejectedRows \subseteq 1..Len(rows)
<1>1. rows \in Files
    BY DEF RCInv, ClientTypeOK
<1>2. rows \in Seq([well_formed : BOOLEAN, user : Int, item : Int,
                    category : Int, behavior : STRING, timestamp : Int])
    BY <1>1, FilesAssumption, Zenon
<1>3. Len(rows) \in Nat /\ DOMAIN rows = 1..Len(rows)
    BY <1>2
<1> QED
    BY <1>3 DEF AcceptedRows, RejectedRows

LEMMA Typed ==
    ASSUME RCInv
    PROVE  /\ run \in Nat /\ position \in Nat /\ position <= Len(rows)
           /\ log \in Seq(Messages) /\ Len(log) \in Nat /\ DOMAIN log = 1..Len(log)
           /\ queue \in Seq(Messages) /\ Len(queue) \in Nat /\ DOMAIN queue = 1..Len(queue)
           /\ batch \in Seq(Nat) /\ Len(batch) \in Nat /\ DOMAIN batch = 1..Len(batch)
           /\ args.command \in Commands /\ args.force \in BOOLEAN
<1>1. Len(rows) \in Nat
    BY RowsTyped
<1>2. run \in Nat /\ position \in Nat /\ position <= Len(rows)
    BY <1>1 DEF RCInv, ClientTypeOK
<1>3. log \in Seq(Messages) /\ Len(log) \in Nat /\ DOMAIN log = 1..Len(log)
    BY DEF RCInv, MessagesOK
<1>4. queue \in Seq(Messages) /\ Len(queue) \in Nat /\ DOMAIN queue = 1..Len(queue)
    BY DEF RCInv, MessagesOK
<1>5. batch \in Seq(Nat) /\ Len(batch) \in Nat /\ DOMAIN batch = 1..Len(batch)
    BY DEF RCInv, MessagesOK
<1>6. args.command \in Commands /\ args.force \in BOOLEAN
    BY DEF RCInv, ClientTypeOK
<1> QED
    BY <1>2, <1>3, <1>4, <1>5, <1>6

LEMMA MessageTyped ==
    ASSUME RCInv
    PROVE  /\ \A i \in DOMAIN log : /\ log[i] \in Messages /\ log[i].run \in Nat
                                    /\ log[i].row \in Nat \ {0} /\ log[i].run <= run
           /\ \A i \in DOMAIN queue : /\ queue[i] \in Messages /\ queue[i].run = run
                                      /\ queue[i].row \in Nat \ {0}
           /\ \A i \in DOMAIN batch : batch[i] \in Nat \ {0}
           /\ \A m \in inflight : /\ m \in Messages /\ m.run \in Nat /\ m.run <= run
                                  /\ m.row \in Nat \ {0}
<1>1. \A m : Sendable(m) => m.run \in Nat /\ m.run <= run /\ m.row \in Nat \ {0}
    BY RowsTyped, Typed DEF Sendable
<1>2. \A i \in DOMAIN log : log[i] \in Messages /\ Sendable(log[i])
    BY DEF RCInv, MessagesOK
<1>3. \A i \in DOMAIN queue : queue[i] \in Messages /\ Sendable(queue[i])
    BY DEF RCInv, MessagesOK
<1>4. \A i \in DOMAIN queue : queue[i].run = run
    BY Typed DEF RCInv, SinkInv
<1>5. \A i \in DOMAIN batch : batch[i] \in AcceptedRows
    BY DEF RCInv, MessagesOK
<1>6. \A m \in inflight : m \in Messages /\ Sendable(m)
    BY DEF RCInv, MessagesOK
<1>7. \A i \in DOMAIN batch : batch[i] \in Nat \ {0}
    BY <1>5, RowsTyped
<1> QED
    BY <1>1, <1>2, <1>3, <1>4, <1>6, <1>7

\* The file does not change.
LEMMA RowsAlone ==
    ASSUME rows' = rows
    PROVE  /\ AcceptedRows' = AcceptedRows /\ RejectedRows' = RejectedRows
           /\ \A m : Postable(m)' <=> Postable(m)
<1>1. AcceptedRows' = AcceptedRows
    BY DEF AcceptedRows
<1>2. RejectedRows' = RejectedRows
    BY <1>1 DEF RejectedRows
<1>3. \A m : Postable(m)' <=> Postable(m)
    BY DEF Postable, EventOf
<1> QED
    BY <1>1, <1>2, <1>3

LEMMA GaplessStays ==
    ASSUME rows' = rows, \A r, x : InLog(r, x) => InLog(r, x)', NEW m, Gapless(m)
    PROVE  Gapless(m)'
BY RowsAlone DEF Gapless, InLog

-----------------------------------------------------------------------------
(* The topic grows. *)

LEMMA Concatenated ==
    ASSUME NEW S, NEW a \in Seq(S), NEW s \in Seq(S), NEW b, b = a \o s
    PROVE  /\ b \in Seq(S) /\ DOMAIN b = 1..(Len(a) + Len(s))
           /\ Len(a) \in Nat /\ Len(s) \in Nat
           /\ \A i \in DOMAIN a : i \in DOMAIN b /\ b[i] = a[i]
           /\ \A k \in DOMAIN s : Len(a) + k \in DOMAIN b /\ b[Len(a) + k] = s[k]
           /\ \A i \in DOMAIN b : \/ i \in DOMAIN a /\ b[i] = a[i]
                                  \/ \E k \in DOMAIN s : i = Len(a) + k /\ b[i] = s[k]
<1>1. /\ b \in Seq(S) /\ DOMAIN b = 1..(Len(a) + Len(s))
      /\ Len(a) \in Nat /\ Len(s) \in Nat
      /\ DOMAIN a = 1..Len(a) /\ DOMAIN s = 1..Len(s)
    OBVIOUS
<1>2. \A i \in DOMAIN a : i \in DOMAIN b /\ b[i] = a[i]
    BY <1>1
<1>3. \A k \in DOMAIN s : Len(a) + k \in DOMAIN b /\ b[Len(a) + k] = s[k]
    BY <1>1
<1>4. ASSUME NEW i \in DOMAIN b, i \notin DOMAIN a
      PROVE  \E k \in DOMAIN s : i = Len(a) + k /\ b[i] = s[k]
  <2>1. i - Len(a) \in DOMAIN s /\ i = Len(a) + (i - Len(a))
      BY <1>1, <1>4
  <2> QED
      BY <1>3, <2>1
<1> QED
    BY <1>1, <1>2, <1>3, <1>4

LEMMA AppendIsConcat ==
    ASSUME NEW S, NEW a \in Seq(S), NEW e \in S
    PROVE  Append(a, e) = a \o << e >> /\ << e >> \in Seq(S)
    OBVIOUS

LEMMA Prefix ==
    ASSUME NEW S, NEW a \in Seq(S), NEW n \in 0..Len(a)
    PROVE  /\ SubSeq(a, 1, n) \in Seq(S) /\ DOMAIN SubSeq(a, 1, n) = 1..n
           /\ \A i \in 1..n : i \in DOMAIN a /\ SubSeq(a, 1, n)[i] = a[i]
    OBVIOUS

\* What s adds to the topic.
LEMMA LogGrows ==
    ASSUME RCInv, NEW s \in Seq(Messages), log' = log \o s
    PROVE  /\ log' \in Seq(Messages)
           /\ \A r, x : InLog(r, x)' <=> \/ InLog(r, x)
                                         \/ \E k \in DOMAIN s : s[k].run = r /\ s[k].row = x
           /\ \A i \in DOMAIN log' : \/ i \in DOMAIN log /\ log'[i] = log[i]
                                     \/ \E k \in DOMAIN s : i = Len(log) + k /\ log'[i] = s[k]
           /\ DOMAIN log = 1..Len(log) /\ Len(log) \in Nat /\ DOMAIN s = 1..Len(s)
<1>0. DOMAIN log = 1..Len(log) /\ Len(log) \in Nat /\ DOMAIN s = 1..Len(s)
    BY Typed
<1>1. /\ log' \in Seq(Messages)
      /\ \A i \in DOMAIN log : i \in DOMAIN log' /\ log'[i] = log[i]
      /\ \A k \in DOMAIN s : Len(log) + k \in DOMAIN log' /\ log'[Len(log) + k] = s[k]
      /\ \A i \in DOMAIN log' : \/ i \in DOMAIN log /\ log'[i] = log[i]
                                \/ \E k \in DOMAIN s : i = Len(log) + k /\ log'[i] = s[k]
  <2>1. log \in Seq(Messages)
      BY Typed
  <2> QED
      BY <2>1, Concatenated
<1>2. \A r, x : InLog(r, x) => InLog(r, x)'
    BY <1>1 DEF InLog
<1>3. \A r, x : (\E k \in DOMAIN s : s[k].run = r /\ s[k].row = x) => InLog(r, x)'
    BY <1>1 DEF InLog
<1>4. \A r, x : InLog(r, x)' => \/ InLog(r, x)
                                \/ \E k \in DOMAIN s : s[k].run = r /\ s[k].row = x
    BY <1>1 DEF InLog
<1> QED
    BY <1>0, <1>1, <1>2, <1>3, <1>4

LEMMA OrderGrows ==
    ASSUME RCInv, NEW s \in Seq(Messages), log' = log \o s,
           \A k, l \in DOMAIN s : k < l /\ s[k].run = s[l].run => s[k].row < s[l].row,
           \A i \in DOMAIN log, k \in DOMAIN s :
               log[i].run = s[k].run => log[i].row < s[k].row
    PROVE  \A r \in Nat : PublishedInOrder(r)'
<1>1. /\ \A i \in DOMAIN log' : \/ i \in DOMAIN log /\ log'[i] = log[i]
                                \/ \E k \in DOMAIN s : i = Len(log) + k /\ log'[i] = s[k]
      /\ DOMAIN log = 1..Len(log) /\ Len(log) \in Nat /\ DOMAIN s = 1..Len(s)
    BY LogGrows
<1>2. \A r \in Nat : PublishedInOrder(r)
    BY DEF RCInv, OrderInv
<1> SUFFICES ASSUME NEW r \in Nat, NEW i \in DOMAIN log', NEW j \in DOMAIN log',
                    i < j, log'[i].run = r, log'[j].run = r
             PROVE  log'[i].row < log'[j].row
    BY DEF PublishedInOrder
<1>3. CASE j \in DOMAIN log /\ log'[j] = log[j]
  <2>1. i \in DOMAIN log /\ log'[i] = log[i]
      BY <1>1, <1>3
  <2> QED
      BY <1>2, <1>3, <2>1 DEF PublishedInOrder
<1>4. ASSUME NEW l \in DOMAIN s, j = Len(log) + l, log'[j] = s[l]
      PROVE  log'[i].row < log'[j].row
  <2>1. CASE i \in DOMAIN log /\ log'[i] = log[i]
      BY <1>4, <2>1
  <2>2. ASSUME NEW k \in DOMAIN s, i = Len(log) + k, log'[i] = s[k]
        PROVE  log'[i].row < log'[j].row
    <3>1. k < l
        BY <1>1, <1>4, <2>2
    <3> QED
        BY <1>4, <2>2, <3>1
  <2> QED
      BY <1>1, <2>1, <2>2
<1> QED
    BY <1>1, <1>3, <1>4

\* A run that publishes has no message with the API.
LEMMA QueueOfPublisher ==
    ASSUME RCInv, queue # << >>
    PROVE  /\ Running /\ args.command = "publish"
           /\ \A m \in inflight : m.run # run
           /\ \A v \in Invocations : v.command = "http" => v.run # run
<1>1. Running
    BY DEF RCInv, SinkInv
<1>2. args.command = "publish"
    BY <1>1 DEF RCInv, SinkInv
<1>3. \A m \in inflight : m.run # run
    BY <1>2 DEF RCInv, SinkInv
<1>4. \A o \in outcomes : o.run # run
    BY <1>1 DEF RCInv, OutcomeInv, Running
<1>5. \A v \in Invocations : v.command = "http" => v.run # run
    BY <1>2, <1>4 DEF Invocations
<1> QED
    BY <1>1, <1>2, <1>3, <1>5

\* The broker writes the first n messages of the queue.
LEMMA FromQueue ==
    ASSUME RCInv, NEW n \in 0..Len(queue), log' = log \o SubSeq(queue, 1, n),
           rows' = rows, run' = run
    PROVE  /\ log' \in Seq(Messages)
           /\ \A m : (\E i \in DOMAIN log' : log'[i] = m) => Sendable(m)'
           /\ \A r \in Nat : PublishedInOrder(r)'
           /\ \A m \in inflight, i \in DOMAIN log' :
                 log'[i].run = m.run => log'[i].row < m.row
           /\ \A r, x : InLog(r, x) => InLog(r, x)'
           /\ \A m \in inflight : Gapless(m)'
           /\ \A v \in Invocations : v.command = "http" =>
                 \A m : (\E i \in DOMAIN log' : log'[i] = m) /\ m.run = v.run => Gapless(m)'
           /\ \A x : (\E k \in 1..n : queue[k].row = x) => InLog(run, x)'
           /\ \A i \in DOMAIN log' : \/ i \in DOMAIN log /\ log'[i] = log[i]
                                     \/ \E k \in 1..n : /\ k \in DOMAIN queue
                                                        /\ log'[i] = queue[k]
<1> DEFINE s == SubSeq(queue, 1, n)
<1>1. queue \in Seq(Messages) /\ Len(queue) \in Nat /\ DOMAIN queue = 1..Len(queue)
    BY Typed
<1>2. /\ s \in Seq(Messages) /\ DOMAIN s = 1..n
      /\ \A k \in 1..n : k \in DOMAIN queue /\ s[k] = queue[k]
    BY <1>1, Prefix
<1> HIDE DEF s
<1>3. log' = log \o s
    BY DEF s
<1>4. /\ log' \in Seq(Messages)
      /\ \A r, x : InLog(r, x)' <=> \/ InLog(r, x)
                                    \/ \E k \in DOMAIN s : s[k].run = r /\ s[k].row = x
      /\ \A i \in DOMAIN log' : \/ i \in DOMAIN log /\ log'[i] = log[i]
                                \/ \E k \in DOMAIN s : i = Len(log) + k /\ log'[i] = s[k]
    BY <1>2, <1>3, LogGrows
<1>5. \A i \in DOMAIN log' : \/ i \in DOMAIN log /\ log'[i] = log[i]
                             \/ \E k \in 1..n : /\ k \in DOMAIN queue
                                                /\ log'[i] = queue[k]
    BY <1>2, <1>4
<1>6. /\ \A i \in DOMAIN log : Sendable(log[i])
      /\ \A i \in DOMAIN queue : Sendable(queue[i])
    BY DEF RCInv, MessagesOK
<1>7. \A m : Sendable(m)' <=> Sendable(m)
    BY RowsAlone DEF Sendable
<1>8. \A m : (\E i \in DOMAIN log' : log'[i] = m) => Sendable(m)'
    BY <1>5, <1>6, <1>7
<1>9. \A k \in 1..n : k \in DOMAIN queue /\ s[k] = queue[k] /\ queue[k].run = run
    BY <1>2, MessageTyped
<1>10. n > 0 => queue # << >>
    BY <1>1
<1>11. n > 0 => /\ \A m \in inflight : m.run # run
                /\ \A v \in Invocations : v.command = "http" => v.run # run
    BY <1>10, QueueOfPublisher
<1>12. \A k, l \in DOMAIN s : k < l /\ s[k].run = s[l].run => s[k].row < s[l].row
    BY <1>2 DEF RCInv, OrderInv
<1>13. \A i \in DOMAIN log, k \in DOMAIN s :
           log[i].run = s[k].run => log[i].row < s[k].row
  <2>1. \A i \in DOMAIN log, j \in DOMAIN queue :
            log[i].run = run => log[i].row < queue[j].row
      BY DEF RCInv, OrderInv
  <2> QED
      BY <1>2, <1>9, <2>1
<1>14. \A r \in Nat : PublishedInOrder(r)'
    BY <1>2, <1>3, <1>12, <1>13, OrderGrows
<1>15. \A m \in inflight, i \in DOMAIN log' :
           log'[i].run = m.run => log'[i].row < m.row
  <2> SUFFICES ASSUME NEW m \in inflight, NEW i \in DOMAIN log', log'[i].run = m.run
               PROVE  log'[i].row < m.row
      OBVIOUS
  <2>1. CASE i \in DOMAIN log /\ log'[i] = log[i]
      BY <2>1 DEF RCInv, OrderInv
  <2>2. ASSUME NEW k \in 1..n, log'[i] = queue[k]
        PROVE  log'[i].row < m.row
    <3>1. m.run # run /\ queue[k].run = run
        BY <1>9, <1>11
    <3> QED
        BY <2>2, <3>1
  <2> QED
      BY <1>5, <2>1, <2>2
<1>16. \A r, x : InLog(r, x) => InLog(r, x)'
    BY <1>4
<1>17. \A m \in inflight : Gapless(m)'
    BY <1>16, GaplessStays DEF RCInv, GapInv
<1>18. ASSUME NEW v \in Invocations, v.command = "http",
              NEW m, NEW i \in DOMAIN log', log'[i] = m, m.run = v.run
       PROVE  Gapless(m)'
  <2>1. CASE i \in DOMAIN log /\ log'[i] = log[i]
    <3>1. Gapless(m)
        BY <1>18, <2>1 DEF RCInv, GapInv
    <3> QED
        BY <1>16, <3>1, GaplessStays
  <2>2. ASSUME NEW k \in 1..n, log'[i] = queue[k]
        PROVE  FALSE
      BY <1>9, <1>11, <1>18, <2>2
  <2> QED
      BY <1>5, <2>1, <2>2
<1>19. \A x : (\E k \in 1..n : queue[k].row = x) => InLog(run, x)'
  <2>1. \A x : (\E k \in DOMAIN s : s[k].run = run /\ s[k].row = x) => InLog(run, x)'
      BY <1>4
  <2>2. \A k \in 1..n : k \in DOMAIN s /\ s[k].run = run /\ s[k].row = queue[k].row
      BY <1>2, <1>9
  <2> QED
      BY <2>1, <2>2
<1> QED
    BY <1>4, <1>5, <1>8, <1>14, <1>15, <1>16, <1>17, <1>18, <1>19

-----------------------------------------------------------------------------
(* What a step leaves alone. *)

LEMMA OutcomesAlone ==
    ASSUME RCInv, UNCHANGED <<run, args, exit, outcomes>>
    PROVE  /\ OutcomeInv' /\ Invocations' = Invocations
           /\ Running' <=> Running
BY DEF RCInv, OutcomeInv, Invocations, Running

LEMMA StatsAlone ==
    ASSUME RCInv, UNCHANGED <<rows, run, exit, position, batch, stats>>
    PROVE  StatsInv'
BY RowsAlone DEF RCInv, StatsInv, Running, RowsUpTo, RejectedUpTo

LEMMA FilesAlone ==
    ASSUME RCInv, UNCHANGED <<rows, run, args, exit, outcomes, outputs>>,
           \A f \in Requested(args.command) : Running => WrittenRows(f)' = WrittenRows(f)
    PROVE  FileInv' /\ OutputKeptUnlessForced'
<1>1. UNCHANGED <<AcceptedRows, RejectedRows>>
    BY RowsAlone
<1>2. \A f \in OutputNames : LinesOK(f)'
    BY DEF RCInv, FileInv, LinesOK
<1>3. \A f : LineRows(f)' = LineRows(f)
    BY DEF LineRows
<1>4. \A f, r : LinesOf(f, r)' <=> LinesOf(f, r)
    BY DEF LinesOf
<1>5. Running' <=> Running
    BY DEF Running
<1>6. FileInv'
    BY <1>2, <1>3, <1>4, <1>5 DEF RCInv, FileInv
<1>7. Invocations' = Invocations
    BY OutcomesAlone
<1>8. \A f : Due(f)' = Due(f)
    BY <1>1 DEF Due
<1>9. OutputKeptUnlessForced'
    BY <1>3, <1>4, <1>7, <1>8 DEF RCInv, OutputKeptUnlessForced
<1> QED
    BY <1>6, <1>9

\* A step of the broker or of the API: the client itself does not move.
Elsewhere ==
    UNCHANGED <<rows, run, args, position, batch, stats, exit, outcomes, outputs>>

LEMMA ElsewhereAlone ==
    ASSUME RCInv, Elsewhere, waiting' \in 0..Len(rows)
    PROVE  /\ ClientTypeOK' /\ OutcomeInv' /\ StatsInv' /\ FileInv'
           /\ OutputKeptUnlessForced'
           /\ Invocations' = Invocations /\ (Running' <=> Running)
           /\ \A x : InBatch(x)' <=> InBatch(x)
<1>1. \A x : InBatch(x)' <=> InBatch(x)
    BY DEF InBatch, Elsewhere
<1>2. UNCHANGED <<AcceptedRows, RejectedRows>>
    BY RowsAlone DEF Elsewhere
<1>3. \A f : WrittenRows(f)' = WrittenRows(f)
    BY <1>1, <1>2 DEF WrittenRows, RejectedUpTo, Elsewhere
<1>4. ClientTypeOK'
    BY DEF RCInv, ClientTypeOK, Elsewhere
<1>5. FileInv' /\ OutputKeptUnlessForced'
    BY <1>3, FilesAlone DEF Elsewhere
<1> QED
    BY <1>1, <1>4, <1>5, OutcomesAlone, StatsAlone DEF Elsewhere

-----------------------------------------------------------------------------
(* Steps of the broker and of the API. *)

LEMMA TailFacts ==
    ASSUME NEW S, NEW a \in Seq(S), a # << >>
    PROVE  /\ Len(a) \in Nat \ {0} /\ 1 \in DOMAIN a /\ Head(a) = a[1] /\ a[1] \in S
           /\ Tail(a) \in Seq(S) /\ DOMAIN Tail(a) = 1..(Len(a) - 1)
           /\ \A j \in DOMAIN Tail(a) : j + 1 \in DOMAIN a /\ Tail(a)[j] = a[j + 1]
           /\ \A j \in DOMAIN a : j = 1 \/ (j - 1 \in DOMAIN Tail(a) /\ a[j] = Tail(a)[j - 1])
           /\ Len(Tail(a)) = Len(a) - 1
    OBVIOUS

LEMMA FirstMessages ==
    ASSUME NEW S, NEW l \in Seq(S), NEW a \in Seq(S), a # << >>
    PROVE  /\ l = l \o SubSeq(a, 1, 0)
           /\ Append(l, Head(a)) = l \o SubSeq(a, 1, 1)
           /\ 0 \in 0..Len(a) /\ 1 \in 0..Len(a)
    OBVIOUS

\* The first message of the queue is settled: written or failed.
LEMMA SettledStep ==
    ASSUME RCInv, queue # << >>, NEW failed \in BOOLEAN, Settle(failed),
           NEW n \in {0, 1}, log' = log \o SubSeq(queue, 1, n), n = 0 => failed,
           Elsewhere, UNCHANGED <<inflight, waiting>>
    PROVE  RCInv'
<1>1. /\ run \in Nat /\ queue \in Seq(Messages) /\ DOMAIN queue = 1..Len(queue)
      /\ Len(queue) \in Nat /\ log \in Seq(Messages)
    BY Typed
<1>2. /\ Len(queue) \in Nat \ {0} /\ 1 \in DOMAIN queue /\ Head(queue) = queue[1]
      /\ queue[1] \in Messages
      /\ queue' \in Seq(Messages) /\ DOMAIN queue' = 1..(Len(queue) - 1)
      /\ \A j \in DOMAIN queue' : j + 1 \in DOMAIN queue /\ queue'[j] = queue[j + 1]
      /\ \A j \in DOMAIN queue : j = 1 \/ \E k \in DOMAIN queue' : queue[j] = queue'[k]
  <2>1. queue' = Tail(queue)
      BY DEF Settle
  <2>2. /\ Len(queue) \in Nat \ {0} /\ 1 \in DOMAIN queue /\ Head(queue) = queue[1]
        /\ queue[1] \in Messages
        /\ queue' \in Seq(Messages) /\ DOMAIN queue' = 1..(Len(queue) - 1)
        /\ \A j \in DOMAIN queue' : j + 1 \in DOMAIN queue /\ queue'[j] = queue[j + 1]
        /\ \A j \in DOMAIN queue :
              j = 1 \/ (j - 1 \in DOMAIN queue' /\ queue[j] = queue'[j - 1])
      BY <1>1, <2>1, TailFacts
  <2> QED
      BY <2>2
<1>3. n \in 0..Len(queue) /\ (n = 1 <=> n # 0)
    BY <1>2
<1>4. rows' = rows /\ run' = run /\ args' = args /\ position' = position /\ outcomes' = outcomes
    BY DEF Elsewhere
<1>5. /\ log' \in Seq(Messages)
      /\ \A m : (\E i \in DOMAIN log' : log'[i] = m) => Sendable(m)'
      /\ \A r \in Nat : PublishedInOrder(r)'
      /\ \A m \in inflight, i \in DOMAIN log' :
            log'[i].run = m.run => log'[i].row < m.row
      /\ \A r, x : InLog(r, x) => InLog(r, x)'
      /\ \A m \in inflight : Gapless(m)'
      /\ \A v \in Invocations : v.command = "http" =>
            \A m : (\E i \in DOMAIN log' : log'[i] = m) /\ m.run = v.run => Gapless(m)'
      /\ \A x : (\E k \in 1..n : queue[k].row = x) => InLog(run, x)'
      /\ \A i \in DOMAIN log' : \/ i \in DOMAIN log /\ log'[i] = log[i]
                                \/ \E k \in 1..n : /\ k \in DOMAIN queue
                                                   /\ log'[i] = queue[k]
  <2>1. log' = log \o SubSeq(queue, 1, n)
      OBVIOUS
  <2> QED
      BY <1>3, <1>4, <2>1, FromQueue
<1>6. \A i \in DOMAIN log' : \/ i \in DOMAIN log /\ log'[i] = log[i]
                             \/ log'[i] = queue[1]
  <2>1. \A k \in 1..n : k = 1
      BY <1>3
  <2> QED
      BY <1>5, <2>1
<1>7. /\ Running /\ args.command = "publish"
      /\ \A m \in inflight : m.run # run
    BY QueueOfPublisher
<1>8. /\ ClientTypeOK' /\ OutcomeInv' /\ StatsInv' /\ FileInv'
      /\ OutputKeptUnlessForced'
      /\ Invocations' = Invocations /\ (Running' <=> Running)
      /\ \A x : InBatch(x)' <=> InBatch(x)
  <2>1. waiting' \in 0..Len(rows)
      BY DEF RCInv, ClientTypeOK
  <2> QED
      BY <2>1, ElsewhereAlone
<1>9. \A m : Sendable(m)' <=> Sendable(m)
    BY <1>4, RowsAlone DEF Sendable
<1>10. UNCHANGED <<AcceptedRows, batch>>
    BY <1>4, RowsAlone DEF Elsewhere
<1>11. MessagesOK'
  <2>1. \A i \in DOMAIN log' : Sendable(log[i])'
      BY <1>5 DEF Sendable
  <2>2. \A i \in DOMAIN queue' : \E j \in DOMAIN queue : queue'[i] = queue[j]
      BY <1>2
  <2>3. \A i \in DOMAIN queue : Sendable(queue[i])
      BY DEF RCInv, MessagesOK
  <2>4. \A i \in DOMAIN queue' : Sendable(queue[i])'
      BY <1>4, <1>10, <2>2, <2>3 DEF Sendable
  <2>5. batch' \in Seq(Nat) /\ \A i \in DOMAIN batch' : batch'[i] \in AcceptedRows'
      BY <1>10 DEF RCInv, MessagesOK
  <2>6. reports' \in Seq([message : Messages, failed : BOOLEAN])
    <3>1. [message |-> Head(queue), failed |-> failed] \in [message : Messages, failed : BOOLEAN]
        BY <1>2
    <3>2. reports \in Seq([message : Messages, failed : BOOLEAN])
        BY DEF RCInv, MessagesOK
    <3> QED
        BY <3>1, <3>2 DEF Settle
  <2>7. inflight' \subseteq Messages /\ \A m \in inflight' : Sendable(m)'
      BY <1>9 DEF RCInv, MessagesOK
  <2> QED
      BY <1>2, <1>5, <2>1, <2>4, <2>5, <2>6, <2>7 DEF MessagesOK
<1>12. SinkInv'
  <2>1. \A i \in DOMAIN queue' : queue'[i].run = run
      BY <1>2, MessageTyped
  <2>2. waiting = NoRow
      BY <1>7 DEF RCInv, SinkInv
  <2> QED
      BY <1>4, <1>7, <1>8, <2>1, <2>2 DEF RCInv, SinkInv
<1>13. OrderInv'
  <2>0. /\ \A i, j \in DOMAIN queue : i < j => queue[i].row < queue[j].row
        /\ \A i \in DOMAIN log, j \in DOMAIN queue :
              log[i].run = run => log[i].row < queue[j].row
      BY DEF RCInv, OrderInv
  <2>a. \A j \in DOMAIN queue' : j \in Nat \ {0} /\ j + 1 \in DOMAIN queue
      BY <1>2
  <2>1. \A i, j \in DOMAIN queue' : i < j => queue'[i].row < queue'[j].row
    <3>1. \A i, j \in DOMAIN queue' : i < j => i + 1 < j + 1
        BY <2>a
    <3> QED
        BY <1>2, <2>0, <3>1
  <2>2. \A j \in DOMAIN queue' : queue[1].row < queue'[j].row
    <3>1. \A j \in DOMAIN queue' : 1 < j + 1
        BY <2>a
    <3> QED
        BY <1>2, <2>0, <3>1
  <2>3. \A i \in DOMAIN log, j \in DOMAIN queue' :
            log[i].run = run => log[i].row < queue'[j].row
      BY <1>2, <2>0
  <2>4. \A i \in DOMAIN log', j \in DOMAIN queue' :
            log'[i].run = run => log'[i].row < queue'[j].row
      BY <1>6, <2>2, <2>3
  <2>5. \A m \in inflight', i \in DOMAIN log' :
            log'[i].run = m.run => log'[i].row < m.row
      BY <1>5
  <2> QED
      BY <1>4, <1>5, <2>1, <2>4, <2>5 DEF OrderInv
<1>14. BatchInv'
  <2>1. \A i \in DOMAIN queue : queue[i].row <= position /\ ~InBatch(queue[i].row)
      BY <1>7 DEF RCInv, BatchInv
  <2>2. \A i \in DOMAIN log : log[i].run = run =>
            log[i].row <= position /\ (log[i].row = waiting \/ ~InBatch(log[i].row))
      BY <1>7 DEF RCInv, BatchInv
  <2>3. \A i \in DOMAIN log' : log'[i].run = run =>
            log'[i].row <= position /\ (log'[i].row = waiting \/ ~InBatch(log'[i].row))
      BY <1>2, <1>6, <2>1, <2>2
  <2>4. \A i \in DOMAIN queue' : queue'[i].row <= position /\ ~InBatch(queue'[i].row)
      BY <1>2, <2>1
  <2>5. /\ \A i \in DOMAIN queue' : queue'[i].row <= position /\ ~InBatch(queue[i].row)'
        /\ \A i \in DOMAIN log' : log'[i].run = run =>
              log'[i].row <= position /\ (log'[i].row = waiting \/ ~InBatch(log[i].row)')
      BY <1>10, <2>3, <2>4 DEF InBatch
  <2>6. /\ \A i, j \in DOMAIN batch : i < j => batch[i] < batch[j]
        /\ \A j \in DOMAIN batch : batch[j] <= position
        /\ \A x \in AcceptedRows : x <= position /\ ~InBatch(x) =>
              \A j \in DOMAIN batch : x < batch[j]
      BY <1>7 DEF RCInv, BatchInv
  <2> QED
      BY <1>4, <1>8, <1>10, <2>5, <2>6 DEF BatchInv
<1>15. DeliveredInv'
  <2>1. ASSUME NEW x \in AcceptedRows, x <= position, ~InBatch(x)
        PROVE  InLog(run, x)' \/ InQueue(x)' \/ Failed'
    <3>1. InLog(run, x) \/ InQueue(x) \/ Failed
        BY <1>7, <2>1 DEF RCInv, DeliveredInv
    <3>2. CASE InLog(run, x)
        BY <1>4, <1>5, <3>2
    <3>3. /\ reports \in Seq([message : Messages, failed : BOOLEAN])
          /\ reports' = Append(reports, [message |-> Head(queue), failed |-> failed])
          /\ errors' = errors
        BY DEF RCInv, MessagesOK, Settle
    <3>4. /\ \A i \in DOMAIN reports : i \in DOMAIN reports' /\ reports'[i] = reports[i]
          /\ Len(reports) + 1 \in DOMAIN reports' /\ reports'[Len(reports) + 1].failed = failed
        BY <3>3
    <3>5. CASE Failed
        BY <3>3, <3>4, <3>5 DEF Failed
    <3>6. ASSUME NEW j \in DOMAIN queue, queue[j].row = x
          PROVE  InLog(run, x)' \/ InQueue(x)' \/ Failed'
      <4>1. CASE \E k \in DOMAIN queue' : queue[j] = queue'[k]
          BY <3>6, <4>1 DEF InQueue
      <4>2. CASE j = 1 /\ n = 0
          BY <3>4, <4>2 DEF Failed
      <4>3. CASE j = 1 /\ n # 0
        <5>1. 1 \in 1..n
            BY <1>3, <4>3
        <5> QED
            BY <1>5, <3>6, <4>3, <5>1
      <4> QED
          BY <1>2, <4>1, <4>2, <4>3
    <3> QED
        BY <3>1, <3>2, <3>5, <3>6 DEF InQueue
  <2>2. \A o \in outcomes : o.exit = "ok" /\ o.command # "replay" =>
            \A x \in AcceptedRows : InLog(o.run, x)'
    <3>1. \A o \in outcomes : o.exit = "ok" /\ o.command # "replay" =>
              \A x \in AcceptedRows : InLog(o.run, x)
        BY DEF RCInv, DeliveredInv
    <3>2. \A r, x : InLog(r, x) => InLog(r, x)'
        BY <1>5
    <3> QED
        BY <3>1, <3>2
  <2> QED
      BY <1>4, <1>8, <1>10, <2>1, <2>2 DEF DeliveredInv
<1>16. GapInv'
  <2>1. \A v \in Invocations : v.command = "http" =>
            \A i \in DOMAIN log' : log'[i].run = v.run => Gapless(log[i])'
      BY <1>5 DEF Gapless, Postable, EventOf
  <2> QED
      BY <1>5, <1>8, <2>1 DEF GapInv
<1> QED
    BY <1>8, <1>11, <1>12, <1>13, <1>14, <1>15, <1>16 DEF RCInv

LEMMA BrokerSteps ==
    ASSUME RCInv, Acknowledge \/ Expire
    PROVE  RCInv'
<1>1. Elsewhere /\ UNCHANGED <<inflight, waiting>> /\ queue # << >>
    BY DEF Acknowledge, Expire, BrokerAcknowledges, DeliveryFails, Elsewhere,
           readerVars, ingressVars
<1>2. log = log \o SubSeq(queue, 1, 0) /\ Append(log, Head(queue)) = log \o SubSeq(queue, 1, 1)
    BY <1>1, Typed, FirstMessages
<1>3. CASE Acknowledge
  <2>1. Settle(FALSE) /\ log' = log \o SubSeq(queue, 1, 1)
      BY <1>2, <1>3 DEF Acknowledge, BrokerAcknowledges
  <2>2. PICK n \in {0, 1} : n # 0 /\ log' = log \o SubSeq(queue, 1, n)
      BY <2>1
  <2>3. PICK failed \in BOOLEAN : ~failed /\ Settle(failed)
      BY <2>1
  <2> QED
      BY <1>1, <2>2, <2>3, SettledStep
<1>4. CASE Expire
  <2>1. Settle(TRUE) /\ \E n \in {0, 1} : log' = log \o SubSeq(queue, 1, n)
      BY <1>2, <1>4 DEF Expire, DeliveryFails
  <2>2. PICK n \in {0, 1} : log' = log \o SubSeq(queue, 1, n)
      BY <2>1
  <2> QED
      BY <1>1, <2>1, <2>2, SettledStep
<1> QED
    BY <1>3, <1>4

\* A message of the current run with the API is the row it waits for.
LEMMA OwnMessage ==
    ASSUME RCInv, NEW m \in inflight, m.run = run
    PROVE  /\ queue = << >> /\ args.command = "http"
           /\ Running => /\ waiting = m.row /\ m.row = batch[1] /\ 1 \in DOMAIN batch
                         /\ batch[1] <= position
<1>1. args.command = "http" /\ (exit = "running" => waiting = m.row)
    BY DEF RCInv, SinkInv
<1>2. queue = << >>
    BY QueueOfPublisher
<1>3. ASSUME Running
      PROVE  /\ waiting = m.row /\ m.row = batch[1] /\ 1 \in DOMAIN batch
             /\ batch[1] <= position
  <2>1. waiting = m.row /\ m.row # NoRow
      BY <1>1, <1>3, MessageTyped DEF Running, NoRow
  <2>2. batch # << >> /\ waiting = batch[1]
      BY <2>1 DEF RCInv, SinkInv
  <2>3. 1 \in DOMAIN batch
      BY <2>2, Typed
  <2> QED
      BY <1>3, <2>1, <2>2, <2>3 DEF RCInv, BatchInv
<1> QED
    BY <1>1, <1>2, <1>3

\* The API writes m, or drops it.
LEMMA ApiStep ==
    ASSUME RCInv, NEW m \in inflight, NEW s, s = << >> \/ s = << m >>, log' = log \o s,
           inflight' = inflight \ {m}, UNCHANGED <<queue, reports, errors, waiting>>,
           Elsewhere
    PROVE  RCInv'
<1>1. m \in Messages /\ m.run \in Nat /\ m.row \in Nat \ {0} /\ Sendable(m)
  <2>1. Sendable(m)
      BY DEF RCInv, MessagesOK
  <2> QED
      BY <2>1, MessageTyped
<1>2. /\ s \in Seq(Messages) /\ \A k \in DOMAIN s : s[k] = m
      /\ \A k, l \in DOMAIN s : ~(k < l)
  <2>1. CASE s = << >>
      BY <2>1
  <2>2. CASE s = << m >>
      BY <1>1, <2>2
  <2> QED
      BY <2>1, <2>2
<1>3. /\ log' \in Seq(Messages)
      /\ \A r, x : InLog(r, x)' <=> \/ InLog(r, x)
                                    \/ \E k \in DOMAIN s : s[k].run = r /\ s[k].row = x
      /\ \A i \in DOMAIN log' : \/ i \in DOMAIN log /\ log'[i] = log[i]
                                \/ \E k \in DOMAIN s : i = Len(log) + k /\ log'[i] = s[k]
    BY <1>2, LogGrows
<1>4. /\ \A i \in DOMAIN log' : (i \in DOMAIN log /\ log'[i] = log[i]) \/ log'[i] = m
      /\ \A r, x : InLog(r, x) => InLog(r, x)'
    BY <1>2, <1>3
<1>5. \A r \in Nat : PublishedInOrder(r)'
  <2>1. \A i \in DOMAIN log, k \in DOMAIN s : log[i].run = s[k].run => log[i].row < s[k].row
      BY <1>2 DEF RCInv, OrderInv
  <2> QED
      BY <1>2, <2>1, OrderGrows
<1>6. rows' = rows /\ run' = run /\ args' = args /\ position' = position /\ outcomes' = outcomes
    BY DEF Elsewhere
<1>7. /\ ClientTypeOK' /\ OutcomeInv' /\ StatsInv' /\ FileInv'
      /\ OutputKeptUnlessForced'
      /\ Invocations' = Invocations /\ (Running' <=> Running)
      /\ \A x : InBatch(x)' <=> InBatch(x)
  <2>1. waiting' \in 0..Len(rows)
      BY DEF RCInv, ClientTypeOK
  <2> QED
      BY <2>1, ElsewhereAlone
<1>8. /\ UNCHANGED <<AcceptedRows, batch, queue>>
      /\ \A l : Sendable(l)' <=> Sendable(l)
      /\ Failed' <=> Failed
      /\ \A x : InQueue(x)' <=> InQueue(x)
  <2>1. UNCHANGED AcceptedRows
      BY <1>6, RowsAlone
  <2>2. UNCHANGED <<batch, queue>>
      BY DEF Elsewhere
  <2>3. \A l : Sendable(l)' <=> Sendable(l)
      BY <1>6, <2>1 DEF Sendable
  <2>4. Failed' <=> Failed
      BY DEF Failed
  <2>5. \A x : InQueue(x)' <=> InQueue(x)
      BY DEF InQueue
  <2> QED
      BY <2>1, <2>2, <2>3, <2>4, <2>5
<1>9. MessagesOK'
  <2>1. \A i \in DOMAIN log' : Sendable(log[i])'
    <3>1. \A i \in DOMAIN log : Sendable(log[i])
        BY DEF RCInv, MessagesOK
    <3> QED
        BY <1>1, <1>4, <1>6, <1>8, <3>1 DEF Sendable
  <2>2. \A i \in DOMAIN queue' : Sendable(queue[i])'
      BY <1>6, <1>8 DEF RCInv, MessagesOK, Sendable
  <2>3. queue' \in Seq(Messages) /\ reports' \in Seq([message : Messages, failed : BOOLEAN])
      BY DEF RCInv, MessagesOK
  <2>4. batch' \in Seq(Nat) /\ \A i \in DOMAIN batch' : batch'[i] \in AcceptedRows'
      BY <1>8 DEF RCInv, MessagesOK
  <2>5. inflight' \subseteq Messages /\ \A l \in inflight' : Sendable(l)'
      BY <1>8 DEF RCInv, MessagesOK
  <2> QED
      BY <1>3, <2>1, <2>2, <2>3, <2>4, <2>5 DEF MessagesOK
<1>10. SinkInv'
  <2>1. exit' = exit
      BY DEF Elsewhere
  <2> QED
      BY <1>6, <1>7, <1>8, <2>1 DEF RCInv, SinkInv
<1>11. OrderInv'
  <2>1. ASSUME NEW l \in inflight', NEW i \in DOMAIN log', log'[i].run = l.run
        PROVE  log'[i].row < l.row
    <3>1. l.run # m.run
        BY DEF RCInv, SinkInv
    <3>2. i \in DOMAIN log /\ log'[i] = log[i]
        BY <1>4, <2>1, <3>1
    <3> QED
        BY <2>1, <3>2 DEF RCInv, OrderInv
  <2>2. ASSUME NEW i \in DOMAIN log', NEW j \in DOMAIN queue', log'[i].run = run
        PROVE  log'[i].row < queue'[j].row
    <3>1. queue # << >>
        BY <1>8, Typed
    <3>2. m.run # run
        BY <3>1, QueueOfPublisher
    <3>3. i \in DOMAIN log /\ log'[i] = log[i]
        BY <1>4, <2>2, <3>2
    <3> QED
        BY <1>8, <2>2, <3>3 DEF RCInv, OrderInv
  <2>3. \A i, j \in DOMAIN queue' : i < j => queue'[i].row < queue'[j].row
      BY DEF RCInv, OrderInv
  <2> QED
      BY <1>5, <1>6, <2>1, <2>2, <2>3 DEF OrderInv
<1>12. BatchInv'
  <2>1. Running => \A i \in DOMAIN log : log[i].run = run =>
            log[i].row <= position /\ (log[i].row = waiting \/ ~InBatch(log[i].row))
      BY DEF RCInv, BatchInv
  <2>2. Running => \A i \in DOMAIN log' : log'[i].run = run =>
            log'[i].row <= position /\ (log'[i].row = waiting \/ ~InBatch(log'[i].row))
    <3>1. Running /\ m.run = run => m.row <= position /\ m.row = waiting
        BY OwnMessage
    <3> QED
        BY <1>4, <2>1, <3>1
  <2>3. Running => \A i \in DOMAIN log' : log'[i].run = run =>
            log'[i].row <= position /\ (log'[i].row = waiting \/ ~InBatch(log[i].row)')
      BY <1>8, <2>2 DEF InBatch
  <2>4. Running => \A i \in DOMAIN queue' :
            queue'[i].row <= position /\ ~InBatch(queue[i].row)'
      BY <1>8 DEF RCInv, BatchInv, InBatch
  <2>5. Running =>
        /\ \A i, j \in DOMAIN batch : i < j => batch[i] < batch[j]
        /\ \A j \in DOMAIN batch : batch[j] <= position
        /\ \A x \in AcceptedRows : x <= position /\ ~InBatch(x) =>
              \A j \in DOMAIN batch : x < batch[j]
      BY DEF RCInv, BatchInv
  <2> QED
      BY <1>6, <1>7, <1>8, <2>3, <2>4, <2>5 DEF BatchInv
<1>13. DeliveredInv'
    BY <1>4, <1>6, <1>7, <1>8 DEF RCInv, DeliveredInv
<1>14. GapInv'
  <2>1. \A l : Gapless(l) => Gapless(l)'
      BY <1>4, <1>6, GaplessStays
  <2>2. \A l \in inflight : Gapless(l)
      BY DEF RCInv, GapInv
  <2>3. ASSUME NEW v \in Invocations, v.command = "http",
               NEW l, NEW i \in DOMAIN log', log'[i] = l, l.run = v.run
        PROVE  Gapless(l)'
    <3>1. CASE log'[i] = m
        BY <2>1, <2>2, <2>3, <3>1
    <3>2. CASE i \in DOMAIN log /\ log'[i] = log[i]
      <4>1. Gapless(log[i])
          BY <2>3, <3>2 DEF RCInv, GapInv
      <4> QED
          BY <2>1, <2>3, <3>2, <4>1
    <3> QED
        BY <1>4, <3>1, <3>2
  <2>4. \A v \in Invocations : v.command = "http" =>
            \A i \in DOMAIN log' : log'[i].run = v.run => Gapless(log[i])'
      BY <2>3 DEF Gapless, Postable, EventOf
  <2> QED
      BY <1>7, <2>1, <2>2, <2>4 DEF GapInv
<1> QED
    BY <1>7, <1>9, <1>10, <1>11, <1>12, <1>13, <1>14 DEF RCInv

LEMMA ApiSteps ==
    ASSUME RCInv, ApiWrites \/ ApiDrops
    PROVE  RCInv'
<1>1. Elsewhere /\ UNCHANGED <<queue, reports, errors, waiting>>
    BY DEF ApiWrites, ApiDrops, Elsewhere, readerVars
<1>2. log \in Seq(Messages)
    BY Typed
<1>3. PICK m \in inflight : Ingress!Write(m) \/ Ingress!Drop(m)
    BY DEF ApiWrites, ApiDrops
<1>4. inflight' = inflight \ {m} /\ log' \in {log, Append(log, m)}
    BY <1>3 DEF Ingress!Write, Ingress!Drop
<1>5. m \in Messages
    BY MessageTyped
<1>6. log = log \o << >> /\ Append(log, m) = log \o << m >>
    BY <1>2, <1>5
<1> QED
    BY <1>1, <1>4, <1>6, ApiStep

-----------------------------------------------------------------------------
(* The row in hand. *)

LEMMA RowInHand ==
    ASSUME RCInv, Running, batch # << >>
    PROVE  /\ Head(batch) = batch[1] /\ 1 \in DOMAIN batch /\ InBatch(batch[1])
           /\ batch[1] \in AcceptedRows /\ batch[1] \in Nat \ {0}
           /\ batch[1] <= position /\ batch[1] \in 0..Len(rows)
           /\ \A j \in DOMAIN batch : j = 1 \/ batch[1] < batch[j]
           /\ \A x \in AcceptedRows : x <= position /\ ~InBatch(x) => x < batch[1]
           /\ \A x \in AcceptedRows : x < batch[1] => x <= position /\ ~InBatch(x)
           /\ Message(batch[1]) \in Messages /\ Sendable(Message(batch[1]))
           /\ Message(batch[1]).run = run /\ Message(batch[1]).row = batch[1]
<1>1. /\ batch \in Seq(Nat) /\ Len(batch) \in Nat /\ DOMAIN batch = 1..Len(batch)
      /\ run \in Nat /\ position \in Nat
    BY Typed
<1>2. Head(batch) = batch[1] /\ 1 \in DOMAIN batch
    BY <1>1
<1>3. batch[1] \in AcceptedRows /\ batch[1] \in Nat \ {0} /\ batch[1] \in 0..Len(rows)
  <2>1. batch[1] \in AcceptedRows
      BY <1>2 DEF RCInv, MessagesOK
  <2> QED
      BY <2>1, RowsTyped
<1>4. /\ \A i, j \in DOMAIN batch : i < j => batch[i] < batch[j]
      /\ \A j \in DOMAIN batch : batch[j] <= position
      /\ \A x \in AcceptedRows : x <= position /\ ~InBatch(x) =>
            \A j \in DOMAIN batch : x < batch[j]
    BY DEF RCInv, BatchInv
<1>5. \A j \in DOMAIN batch : batch[j] \in Nat /\ (j = 1 \/ 1 < j)
    BY <1>1
<1>6. \A j \in DOMAIN batch : j = 1 \/ batch[1] < batch[j]
    BY <1>2, <1>4, <1>5
<1>7. ASSUME NEW x \in AcceptedRows, x < batch[1]
      PROVE  x <= position /\ ~InBatch(x)
  <2>1. x \in Nat
      BY RowsTyped
  <2>2. x <= position
      BY <1>1, <1>2, <1>3, <1>4, <1>7, <2>1
  <2>3. \A j \in DOMAIN batch : batch[j] # x
      BY <1>3, <1>5, <1>6, <1>7, <2>1
  <2> QED
      BY <2>2, <2>3 DEF InBatch
<1>8. Message(batch[1]) \in Messages /\ Sendable(Message(batch[1]))
    BY <1>1, <1>3 DEF Message, Messages, Sendable, Running
<1> QED
    BY <1>2, <1>3, <1>4, <1>6, <1>7, <1>8 DEF InBatch, Message

\* The queue and the topic hold rows before the one in hand.
LEMMA BeforeTheRowInHand ==
    ASSUME RCInv, Running, batch # << >>
    PROVE  /\ \A i \in DOMAIN queue : queue[i].row < batch[1]
           /\ \A i \in DOMAIN log : log[i].run = run /\ log[i].row # waiting =>
                 log[i].row < batch[1]
<1>1. \A x \in AcceptedRows : x <= position /\ ~InBatch(x) => x < batch[1]
    BY RowInHand
<1>2. /\ \A i \in DOMAIN queue : queue[i].row \in AcceptedRows
      /\ \A i \in DOMAIN log : log[i].row \in AcceptedRows
    BY DEF RCInv, MessagesOK, Sendable
<1>3. /\ \A i \in DOMAIN queue : queue[i].row <= position /\ ~InBatch(queue[i].row)
      /\ \A i \in DOMAIN log : log[i].run = run =>
            /\ log[i].row <= position
            /\ log[i].row = waiting \/ ~InBatch(log[i].row)
    BY DEF RCInv, BatchInv
<1> QED
    BY <1>1, <1>2, <1>3

LEMMA PostStep ==
    ASSUME RCInv, Post
    PROVE  RCInv'
<1> DEFINE new == Message(batch[1])
<1>1. /\ Running /\ args.command = "http" /\ batch # << >> /\ waiting = NoRow
      /\ Elsewhere /\ UNCHANGED <<log, queue, reports, errors>>
    BY DEF Post, ReadyToEmit, Elsewhere, readerVars, Ingress!Submit, ingressVars
<1>2. /\ Head(batch) = batch[1] /\ 1 \in DOMAIN batch /\ InBatch(batch[1])
      /\ batch[1] \in AcceptedRows /\ batch[1] \in Nat \ {0}
      /\ batch[1] <= position /\ batch[1] \in 0..Len(rows)
      /\ \A x \in AcceptedRows : x < batch[1] => x <= position /\ ~InBatch(x)
      /\ new \in Messages /\ Sendable(new)
      /\ new.run = run /\ new.row = batch[1]
    BY <1>1, RowInHand
<1>3. waiting' = batch[1]
    BY <1>2 DEF Post
<1>4. Message(waiting') = new /\ Message(waiting)' = new
    BY <1>1, <1>3 DEF Message, Elsewhere
<1>5. inflight' = inflight \/ (inflight' = inflight \cup {new} /\ Postable(new))
    BY <1>4 DEF Post, Ingress!Submit, ingressVars
<1> HIDE DEF new
<1>6. /\ ClientTypeOK' /\ OutcomeInv' /\ StatsInv' /\ FileInv'
      /\ OutputKeptUnlessForced'
      /\ Invocations' = Invocations /\ (Running' <=> Running)
      /\ \A x : InBatch(x)' <=> InBatch(x)
    BY <1>1, <1>2, <1>3, ElsewhereAlone
<1>7. /\ rows' = rows /\ run' = run /\ args' = args /\ position' = position
      /\ outcomes' = outcomes /\ exit' = exit
      /\ UNCHANGED <<AcceptedRows, batch, queue, log, reports, errors>>
      /\ \A l : Sendable(l)' <=> Sendable(l)
      /\ \A r, x : InLog(r, x)' <=> InLog(r, x)
  <2>1. rows' = rows /\ run' = run /\ args' = args /\ position' = position /\ batch' = batch
        /\ outcomes' = outcomes /\ exit' = exit
      BY <1>1 DEF Elsewhere
  <2>2. AcceptedRows' = AcceptedRows
      BY <2>1, RowsAlone
  <2>3. \A l : Sendable(l)' <=> Sendable(l)
      BY <2>1, <2>2 DEF Sendable
  <2> QED
      BY <1>1, <2>1, <2>2, <2>3 DEF InLog
<1>8. \A m \in inflight : m.run # run
    BY <1>1, OwnMessage, MessageTyped DEF NoRow
<1>9. queue = << >> /\ reports = << >> /\ errors = {}
    BY <1>1 DEF RCInv, SinkInv
<1>10. MessagesOK'
  <2>1. /\ \A i \in DOMAIN log : Sendable(log[i])
        /\ \A i \in DOMAIN queue : Sendable(queue[i])
        /\ log \in Seq(Messages) /\ queue \in Seq(Messages)
        /\ batch \in Seq(Nat) /\ \A i \in DOMAIN batch : batch[i] \in AcceptedRows
        /\ reports \in Seq([message : Messages, failed : BOOLEAN])
        /\ inflight \subseteq Messages /\ \A m \in inflight : Sendable(m)
      BY DEF RCInv, MessagesOK
  <2>2. inflight' \subseteq Messages /\ \A m \in inflight' : Sendable(m)'
      BY <1>2, <1>5, <1>7, <2>1
  <2>3. /\ \A i \in DOMAIN log' : Sendable(log[i])'
        /\ \A i \in DOMAIN queue' : Sendable(queue[i])'
      BY <1>7, <2>1 DEF Sendable
  <2> QED
      BY <1>7, <2>1, <2>2, <2>3 DEF MessagesOK
<1>11. SinkInv'
  <2>1. \A m, n \in inflight' : m.run = n.run => m = n
      BY <1>2, <1>5, <1>8 DEF RCInv, SinkInv
  <2>2. \A m \in inflight' : m.run = run => m.row = batch[1]
      BY <1>2, <1>5, <1>8
  <2> QED
      BY <1>1, <1>3, <1>6, <1>7, <1>9, <2>1, <2>2 DEF SinkInv
<1>12. OrderInv'
  <2>1. \A i \in DOMAIN log : log[i].run = run => log[i].row < batch[1]
      BY <1>1, BeforeTheRowInHand, MessageTyped DEF NoRow
  <2>2. \A m \in inflight', i \in DOMAIN log' : log'[i].run = m.run => log'[i].row < m.row
    <3>1. \A m \in inflight, i \in DOMAIN log : log[i].run = m.run => log[i].row < m.row
        BY DEF RCInv, OrderInv
    <3> QED
        BY <1>2, <1>5, <1>7, <2>1, <3>1
  <2>3. \A r \in Nat : PublishedInOrder(r)'
      BY <1>7 DEF RCInv, OrderInv, PublishedInOrder
  <2> QED
      BY <1>7, <1>9, <2>2, <2>3 DEF OrderInv
<1>13. BatchInv'
  <2>1. \A i \in DOMAIN log : log[i].run = run =>
            log[i].row <= position /\ ~InBatch(log[i].row)
      BY <1>1, MessageTyped DEF RCInv, BatchInv, NoRow
  <2>2. \A i \in DOMAIN log' : log'[i].run = run' =>
            log'[i].row <= position' /\ ~InBatch(log[i].row)'
      BY <1>7, <2>1 DEF InBatch
  <2>3. /\ \A i, j \in DOMAIN batch : i < j => batch[i] < batch[j]
        /\ \A j \in DOMAIN batch : batch[j] <= position
        /\ \A x \in AcceptedRows : x <= position /\ ~InBatch(x) =>
              \A j \in DOMAIN batch : x < batch[j]
      BY <1>1 DEF RCInv, BatchInv
  <2> QED
      BY <1>6, <1>7, <1>9, <2>2, <2>3 DEF BatchInv
<1>14. DeliveredInv'
    BY <1>6, <1>7 DEF RCInv, DeliveredInv, InQueue, Failed
<1>15. GapInv'
  <2>1. \A l : Gapless(l) => Gapless(l)'
      BY <1>7, GaplessStays
  <2>2. Postable(new) => Gapless(new)
    <3>1. ~Failed /\ \A x : ~InQueue(x)
        BY <1>9 DEF Failed, InQueue
    <3>2. \A x \in AcceptedRows : x < batch[1] => InLog(run, x)
        BY <1>1, <1>2, <3>1 DEF RCInv, DeliveredInv
    <3> QED
        BY <1>2, <3>2 DEF Gapless
  <2>3. \A m \in inflight' : Gapless(m)'
      BY <1>5, <2>1, <2>2 DEF RCInv, GapInv
  <2>4. \A v \in Invocations : v.command = "http" =>
            \A i \in DOMAIN log : log[i].run = v.run => Gapless(log[i])
      BY DEF RCInv, GapInv
  <2>5. \A v \in Invocations : v.command = "http" =>
            \A i \in DOMAIN log' : log'[i].run = v.run => Gapless(log[i])'
    <3>1. \A v \in Invocations : v.command = "http" =>
              \A l : (\E i \in DOMAIN log : log[i] = l) /\ l.run = v.run => Gapless(l)'
        BY <2>1, <2>4
    <3> QED
        BY <1>7, <3>1 DEF Gapless, Postable, EventOf
  <2> QED
      BY <1>6, <2>3, <2>5 DEF GapInv
<1> QED
    BY <1>6, <1>10, <1>11, <1>12, <1>13, <1>14, <1>15 DEF RCInv

LEMMA EmittedFacts ==
    ASSUME RCInv, Running, batch # << >>, Emitted
    PROVE  /\ rows' = rows /\ run' = run /\ args' = args /\ position' = position
           /\ exit' = exit /\ outcomes' = outcomes /\ AcceptedRows' = AcceptedRows
           /\ batch' \in Seq(Nat) /\ \A i \in DOMAIN batch' : batch'[i] \in AcceptedRows
           /\ \A x : InBatch(x)' <=> InBatch(x) /\ x # batch[1]
           /\ \A i, j \in DOMAIN batch' : i < j => batch'[i] < batch'[j]
           /\ \A j \in DOMAIN batch' : batch'[j] <= position
           /\ \A x \in AcceptedRows : x <= position /\ ~InBatch(x)' =>
                 \A j \in DOMAIN batch' : x < batch'[j]
           /\ OutcomeInv' /\ StatsInv' /\ Invocations' = Invocations /\ Running'
           /\ \A l : Sendable(l)' <=> Sendable(l)
           /\ waiting' \in 0..Len(rows) => ClientTypeOK'
<1> DEFINE h == batch[1]
<1>1. /\ batch \in Seq(Nat) /\ Len(batch) \in Nat /\ DOMAIN batch = 1..Len(batch)
      /\ position \in Nat
    BY Typed
<1>2. /\ rows' = rows /\ run' = run /\ args' = args /\ position' = position
      /\ exit' = exit /\ outcomes' = outcomes /\ batch' = Tail(batch)
    BY DEF Emitted
<1>3. /\ Len(batch) \in Nat \ {0} /\ 1 \in DOMAIN batch
      /\ batch' \in Seq(Nat) /\ DOMAIN batch' = 1..(Len(batch) - 1)
      /\ \A j \in DOMAIN batch' : j + 1 \in DOMAIN batch /\ batch'[j] = batch[j + 1]
      /\ \A j \in DOMAIN batch : j = 1 \/ (j - 1 \in DOMAIN batch' /\ batch[j] = batch'[j - 1])
      /\ Len(batch') = Len(batch) - 1
    BY <1>1, <1>2, TailFacts
<1>4. /\ AcceptedRows' = AcceptedRows
      /\ \A l : Sendable(l)' <=> Sendable(l)
    BY <1>2, RowsAlone DEF Sendable
<1>5. /\ \A j \in DOMAIN batch : j = 1 \/ h < batch[j]
      /\ h \in Nat /\ InBatch(h) /\ h <= position
    BY RowInHand
<1>6. \A j \in DOMAIN batch' : j \in Nat \ {0} /\ j + 1 # 1
    BY <1>3
<1>7. \A j \in DOMAIN batch' : h < batch'[j] /\ batch'[j] \in Nat
    BY <1>1, <1>3, <1>5, <1>6
<1>8. \A x : InBatch(x)' <=> InBatch(x) /\ x # h
  <2>1. \A x : InBatch(x)' => InBatch(x) /\ x # h
      BY <1>3, <1>5, <1>7 DEF InBatch
  <2>2. \A x : InBatch(x) /\ x # h => InBatch(x)'
      BY <1>3 DEF InBatch
  <2> QED
      BY <2>1, <2>2
<1>9. /\ \A i, j \in DOMAIN batch : i < j => batch[i] < batch[j]
      /\ \A j \in DOMAIN batch : batch[j] <= position
      /\ \A x \in AcceptedRows : x <= position /\ ~InBatch(x) =>
            \A j \in DOMAIN batch : x < batch[j]
    BY DEF RCInv, BatchInv
<1>10. \A i, j \in DOMAIN batch' : i < j => batch'[i] < batch'[j]
  <2>1. \A i, j \in DOMAIN batch' : i < j => i + 1 < j + 1
      BY <1>6
  <2> QED
      BY <1>3, <1>9, <2>1
<1>11. \A j \in DOMAIN batch' : batch'[j] <= position
    BY <1>3, <1>9
<1>12. \A x \in AcceptedRows : x <= position /\ ~InBatch(x)' =>
           \A j \in DOMAIN batch' : x < batch'[j]
  <2> SUFFICES ASSUME NEW x \in AcceptedRows, x <= position, ~InBatch(x)',
                      NEW j \in DOMAIN batch'
               PROVE  x < batch'[j]
      OBVIOUS
  <2>1. CASE x = h
      BY <1>7, <2>1
  <2>2. CASE ~InBatch(x)
      BY <1>3, <1>9, <2>2
  <2> QED
      BY <1>8, <2>1, <2>2
<1>13. \A i \in DOMAIN batch' : batch'[i] \in AcceptedRows
    BY <1>3 DEF RCInv, MessagesOK
<1>14. OutcomeInv' /\ Invocations' = Invocations /\ Running'
    BY <1>2, OutcomesAlone
<1>15. stats \in [rows : Nat, emitted : Nat, invalid : Nat, batches : Nat]
    BY DEF RCInv, ClientTypeOK
<1>16. stats' = [stats EXCEPT !.emitted = @ + 1]
    BY DEF Emitted
<1>17. /\ stats'.emitted = stats.emitted + 1 /\ stats.emitted \in Nat
       /\ stats'.rows = stats.rows /\ stats'.invalid = stats.invalid
    BY <1>15, <1>16
<1>18. stats' \in [rows : Nat, emitted : Nat, invalid : Nat, batches : Nat]
    BY <1>15, <1>16
<1>19. StatsInv'
  <2>1. /\ stats.rows = position
        /\ stats.emitted + Len(batch) = Cardinality(RowsUpTo(position))
        /\ stats.invalid = Cardinality(RejectedUpTo(position))
      BY DEF RCInv, StatsInv
  <2>2. RowsUpTo(position)' = RowsUpTo(position) /\ RejectedUpTo(position)' = RejectedUpTo(position)
      BY <1>2, RowsAlone DEF RowsUpTo, RejectedUpTo
  <2>3. stats'.emitted + Len(batch') = stats.emitted + Len(batch)
      BY <1>3, <1>17
  <2>4. exit' # "ok"
      BY <1>14 DEF Running
  <2> QED
      BY <1>2, <1>17, <2>1, <2>2, <2>3, <2>4 DEF StatsInv
<1>20. waiting' \in 0..Len(rows) => ClientTypeOK'
    BY <1>2, <1>18 DEF RCInv, ClientTypeOK
<1> QED
    BY <1>2, <1>3, <1>4, <1>8, <1>10, <1>11, <1>12, <1>13, <1>14, <1>19, <1>20

\* What is in the topic and with the API when neither moves.
LEMMA TopicAlone ==
    ASSUME RCInv, UNCHANGED <<rows, run, log, inflight>>
    PROVE  /\ log' \in Seq(Messages) /\ \A i \in DOMAIN log' : Sendable(log[i])'
           /\ inflight' \subseteq Messages /\ \A m \in inflight' : Sendable(m)'
           /\ \A r \in Nat : PublishedInOrder(r)'
           /\ \A m \in inflight', i \in DOMAIN log' :
                 log'[i].run = m.run => log'[i].row < m.row
           /\ \A m, n \in inflight' : m.run = n.run => m = n
           /\ \A r, x : InLog(r, x)' <=> InLog(r, x)
           /\ \A m \in inflight' : Gapless(m)'
           /\ Invocations' = Invocations => GapInv'
           /\ UNCHANGED <<outcomes>> =>
                 \A o \in outcomes' : o.exit = "ok" /\ o.command # "replay" =>
                     \A x \in AcceptedRows' : InLog(o.run, x)'
<1>1. /\ AcceptedRows' = AcceptedRows
      /\ \A l : Sendable(l)' <=> Sendable(l)
    BY RowsAlone DEF Sendable
<1>2. \A r, x : InLog(r, x)' <=> InLog(r, x)
    BY DEF InLog
<1>3. \A l : Gapless(l) => Gapless(l)'
    BY <1>2, GaplessStays
<1>4. /\ log' \in Seq(Messages) /\ inflight' \subseteq Messages
      /\ \A m \in inflight' : Sendable(m)'
    BY <1>1 DEF RCInv, MessagesOK
<1>5. \A i \in DOMAIN log' : Sendable(log[i])'
    BY <1>1 DEF RCInv, MessagesOK, Sendable
<1>6. \A r \in Nat : PublishedInOrder(r)'
    BY DEF RCInv, OrderInv, PublishedInOrder
<1>7. /\ \A m \in inflight', i \in DOMAIN log' :
            log'[i].run = m.run => log'[i].row < m.row
      /\ \A m, n \in inflight' : m.run = n.run => m = n
    BY DEF RCInv, OrderInv, SinkInv
<1>8. \A m \in inflight' : Gapless(m)'
    BY <1>3 DEF RCInv, GapInv
<1>9. ASSUME Invocations' = Invocations
      PROVE  GapInv'
  <2>1. \A v \in Invocations : v.command = "http" =>
            \A i \in DOMAIN log : log[i].run = v.run => Gapless(log[i])
      BY DEF RCInv, GapInv
  <2>2. \A v \in Invocations : v.command = "http" =>
            \A l : (\E i \in DOMAIN log : log[i] = l) /\ l.run = v.run => Gapless(l)'
      BY <1>3, <2>1
  <2>3. \A v \in Invocations : v.command = "http" =>
            \A i \in DOMAIN log' : log'[i].run = v.run => Gapless(log[i])'
      BY <2>2 DEF Gapless, Postable, EventOf
  <2> QED
      BY <1>8, <1>9, <2>3 DEF GapInv
<1>10. UNCHANGED <<outcomes>> =>
           \A o \in outcomes' : o.exit = "ok" /\ o.command # "replay" =>
               \A x \in AcceptedRows' : InLog(o.run, x)'
    BY <1>1, <1>2 DEF RCInv, DeliveredInv
<1> QED
    BY <1>2, <1>4, <1>5, <1>6, <1>7, <1>8, <1>9, <1>10

-----------------------------------------------------------------------------
(* What is written to an output. *)

LEMMA WrittenIsInitial ==
    ASSUME RCInv, Running
    PROVE  \A f \in OutputNames : Initial(WrittenRows(f), Due(f))
<1>1. \A x \in AcceptedRows : x <= position /\ ~InBatch(x) =>
          \A j \in DOMAIN batch : x < batch[j]
    BY DEF RCInv, BatchInv
<1>2. /\ \A x \in AcceptedRows : x \in Nat
      /\ \A x \in RejectedRows : x \in Nat
      /\ position \in Nat
    BY RowsTyped, Typed
<1>3. Initial(WrittenRows("events"), Due("events"))
  <2>1. ASSUME NEW x \in WrittenRows("events"), NEW y \in AcceptedRows, y < x
        PROVE  y \in WrittenRows("events")
    <3>1. x \in AcceptedRows /\ x <= position /\ ~InBatch(x) /\ x \in Nat /\ y \in Nat
        BY <1>2, <2>1 DEF WrittenRows
    <3>2. y <= position
        BY <1>2, <2>1, <3>1
    <3>3. \A j \in DOMAIN batch : batch[j] # y
        BY <1>1, <2>1, <3>1
    <3> QED
        BY <3>2, <3>3 DEF WrittenRows, InBatch
  <2>2. WrittenRows("events") \subseteq AcceptedRows
      BY DEF WrittenRows
  <2> QED
      BY <2>1, <2>2 DEF Initial, Due
<1>4. Initial(WrittenRows("invalid"), Due("invalid"))
  <2>1. ASSUME NEW x \in RejectedRows, x <= position, NEW y \in RejectedRows, y < x
        PROVE  y <= position
      BY <1>2, <2>1
  <2> QED
      BY <2>1 DEF WrittenRows, RejectedUpTo, Initial, Due
<1> QED
    BY <1>3, <1>4 DEF OutputNames

\* While a run that was not told --force has an output open, no earlier run's
\* success is at stake in it.
LEMMA NothingToKeep ==
    ASSUME RCInv, Running, NEW f \in Requested(args.command), NEW o \in outcomes,
           o.exit = "ok", f \in Requested(o.command),
           \A v \in Invocations : v.run > o.run => ~v.force \/ f \notin Requested(v.command)
    PROVE  FALSE
<1>1. o.run \in 1..run /\ o.run # run
    BY DEF RCInv, OutcomeInv, Running
<1>2. run > o.run
    BY <1>1, Typed
<1>3. [run |-> run, command |-> args.command, force |-> args.force] \in Invocations
    BY DEF Invocations
<1>4. ~args.force
    BY <1>2, <1>3
<1> QED
    BY <1>4 DEF RCInv, FileInv

LEMMA LinesGrow ==
    ASSUME RCInv, Running, NEW f \in Requested(args.command),
           NEW ls \in Seq(Messages), WriteLines(f, ls), run' = run,
           \A k \in DOMAIN ls : ls[k].run = run,
           \A k, l \in DOMAIN ls : k < l => ls[k].row < ls[l].row,
           \A x \in LineRows(f), k \in DOMAIN ls : x < ls[k].row
    PROVE  /\ DOMAIN outputs' = OutputNames /\ \A g \in OutputNames : LinesOK(g)'
           /\ outputs'[f].exists /\ LinesOf(f, run)'
           /\ LineRows(f)' = LineRows(f) \cup {ls[k].row : k \in DOMAIN ls}
           /\ \A g \in OutputNames \ {f} : outputs'[g] = outputs[g]
<1> DEFINE old == outputs[f].lines
           now == outputs'[f].lines
<1>1. f \in OutputNames /\ DOMAIN outputs = OutputNames
    BY DEF RCInv, FileInv, Requested, OutputNames
<1>2. old \in Seq(Messages) /\ \A g \in OutputNames : LinesOK(g)
    BY <1>1 DEF RCInv, FileInv, LinesOK
<1>3. outputs' = [outputs EXCEPT ![f] = [exists |-> TRUE, lines |-> old \o ls]]
    BY <1>1 DEF WriteLines
<1>4. /\ DOMAIN outputs' = OutputNames /\ now = old \o ls /\ outputs'[f].exists = TRUE
      /\ outputs'[f] = [exists |-> TRUE, lines |-> now]
      /\ \A g \in OutputNames \ {f} : outputs'[g] = outputs[g]
    BY <1>1, <1>3
<1>5. LinesOf(f, run) /\ LineRows(f) = {old[i].row : i \in DOMAIN old}
    BY DEF RCInv, FileInv, LineRows
<1>6. /\ \A i \in DOMAIN old : old[i].run = run
      /\ \A i, j \in DOMAIN old : i < j => old[i].row < old[j].row
    BY <1>5 DEF LinesOf
<1> HIDE DEF old, now
<1>7. /\ now \in Seq(Messages) /\ DOMAIN now = 1..(Len(old) + Len(ls))
      /\ Len(old) \in Nat /\ Len(ls) \in Nat
      /\ \A i \in DOMAIN old : i \in DOMAIN now /\ now[i] = old[i]
      /\ \A k \in DOMAIN ls : Len(old) + k \in DOMAIN now /\ now[Len(old) + k] = ls[k]
      /\ \A i \in DOMAIN now : \/ i \in DOMAIN old /\ now[i] = old[i]
                               \/ \E k \in DOMAIN ls : i = Len(old) + k /\ now[i] = ls[k]
  <2>1. now = old \o ls /\ old \in Seq(Messages)
      BY <1>2, <1>4
  <2> QED
      BY <2>1, Concatenated
<1>8. \A i \in DOMAIN now : now[i].run = run
    BY <1>6, <1>7
<1>9. ASSUME NEW i \in DOMAIN now, NEW j \in DOMAIN now, i < j
      PROVE  now[i].row < now[j].row
  <2>1. /\ DOMAIN old = 1..Len(old) /\ DOMAIN ls = 1..Len(ls)
        /\ Len(old) \in Nat /\ Len(ls) \in Nat
      BY <1>2
  <2>2. CASE j \in DOMAIN old /\ now[j] = old[j]
    <3>1. i \in DOMAIN old /\ now[i] = old[i]
        BY <1>7, <1>9, <2>1, <2>2
    <3> QED
        BY <1>6, <1>9, <2>2, <3>1
  <2>3. ASSUME NEW l \in DOMAIN ls, j = Len(old) + l, now[j] = ls[l]
        PROVE  now[i].row < now[j].row
    <3>1. CASE i \in DOMAIN old /\ now[i] = old[i]
      <4>1. old[i].row \in LineRows(f)
          BY <1>5, <3>1
      <4> QED
          BY <2>3, <3>1, <4>1
    <3>2. ASSUME NEW k \in DOMAIN ls, i = Len(old) + k, now[i] = ls[k]
          PROVE  now[i].row < now[j].row
      <4>1. k < l
          BY <1>9, <2>1, <2>3, <3>2
      <4> QED
          BY <2>3, <3>2, <4>1
    <3> QED
        BY <1>7, <3>1, <3>2
  <2> QED
      BY <1>7, <2>2, <2>3
<1>10. LinesOf(f, run)'
    BY <1>8, <1>9 DEF LinesOf, now
<1>11. LineRows(f)' = LineRows(f) \cup {ls[k].row : k \in DOMAIN ls}
  <2>1. LineRows(f)' = {now[i].row : i \in DOMAIN now}
      BY DEF LineRows, now
  <2> QED
      BY <1>5, <1>7, <2>1
<1>12. \A g \in OutputNames : LinesOK(g)'
  <2>1. LinesOK(f)'
      BY <1>4, <1>7 DEF LinesOK
  <2>2. \A g \in OutputNames \ {f} : LinesOK(g)'
      BY <1>2, <1>4 DEF LinesOK
  <2> QED
      BY <2>1, <2>2
<1> QED
    BY <1>4, <1>10, <1>11, <1>12

\* A step of a running run that writes to the one output f of its own.
LEMMA KeptAsWritten ==
    ASSUME RCInv, Running, rows' = rows, run' = run, UNCHANGED <<args, outcomes>>,
           NEW f \in Requested(args.command), NEW W, W \subseteq Due(f),
           Initial(W, Due(f)), LinesOf(f, run)', LineRows(f)' = W,
           \A g \in OutputNames \ {f} : outputs'[g] = outputs[g]
    PROVE  OutputKeptUnlessForced'
<1>1. \A g : Due(g)' = Due(g)
    BY RowsAlone DEF Due
<1>2. Invocations' = Invocations
    BY DEF Invocations
<1>3. \A g \in OutputNames \ {f} :
          /\ LineRows(g)' = LineRows(g)
          /\ \A r : LinesOf(g, r)' <=> LinesOf(g, r)
    BY DEF LineRows, LinesOf
<1>4. ASSUME NEW g \in OutputNames
      PROVE  \E r \in 0..run : LinesOf(g, r)' /\ Initial(LineRows(g)', Due(g))
  <2>1. CASE g = f
    <3>1. run \in 0..run
        BY Typed
    <3> QED
        BY <2>1, <3>1
  <2>2. CASE g # f
      BY <1>3, <2>2 DEF RCInv, OutputKeptUnlessForced
  <2> QED
      BY <2>1, <2>2
<1>5. ASSUME NEW g \in OutputNames, NEW o \in outcomes,
             o.exit = "ok", g \in Requested(o.command),
             \A v \in Invocations :
                 v.run > o.run => ~v.force \/ g \notin Requested(v.command)
      PROVE  LinesOf(g, o.run)' /\ LineRows(g)' = Due(g)
  <2>1. g # f
      BY <1>5, NothingToKeep
  <2>2. LinesOf(g, o.run) /\ LineRows(g) = Due(g)
      BY <1>5 DEF RCInv, OutputKeptUnlessForced
  <2> QED
      BY <1>3, <2>1, <2>2
<1>6. \A g \in OutputNames : \E r \in 0..run : LinesOf(g, r)' /\ Initial(LineRows(g), Due(g))'
    BY <1>1, <1>4 DEF Initial
<1> QED
    BY <1>1, <1>2, <1>5, <1>6 DEF OutputKeptUnlessForced

-----------------------------------------------------------------------------
(* The three sinks take the row in hand. *)

LEMMA EmitStep ==
    ASSUME RCInv, Emit
    PROVE  RCInv'
<1> DEFINE h == batch[1]
           new == Message(h)
<1>1. /\ Running /\ args.command = "publish" /\ batch # << >> /\ waiting = NoRow
      /\ Emitted /\ UNCHANGED <<waiting, outputs, inflight, log>>
      /\ queue' = Append(queue, Message(Head(batch)))
      /\ errors' = ErrorsServed /\ reports' = << >>
    BY DEF Emit, ReadyToEmit, Publish, ServeReports, ingressVars
<1>2. /\ Head(batch) = h /\ InBatch(h) /\ h \in AcceptedRows
      /\ \A x \in AcceptedRows : x < h => x <= position /\ ~InBatch(x)
      /\ new \in Messages /\ Sendable(new) /\ new.run = run /\ new.row = h
      /\ h <= position
    BY <1>1, RowInHand
<1>3. /\ rows' = rows /\ run' = run /\ args' = args /\ position' = position
      /\ exit' = exit /\ outcomes' = outcomes /\ AcceptedRows' = AcceptedRows
      /\ batch' \in Seq(Nat) /\ \A i \in DOMAIN batch' : batch'[i] \in AcceptedRows
      /\ \A x : InBatch(x)' <=> InBatch(x) /\ x # h
      /\ \A i, j \in DOMAIN batch' : i < j => batch'[i] < batch'[j]
      /\ \A j \in DOMAIN batch' : batch'[j] <= position
      /\ \A x \in AcceptedRows : x <= position /\ ~InBatch(x)' =>
            \A j \in DOMAIN batch' : x < batch'[j]
      /\ OutcomeInv' /\ StatsInv' /\ Invocations' = Invocations /\ Running'
      /\ \A l : Sendable(l)' <=> Sendable(l)
      /\ waiting' \in 0..Len(rows) => ClientTypeOK'
    BY <1>1, EmittedFacts
<1>4. /\ log' \in Seq(Messages) /\ \A i \in DOMAIN log' : Sendable(log[i])'
      /\ inflight' \subseteq Messages /\ \A m \in inflight' : Sendable(m)'
      /\ \A r \in Nat : PublishedInOrder(r)'
      /\ \A m \in inflight', i \in DOMAIN log' :
            log'[i].run = m.run => log'[i].row < m.row
      /\ \A m, n \in inflight' : m.run = n.run => m = n
      /\ \A r, x : InLog(r, x)' <=> InLog(r, x)
      /\ GapInv'
      /\ \A o \in outcomes' : o.exit = "ok" /\ o.command # "replay" =>
             \A x \in AcceptedRows' : InLog(o.run, x)'
    BY <1>1, <1>3, TopicAlone
<1>5. queue' = Append(queue, new) /\ queue \in Seq(Messages)
    BY <1>1, <1>2, Typed
<1> HIDE DEF new, h
<1>6. /\ queue' \in Seq(Messages) /\ queue' # << >>
      /\ \A j \in DOMAIN queue : j \in DOMAIN queue' /\ queue'[j] = queue[j]
      /\ Len(queue) + 1 \in DOMAIN queue' /\ queue'[Len(queue) + 1] = new
      /\ \A j \in DOMAIN queue' : \/ j \in DOMAIN queue /\ queue'[j] = queue[j]
                                  \/ j = Len(queue) + 1 /\ queue'[j] = new
      /\ \A j \in DOMAIN queue : j < Len(queue) + 1
      /\ DOMAIN queue \subseteq Nat /\ Len(queue) \in Nat
    BY <1>2, <1>5
<1>7. /\ \A i \in DOMAIN queue : queue[i].row < h
      /\ \A i \in DOMAIN log : log[i].run = run => log[i].row < h
    BY <1>1, BeforeTheRowInHand, MessageTyped DEF NoRow, h
<1>8. ClientTypeOK'
  <2>1. waiting' \in 0..Len(rows)
      BY <1>1 DEF RCInv, ClientTypeOK
  <2> QED
      BY <1>3, <2>1
<1>9. MessagesOK'
  <2>1. \A i \in DOMAIN queue : Sendable(queue[i])
      BY DEF RCInv, MessagesOK
  <2>2. \A i \in DOMAIN queue' : Sendable(queue'[i])
      BY <1>2, <1>6, <2>1
  <2>3. \A i \in DOMAIN queue' : Sendable(queue[i])'
      BY <1>3, <2>2 DEF Sendable
  <2>4. reports' \in Seq([message : Messages, failed : BOOLEAN])
      BY <1>1
  <2> QED
      BY <1>3, <1>4, <1>6, <2>3, <2>4 DEF MessagesOK
<1>10. SinkInv'
  <2>1. \A i \in DOMAIN queue' : queue'[i].run = run
      BY <1>2, <1>6, MessageTyped
  <2>2. \A m \in inflight' : m.run # run
      BY <1>1, OwnMessage
  <2> QED
      BY <1>1, <1>3, <1>4, <2>1, <2>2 DEF SinkInv
<1>11. OrderInv'
  <2>0. /\ \A i, j \in DOMAIN queue : i < j => queue[i].row < queue[j].row
        /\ \A i \in DOMAIN log, j \in DOMAIN queue :
              log[i].run = run => log[i].row < queue[j].row
      BY DEF RCInv, OrderInv
  <2>1. \A i, j \in DOMAIN queue' : i < j => queue'[i].row < queue'[j].row
    <3> SUFFICES ASSUME NEW i \in DOMAIN queue', NEW j \in DOMAIN queue', i < j
                 PROVE  queue'[i].row < queue'[j].row
        OBVIOUS
    <3>1. i \in DOMAIN queue /\ queue'[i] = queue[i]
        BY <1>6
    <3> QED
        BY <1>2, <1>6, <1>7, <2>0, <3>1
  <2>2. \A i \in DOMAIN log', j \in DOMAIN queue' :
            log'[i].run = run => log'[i].row < queue'[j].row
      BY <1>1, <1>2, <1>6, <1>7, <2>0
  <2> QED
      BY <1>3, <1>4, <2>1, <2>2 DEF OrderInv
<1>12. BatchInv'
  <2>1. /\ \A i \in DOMAIN queue : queue[i].row <= position /\ ~InBatch(queue[i].row)
        /\ \A i \in DOMAIN log : log[i].run = run =>
              /\ log[i].row <= position
              /\ log[i].row = waiting \/ ~InBatch(log[i].row)
      BY <1>1 DEF RCInv, BatchInv
  <2>2. \A i \in DOMAIN queue' :
            queue'[i].row <= position /\ (queue'[i].row = h \/ ~InBatch(queue'[i].row))
      BY <1>2, <1>6, <2>1
  <2>3. \A x : x = h \/ ~InBatch(x) => ~InBatch(x)'
      BY <1>3
  <2>4. \A i \in DOMAIN queue' : queue'[i].row <= position /\ ~InBatch(queue[i].row)'
      BY <2>2, <2>3 DEF InBatch
  <2>5. \A i \in DOMAIN log' : log'[i].run = run =>
            /\ log'[i].row <= position
            /\ log'[i].row = waiting \/ ~InBatch(log[i].row)'
      BY <1>1, <2>1, <2>3 DEF InBatch
  <2> QED
      BY <1>1, <1>3, <2>4, <2>5 DEF BatchInv
<1>13. DeliveredInv'
  <2>1. ASSUME NEW x \in AcceptedRows, x <= position, ~InBatch(x)'
        PROVE  InLog(run, x)' \/ InQueue(x)' \/ Failed'
    <3>1. CASE x = h
      <4>1. InQueue(x)'
          BY <1>2, <1>6, <3>1 DEF InQueue
      <4> QED
          BY <4>1
    <3>2. CASE ~InBatch(x)
      <4>1. InLog(run, x) \/ InQueue(x) \/ Failed
          BY <1>1, <2>1, <3>2 DEF RCInv, DeliveredInv
      <4>2. InLog(run, x) => InLog(run, x)'
          BY <1>3, <1>4
      <4>3. InQueue(x) => InQueue(x)'
          BY <1>6 DEF InQueue
      <4>4. Failed => errors' # {}
          BY <1>1 DEF Failed, ErrorsServed
      <4> QED
          BY <4>1, <4>2, <4>3, <4>4 DEF Failed
    <3> QED
        BY <1>3, <2>1, <3>1, <3>2
  <2> QED
      BY <1>3, <1>4, <2>1 DEF DeliveredInv
<1>14. FileInv' /\ OutputKeptUnlessForced'
  <2>1. \A f \in Requested(args.command) : f = "invalid"
      BY <1>1 DEF Requested
  <2>2. WrittenRows("invalid")' = WrittenRows("invalid")
      BY <1>3, RowsAlone DEF WrittenRows, RejectedUpTo
  <2> QED
      BY <1>1, <1>3, <2>1, <2>2, FilesAlone
<1> QED
    BY <1>3, <1>4, <1>8, <1>9, <1>10, <1>11, <1>12, <1>13, <1>14 DEF RCInv

LEMMA PostedStep ==
    ASSUME RCInv, Posted
    PROVE  RCInv'
<1> DEFINE h == batch[1]
<1>1. /\ Running /\ waiting # NoRow /\ waiting' = NoRow
      /\ Emitted /\ UNCHANGED <<queue, reports, errors, outputs, inflight, log>>
      /\ Ingress!Written(Message(waiting))
    BY DEF Posted, Ingress!Confirm
<1>2. args.command = "http" /\ batch # << >> /\ waiting = h
    BY <1>1 DEF RCInv, SinkInv
<1>3. /\ InBatch(h) /\ h \in AcceptedRows
      /\ Message(h) \in Messages /\ Message(h).run = run /\ Message(h).row = h
    BY <1>1, <1>2, RowInHand
<1>4. /\ rows' = rows /\ run' = run /\ args' = args /\ position' = position
      /\ exit' = exit /\ outcomes' = outcomes /\ AcceptedRows' = AcceptedRows
      /\ batch' \in Seq(Nat) /\ \A i \in DOMAIN batch' : batch'[i] \in AcceptedRows
      /\ \A x : InBatch(x)' <=> InBatch(x) /\ x # h
      /\ \A i, j \in DOMAIN batch' : i < j => batch'[i] < batch'[j]
      /\ \A j \in DOMAIN batch' : batch'[j] <= position
      /\ \A x \in AcceptedRows : x <= position /\ ~InBatch(x)' =>
            \A j \in DOMAIN batch' : x < batch'[j]
      /\ OutcomeInv' /\ StatsInv' /\ Invocations' = Invocations /\ Running'
      /\ \A l : Sendable(l)' <=> Sendable(l)
      /\ waiting' \in 0..Len(rows) => ClientTypeOK'
    BY <1>1, <1>2, EmittedFacts
<1>5. /\ log' \in Seq(Messages) /\ \A i \in DOMAIN log' : Sendable(log[i])'
      /\ inflight' \subseteq Messages /\ \A m \in inflight' : Sendable(m)'
      /\ \A r \in Nat : PublishedInOrder(r)'
      /\ \A m \in inflight', i \in DOMAIN log' :
            log'[i].run = m.run => log'[i].row < m.row
      /\ \A m, n \in inflight' : m.run = n.run => m = n
      /\ \A r, x : InLog(r, x)' <=> InLog(r, x)
      /\ GapInv'
      /\ \A o \in outcomes' : o.exit = "ok" /\ o.command # "replay" =>
             \A x \in AcceptedRows' : InLog(o.run, x)'
    BY <1>1, <1>4, TopicAlone
<1>6. PICK k \in DOMAIN log : log[k] = Message(h)
    BY <1>1, <1>2 DEF Ingress!Written
<1> HIDE DEF h
<1>7. \A m \in inflight : m.run # run
  <2>1. ASSUME NEW m \in inflight, m.run = run
        PROVE  FALSE
    <3>1. m.row = h
        BY <1>1, <2>1, OwnMessage DEF h
    <3>2. log[k].row < m.row
        BY <1>3, <1>6, <2>1 DEF RCInv, OrderInv
    <3>3. h \in Nat
        BY <1>3, RowsTyped
    <3> QED
        BY <1>3, <1>6, <3>1, <3>2, <3>3
  <2> QED
      BY <2>1
<1>8. queue = << >> /\ reports = << >> /\ errors = {}
    BY <1>1, <1>2 DEF RCInv, SinkInv
<1>9. ClientTypeOK'
  <2>1. waiting' \in 0..Len(rows)
      BY <1>1, RowsTyped DEF NoRow
  <2> QED
      BY <1>4, <2>1
<1>10. MessagesOK'
  <2>1. queue' = << >> /\ reports' = << >>
      BY <1>1, <1>8
  <2> QED
      BY <1>4, <1>5, <2>1 DEF MessagesOK
<1>11. SinkInv'
    BY <1>1, <1>2, <1>4, <1>5, <1>7, <1>8 DEF SinkInv
<1>12. OrderInv'
    BY <1>1, <1>4, <1>5, <1>8 DEF OrderInv
<1>13. BatchInv'
  <2>1. \A i \in DOMAIN log : log[i].run = run =>
            log[i].row <= position /\ (log[i].row = h \/ ~InBatch(log[i].row))
      BY <1>1, <1>2 DEF RCInv, BatchInv, h
  <2>2. \A x : x = h \/ ~InBatch(x) => ~InBatch(x)'
      BY <1>4
  <2>3. \A i \in DOMAIN log' : log'[i].run = run =>
            log'[i].row <= position /\ ~InBatch(log[i].row)'
      BY <1>1, <2>1, <2>2 DEF InBatch
  <2> QED
      BY <1>1, <1>4, <1>8, <2>3 DEF BatchInv
<1>14. DeliveredInv'
  <2>1. ASSUME NEW x \in AcceptedRows, x <= position, ~InBatch(x)'
        PROVE  InLog(run, x)'
    <3>1. CASE x = h
      <4>1. InLog(run, x)
          BY <1>3, <1>6, <3>1 DEF InLog
      <4> QED
          BY <1>4, <1>5, <4>1
    <3>2. CASE ~InBatch(x)
      <4>1. ~InQueue(x) /\ ~Failed
          BY <1>8 DEF InQueue, Failed
      <4>2. InLog(run, x)
          BY <1>1, <1>2, <2>1, <3>2, <4>1 DEF RCInv, DeliveredInv
      <4> QED
          BY <1>4, <1>5, <4>2
    <3> QED
        BY <1>4, <2>1, <3>1, <3>2
  <2> QED
      BY <1>4, <1>5, <2>1 DEF DeliveredInv
<1>15. FileInv' /\ OutputKeptUnlessForced'
  <2>1. \A f \in Requested(args.command) : f = "invalid"
      BY <1>2 DEF Requested
  <2>2. WrittenRows("invalid")' = WrittenRows("invalid")
      BY <1>4, RowsAlone DEF WrittenRows, RejectedUpTo
  <2> QED
      BY <1>1, <1>4, <2>1, <2>2, FilesAlone
<1> QED
    BY <1>4, <1>5, <1>9, <1>10, <1>11, <1>12, <1>13, <1>14, <1>15 DEF RCInv

LEMMA LineStep ==
    ASSUME RCInv, EmitLine
    PROVE  RCInv'
<1> DEFINE h == batch[1]
           ls == << Message(h) >>
<1>1. /\ Running /\ args.command = "replay" /\ batch # << >> /\ waiting = NoRow
      /\ Emitted /\ UNCHANGED <<queue, reports, errors, waiting, inflight, log>>
      /\ WriteLines("events", << Message(Head(batch)) >>)
    BY DEF EmitLine, ReadyToEmit, ingressVars, publisherVars
<1>2. /\ Head(batch) = h /\ InBatch(h) /\ h \in AcceptedRows /\ h <= position
      /\ \A x \in AcceptedRows : x <= position /\ ~InBatch(x) => x < h
      /\ Message(h) \in Messages /\ Message(h).run = run /\ Message(h).row = h
    BY <1>1, RowInHand
<1>3. /\ rows' = rows /\ run' = run /\ args' = args /\ position' = position
      /\ exit' = exit /\ outcomes' = outcomes /\ AcceptedRows' = AcceptedRows
      /\ batch' \in Seq(Nat) /\ \A i \in DOMAIN batch' : batch'[i] \in AcceptedRows
      /\ \A x : InBatch(x)' <=> InBatch(x) /\ x # h
      /\ \A i, j \in DOMAIN batch' : i < j => batch'[i] < batch'[j]
      /\ \A j \in DOMAIN batch' : batch'[j] <= position
      /\ \A x \in AcceptedRows : x <= position /\ ~InBatch(x)' =>
            \A j \in DOMAIN batch' : x < batch'[j]
      /\ OutcomeInv' /\ StatsInv' /\ Invocations' = Invocations /\ Running'
      /\ \A l : Sendable(l)' <=> Sendable(l)
      /\ waiting' \in 0..Len(rows) => ClientTypeOK'
    BY <1>1, EmittedFacts
<1>4. /\ log' \in Seq(Messages) /\ \A i \in DOMAIN log' : Sendable(log[i])'
      /\ inflight' \subseteq Messages /\ \A m \in inflight' : Sendable(m)'
      /\ \A r \in Nat : PublishedInOrder(r)'
      /\ \A m \in inflight', i \in DOMAIN log' :
            log'[i].run = m.run => log'[i].row < m.row
      /\ \A m, n \in inflight' : m.run = n.run => m = n
      /\ \A r, x : InLog(r, x)' <=> InLog(r, x)
      /\ GapInv'
      /\ \A o \in outcomes' : o.exit = "ok" /\ o.command # "replay" =>
             \A x \in AcceptedRows' : InLog(o.run, x)'
    BY <1>1, <1>3, TopicAlone
<1>5. /\ ls \in Seq(Messages) /\ WriteLines("events", ls) /\ DOMAIN ls = {1} /\ ls[1] = Message(h)
    BY <1>1, <1>2
<1> HIDE DEF ls, h
<1>6. queue = << >> /\ reports = << >> /\ errors = {}
    BY <1>1 DEF RCInv, SinkInv
<1>7. ClientTypeOK'
  <2>1. waiting' \in 0..Len(rows)
      BY <1>1, RowsTyped DEF NoRow
  <2> QED
      BY <1>3, <2>1
<1>8. MessagesOK'
  <2>1. queue' = << >> /\ reports' = << >>
      BY <1>1, <1>6
  <2> QED
      BY <1>3, <1>4, <2>1 DEF MessagesOK
<1>9. SinkInv'
  <2>1. \A m \in inflight' : m.run # run
      BY <1>1, OwnMessage
  <2> QED
      BY <1>1, <1>3, <1>4, <1>6, <2>1 DEF SinkInv
<1>10. OrderInv'
    BY <1>1, <1>3, <1>4, <1>6 DEF OrderInv
<1>11. BatchInv'
  <2>1. \A i \in DOMAIN log : log[i].run = run =>
            /\ log[i].row <= position
            /\ log[i].row = waiting \/ ~InBatch(log[i].row)
      BY <1>1 DEF RCInv, BatchInv
  <2>2. \A x : ~InBatch(x) => ~InBatch(x)'
      BY <1>3
  <2>3. \A i \in DOMAIN log' : log'[i].run = run =>
            /\ log'[i].row <= position
            /\ log'[i].row = waiting \/ ~InBatch(log[i].row)'
      BY <1>1, <2>1, <2>2 DEF InBatch
  <2> QED
      BY <1>1, <1>3, <1>6, <2>3 DEF BatchInv
<1>12. DeliveredInv'
    BY <1>1, <1>3, <1>4 DEF DeliveredInv
<1>13. /\ "events" \in Requested(args.command) /\ Requested(args.command) = OutputNames
    BY <1>1 DEF Requested, OutputNames
<1>14. /\ LineRows("events") = WrittenRows("events")
       /\ LinesOf("invalid", run) /\ LineRows("invalid") = WrittenRows("invalid")
       /\ outputs["invalid"].exists
    BY <1>1, <1>13 DEF RCInv, FileInv, OutputNames
<1>15. /\ DOMAIN outputs' = OutputNames /\ \A g \in OutputNames : LinesOK(g)'
       /\ outputs'["events"].exists /\ LinesOf("events", run)'
       /\ LineRows("events")' = LineRows("events") \cup {ls[k].row : k \in DOMAIN ls}
       /\ \A g \in OutputNames \ {"events"} : outputs'[g] = outputs[g]
  <2>1. \A x \in LineRows("events"), k \in DOMAIN ls : x < ls[k].row
      BY <1>2, <1>5, <1>14 DEF WrittenRows
  <2>2. /\ \A k \in DOMAIN ls : ls[k].run = run
        /\ \A k, l \in DOMAIN ls : k < l => ls[k].row < ls[l].row
      BY <1>2, <1>5
  <2> QED
      BY <1>1, <1>3, <1>5, <1>13, <2>1, <2>2, LinesGrow
<1>16. /\ LineRows("events")' = WrittenRows("events")'
       /\ WrittenRows("invalid")' = WrittenRows("invalid")
  <2>1. WrittenRows("events")' = {x \in AcceptedRows : x <= position /\ (~InBatch(x) \/ x = h)}
      BY <1>3 DEF WrittenRows
  <2>2. LineRows("events")' = WrittenRows("events") \cup {h}
      BY <1>2, <1>5, <1>14, <1>15
  <2>3. WrittenRows("events") \cup {h} =
            {x \in AcceptedRows : x <= position /\ (~InBatch(x) \/ x = h)}
      BY <1>2 DEF WrittenRows
  <2> QED
      BY <1>3, <2>1, <2>2, <2>3, RowsAlone DEF WrittenRows, RejectedUpTo
<1>17. FileInv'
  <2>1. /\ outputs'["invalid"] = outputs["invalid"]
        /\ LinesOf("invalid", run)' /\ LineRows("invalid")' = LineRows("invalid")
      BY <1>3, <1>14, <1>15 DEF LinesOf, LineRows, OutputNames
  <2>2. \A f \in Requested(args.command) :
            /\ outputs'[f].exists
            /\ LinesOf(f, run)'
            /\ LineRows(f)' = WrittenRows(f)'
      BY <1>13, <1>14, <1>15, <1>16, <2>1 DEF OutputNames
  <2>3. \A o \in outcomes : o.exit = "ok" =>
            \A f \in Requested(o.command) : outputs'[f].exists
      BY <1>14, <1>15, <2>1 DEF Requested, OutputNames
  <2>4. ~args.force => \A o \in outcomes : o.exit = "ok" =>
            Requested(args.command) \cap Requested(o.command) = {}
      BY <1>1 DEF RCInv, FileInv
  <2> QED
      BY <1>3, <1>15, <2>2, <2>3, <2>4 DEF FileInv
<1>18. OutputKeptUnlessForced'
  <2> DEFINE W == WrittenRows("events") \cup {h}
  <2>1. LineRows("events")' = W
      BY <1>2, <1>5, <1>14, <1>15
  <2>2. W \subseteq AcceptedRows
      BY <1>2 DEF WrittenRows
  <2>3. ASSUME NEW x \in W, NEW y \in AcceptedRows, y < x
        PROVE  y \in W
    <3>1. CASE x = h
      <4>1. y <= position /\ ~InBatch(y)
          BY <1>1, <2>3, <3>1, RowInHand DEF h
      <4> QED
          BY <4>1 DEF WrittenRows
    <3>2. CASE x \in WrittenRows("events")
        BY <1>1, <2>3, <3>2, WrittenIsInitial DEF Initial, Due, OutputNames
    <3> QED
        BY <2>3, <3>1, <3>2
  <2>4. W \subseteq Due("events") /\ Initial(W, Due("events"))
      BY <2>2, <2>3 DEF Initial, Due
  <2> HIDE DEF W
  <2> QED
      BY <1>1, <1>3, <1>13, <1>15, <2>1, <2>4, KeptAsWritten
<1> QED
    BY <1>3, <1>4, <1>7, <1>8, <1>9, <1>10, <1>11, <1>12, <1>17, <1>18 DEF RCInv

-----------------------------------------------------------------------------
(* The next batch. *)

LEMMA InOrderFacts ==
    ASSUME NEW S, S \subseteq Nat, IsFiniteSet(S), NEW s \in InOrder(S)
    PROVE  /\ s \in Seq(Nat) /\ Len(s) = Cardinality(S) /\ DOMAIN s = 1..Cardinality(S)
           /\ \A i \in DOMAIN s : s[i] \in S
           /\ \A i, j \in DOMAIN s : i < j => s[i] < s[j]
           /\ \A x \in S : \E i \in DOMAIN s : s[i] = x
<1>1. Cardinality(S) \in Nat
    BY FS_CardinalityType
<1>2. /\ s \in [1..Cardinality(S) -> S]
      /\ \A i, j \in DOMAIN s : i < j => s[i] < s[j]
      /\ \A x \in S : \E i \in DOMAIN s : s[i] = x
    BY DEF InOrder
<1>3. s \in [1..Cardinality(S) -> Nat]
    BY <1>2
<1> QED
    BY <1>1, <1>2, <1>3

LEMMA SplitAt ==
    ASSUME NEW A, A \subseteq Nat, NEW p \in Nat, NEW q \in Nat, p <= q
    PROVE  /\ {x \in A : x <= q} = {x \in A : x <= p} \cup {x \in A : p < x /\ x <= q}
           /\ {x \in A : x <= p} \cap {x \in A : p < x /\ x <= q} = {}
<1>1. \A x \in A : /\ x <= q <=> x <= p \/ (p < x /\ x <= q)
                  /\ ~(x <= p /\ p < x)
    OBVIOUS
<1> QED
    BY <1>1, Zenon

\* The rows of the batch, the rows before it and the rows up to its end.
LEMMA BatchTaken ==
    ASSUME RCInv, NEW last \in Nat, position <= last, last <= Len(rows),
           NEW taken, taken = (position + 1)..last,
           NEW good, good = {i \in taken : RowAccepted(rows[i])},
           NEW bad, bad = taken \ good
    PROVE  /\ IsFiniteSet(taken) /\ Cardinality(taken) = last - position
           /\ IsFiniteSet(good) /\ good \subseteq Nat
           /\ good = {x \in AcceptedRows : position < x /\ x <= last}
           /\ IsFiniteSet(bad) /\ bad \subseteq Nat
           /\ bad = {x \in RejectedRows : position < x /\ x <= last}
           /\ Cardinality(RowsUpTo(position)) + Cardinality(good) = Cardinality(RowsUpTo(last))
           /\ Cardinality(RejectedUpTo(position)) + Cardinality(bad)
                  = Cardinality(RejectedUpTo(last))
           /\ Cardinality(good) \in Nat /\ Cardinality(bad) \in Nat
           /\ Cardinality(RowsUpTo(position)) \in Nat
           /\ Cardinality(RejectedUpTo(position)) \in Nat
<1>1. /\ position \in Nat /\ Len(rows) \in Nat /\ DOMAIN rows = 1..Len(rows)
      /\ AcceptedRows \subseteq 1..Len(rows) /\ RejectedRows \subseteq 1..Len(rows)
    BY Typed, RowsTyped
<1>2. taken \subseteq 1..Len(rows) /\ \A x \in 1..Len(rows) : x \in taken <=> position < x /\ x <= last
    BY <1>1
<1>3. IsFiniteSet(taken) /\ Cardinality(taken) = last - position
  <2>1. Cardinality(taken) = IF position + 1 > last THEN 0 ELSE last - (position + 1) + 1
      BY <1>1, FS_Interval
  <2>2. IsFiniteSet(taken)
      BY <1>1, FS_Interval
  <2> QED
      BY <1>1, <2>1, <2>2
<1>4. good = {x \in AcceptedRows : position < x /\ x <= last}
    BY <1>1, <1>2 DEF AcceptedRows
<1>5. bad = {x \in RejectedRows : position < x /\ x <= last}
    BY <1>1, <1>2, <1>4 DEF RejectedRows, AcceptedRows
<1>6. IsFiniteSet(1..Len(rows))
    BY <1>1, FS_Interval
<1>7. ASSUME NEW S, S \subseteq 1..Len(rows)
      PROVE  IsFiniteSet(S) /\ Cardinality(S) \in Nat
    BY <1>6, <1>7, FS_Subset, FS_CardinalityType
<1>8. ASSUME NEW A, A \subseteq 1..Len(rows), NEW B, B \subseteq 1..Len(rows), A \cap B = {}
      PROVE  Cardinality(A) + Cardinality(B) = Cardinality(A \cup B)
  <2>1. /\ IsFiniteSet(A) /\ IsFiniteSet(B)
        /\ Cardinality(A) \in Nat /\ Cardinality(B) \in Nat
      BY <1>7, <1>8
  <2>2. Cardinality(A \cup B) = Cardinality(A) + Cardinality(B) - Cardinality(A \cap B)
      BY <2>1, FS_Union
  <2>3. Cardinality(A \cap B) = 0
      BY <1>8, FS_EmptySet
  <2> QED
      BY <2>1, <2>2, <2>3
<1>9. /\ RowsUpTo(last) = RowsUpTo(position) \cup good /\ RowsUpTo(position) \cap good = {}
      /\ RowsUpTo(position) \subseteq 1..Len(rows) /\ good \subseteq 1..Len(rows)
  <2>1. AcceptedRows \subseteq Nat
      BY <1>1
  <2>2. /\ {x \in AcceptedRows : x <= last} = {x \in AcceptedRows : x <= position} \cup good
        /\ {x \in AcceptedRows : x <= position} \cap good = {}
      BY <1>1, <1>4, <2>1, SplitAt
  <2>3. /\ {x \in AcceptedRows : x <= position} \subseteq 1..Len(rows)
        /\ {x \in AcceptedRows : position < x /\ x <= last} \subseteq 1..Len(rows)
      BY <1>1
  <2> QED
      BY <1>4, <2>2, <2>3 DEF RowsUpTo
<1>10. /\ RejectedUpTo(last) = RejectedUpTo(position) \cup bad /\ RejectedUpTo(position) \cap bad = {}
       /\ RejectedUpTo(position) \subseteq 1..Len(rows) /\ bad \subseteq 1..Len(rows)
  <2>1. RejectedRows \subseteq Nat
      BY <1>1
  <2>2. /\ {x \in RejectedRows : x <= last} = {x \in RejectedRows : x <= position} \cup bad
        /\ {x \in RejectedRows : x <= position} \cap bad = {}
      BY <1>1, <1>5, <2>1, SplitAt
  <2>3. /\ {x \in RejectedRows : x <= position} \subseteq 1..Len(rows)
        /\ {x \in RejectedRows : position < x /\ x <= last} \subseteq 1..Len(rows)
      BY <1>1
  <2> QED
      BY <1>5, <2>2, <2>3 DEF RejectedUpTo
<1>11. /\ Cardinality(RowsUpTo(position)) + Cardinality(good) = Cardinality(RowsUpTo(last))
       /\ Cardinality(RejectedUpTo(position)) + Cardinality(bad)
              = Cardinality(RejectedUpTo(last))
    BY <1>8, <1>9, <1>10
<1>12. /\ IsFiniteSet(good) /\ IsFiniteSet(bad)
       /\ Cardinality(good) \in Nat /\ Cardinality(bad) \in Nat
       /\ Cardinality(RowsUpTo(position)) \in Nat
       /\ Cardinality(RejectedUpTo(position)) \in Nat
    BY <1>7, <1>9, <1>10
<1>13. good \subseteq Nat /\ bad \subseteq Nat
    BY <1>9, <1>10
<1> QED
    BY <1>3, <1>4, <1>5, <1>11, <1>12, <1>13

LEMMA RejectedGrow ==
    ASSUME RCInv, NEW last \in Nat, position <= last
    PROVE  RejectedUpTo(last) = RejectedUpTo(position)
               \cup {x \in RejectedRows : position < x /\ x <= last}
<1>1. RejectedRows \subseteq Nat /\ position \in Nat
    BY Typed, RowsTyped
<1>2. \A x \in RejectedRows : x <= last <=> x <= position \/ (position < x /\ x <= last)
    BY <1>1
<1> QED
    BY <1>2, Zenon DEF RejectedUpTo

LEMMA NextBatchStep ==
    ASSUME RCInv, NextBatch
    PROVE  RCInv'
<1> DEFINE last == Lesser(position + BatchSize, Len(rows))
           taken == (position + 1)..last
           good == {i \in taken : RowAccepted(rows[i])}
           bad == taken \ good
<1>1. /\ Running /\ batch = << >> /\ position < Len(rows)
      /\ UNCHANGED <<queue, reports, errors, log, inflight, rows, run, args, waiting,
                     exit, outcomes>>
    BY DEF NextBatch, publisherVars, ingressVars
<1>2. /\ position' = last /\ batch' \in InOrder(good)
      /\ stats' = [stats EXCEPT !.rows = @ + Cardinality(taken), !.batches = @ + 1,
                                !.invalid = @ + Cardinality(bad)]
      /\ \E rejected \in InOrder(bad) :
             WriteLines("invalid", [i \in DOMAIN rejected |-> Message(rejected[i])])
    BY DEF NextBatch
<1>3. last \in Nat /\ position <= last /\ last <= Len(rows) /\ last \in 0..Len(rows)
  <2>1. position \in Nat /\ Len(rows) \in Nat /\ BatchSize \in Nat
      BY Typed, RowsTyped, BatchAssumption
  <2> QED
      BY <1>1, <2>1 DEF Lesser
<1> HIDE DEF last
<1>4. /\ IsFiniteSet(taken) /\ Cardinality(taken) = last - position
      /\ IsFiniteSet(good) /\ good \subseteq Nat
      /\ good = {x \in AcceptedRows : position < x /\ x <= last}
      /\ IsFiniteSet(bad) /\ bad \subseteq Nat
      /\ bad = {x \in RejectedRows : position < x /\ x <= last}
      /\ Cardinality(RowsUpTo(position)) + Cardinality(good) = Cardinality(RowsUpTo(last))
      /\ Cardinality(RejectedUpTo(position)) + Cardinality(bad)
             = Cardinality(RejectedUpTo(last))
      /\ Cardinality(good) \in Nat /\ Cardinality(bad) \in Nat
      /\ Cardinality(RowsUpTo(position)) \in Nat
      /\ Cardinality(RejectedUpTo(position)) \in Nat
    BY <1>3, BatchTaken
<1> HIDE DEF taken, good, bad
<1>5. PICK rejected \in InOrder(bad) :
          WriteLines("invalid", [i \in DOMAIN rejected |-> Message(rejected[i])])
    BY <1>2
<1>6. /\ batch' \in Seq(Nat) /\ Len(batch') = Cardinality(good)
      /\ \A i \in DOMAIN batch' : batch'[i] \in good
      /\ \A i, j \in DOMAIN batch' : i < j => batch'[i] < batch'[j]
      /\ \A x \in good : \E i \in DOMAIN batch' : batch'[i] = x
    BY <1>2, <1>4, InOrderFacts
<1>7. /\ rejected \in Seq(Nat)
      /\ \A i \in DOMAIN rejected : rejected[i] \in bad
      /\ \A i, j \in DOMAIN rejected : i < j => rejected[i] < rejected[j]
      /\ \A x \in bad : \E i \in DOMAIN rejected : rejected[i] = x
    BY <1>4, InOrderFacts
<1>8. /\ AcceptedRows' = AcceptedRows /\ RejectedRows' = RejectedRows
      /\ \A l : Sendable(l)' <=> Sendable(l)
    BY <1>1, RowsAlone DEF Sendable
<1>9. /\ \A x : InBatch(x)' <=> x \in good
      /\ \A x : ~InBatch(x)
  <2>1. \A x : InBatch(x)' <=> x \in good
      BY <1>6 DEF InBatch
  <2>2. \A x : ~InBatch(x)
      BY <1>1 DEF InBatch
  <2> QED
      BY <2>1, <2>2
<1>10. waiting = NoRow /\ waiting' = NoRow
    BY <1>1 DEF RCInv, SinkInv
<1>11. OutcomeInv' /\ Invocations' = Invocations /\ Running'
    BY <1>1, OutcomesAlone
<1>12. /\ log' \in Seq(Messages) /\ \A i \in DOMAIN log' : Sendable(log[i])'
       /\ inflight' \subseteq Messages /\ \A m \in inflight' : Sendable(m)'
       /\ \A r \in Nat : PublishedInOrder(r)'
       /\ \A m \in inflight', i \in DOMAIN log' :
             log'[i].run = m.run => log'[i].row < m.row
       /\ \A m, n \in inflight' : m.run = n.run => m = n
       /\ \A r, x : InLog(r, x)' <=> InLog(r, x)
       /\ GapInv'
       /\ \A o \in outcomes' : o.exit = "ok" /\ o.command # "replay" =>
              \A x \in AcceptedRows' : InLog(o.run, x)'
    BY <1>1, <1>11, TopicAlone
<1>13. /\ position \in Nat /\ run \in Nat
       /\ \A x \in AcceptedRows : x \in Nat \ {0}
       /\ \A x \in RejectedRows : x \in Nat \ {0}
    BY Typed, RowsTyped
<1>14. /\ stats \in [rows : Nat, emitted : Nat, invalid : Nat, batches : Nat]
       /\ last - position \in Nat
    BY <1>3, <1>13 DEF RCInv, ClientTypeOK
<1>15. /\ stats' \in [rows : Nat, emitted : Nat, invalid : Nat, batches : Nat]
       /\ stats'.rows = stats.rows + (last - position)
       /\ stats'.emitted = stats.emitted /\ stats'.invalid = stats.invalid + Cardinality(bad)
       /\ stats.rows \in Nat /\ stats.emitted \in Nat /\ stats.invalid \in Nat
  <2>1. ASSUME NEW n \in Nat, NEW b \in Nat,
               stats' = [stats EXCEPT !.rows = @ + n, !.batches = @ + 1, !.invalid = @ + b]
        PROVE  /\ stats' \in [rows : Nat, emitted : Nat, invalid : Nat, batches : Nat]
               /\ stats'.rows = stats.rows + n
               /\ stats'.emitted = stats.emitted /\ stats'.invalid = stats.invalid + b
    <3>1. /\ stats.rows \in Nat /\ stats.emitted \in Nat /\ stats.invalid \in Nat
          /\ stats.batches \in Nat
          /\ stats = [rows |-> stats.rows, emitted |-> stats.emitted,
                      invalid |-> stats.invalid, batches |-> stats.batches]
        BY <1>14
    <3>2. stats' = [rows |-> stats.rows + n, emitted |-> stats.emitted,
                    invalid |-> stats.invalid + b, batches |-> stats.batches + 1]
        BY <1>14, <2>1
    <3> QED
        BY <3>1, <3>2
  <2>2. Cardinality(taken) \in Nat /\ Cardinality(bad) \in Nat
      BY <1>4, <1>14
  <2>3. stats.rows \in Nat /\ stats.emitted \in Nat /\ stats.invalid \in Nat
      BY <1>14
  <2> QED
      BY <1>2, <1>4, <2>1, <2>2, <2>3
<1>16. ClientTypeOK'
  <2>1. position' \in 0..Len(rows)
      BY <1>2, <1>3
  <2> QED
      BY <1>1, <1>15, <2>1 DEF RCInv, ClientTypeOK
<1>17. MessagesOK'
  <2>1. \A i \in DOMAIN queue' : Sendable(queue[i])'
      BY <1>1, <1>8 DEF RCInv, MessagesOK, Sendable
  <2>2. queue' \in Seq(Messages) /\ reports' \in Seq([message : Messages, failed : BOOLEAN])
      BY <1>1 DEF RCInv, MessagesOK
  <2>3. \A i \in DOMAIN batch' : batch'[i] \in AcceptedRows'
      BY <1>4, <1>6, <1>8
  <2> QED
      BY <1>6, <1>12, <2>1, <2>2, <2>3 DEF MessagesOK
<1>18. SinkInv'
    BY <1>1, <1>10, <1>11, <1>12 DEF RCInv, SinkInv
<1>19. OrderInv'
  <2>1. \A i, j \in DOMAIN queue' : i < j => queue'[i].row < queue'[j].row
      BY <1>1 DEF RCInv, OrderInv
  <2>2. \A i \in DOMAIN log', j \in DOMAIN queue' :
            log'[i].run = run => log'[i].row < queue'[j].row
      BY <1>1 DEF RCInv, OrderInv
  <2> QED
      BY <1>1, <1>12, <2>1, <2>2 DEF OrderInv
<1>20. BatchInv'
  <2>1. \A j \in DOMAIN batch' : batch'[j] <= last
      BY <1>4, <1>6
  <2>2. \A x : x \in Nat /\ x <= position => x <= last /\ x \notin good
      BY <1>3, <1>4, <1>13
  <2>3. /\ \A i \in DOMAIN queue : queue[i].row <= position /\ queue[i].row \in Nat
        /\ \A i \in DOMAIN log : log[i].run = run =>
              log[i].row <= position /\ log[i].row \in Nat
      BY <1>1, MessageTyped DEF RCInv, BatchInv
  <2>4. \A i \in DOMAIN queue' : queue'[i].row <= last /\ ~InBatch(queue[i].row)'
    <3>1. \A i \in DOMAIN queue : queue[i].row <= last /\ queue[i].row \notin good
        BY <2>2, <2>3
    <3> QED
        BY <1>1, <1>9, <3>1 DEF InBatch
  <2>5. \A i \in DOMAIN log' : log'[i].run = run =>
            log'[i].row <= last /\ ~InBatch(log[i].row)'
    <3>1. \A i \in DOMAIN log : log[i].run = run =>
              log[i].row <= last /\ log[i].row \notin good
        BY <2>2, <2>3
    <3> QED
        BY <1>1, <1>9, <3>1 DEF InBatch
  <2>6. ASSUME NEW x \in AcceptedRows, x <= last, x \notin good, NEW j \in DOMAIN batch'
        PROVE  x < batch'[j]
    <3>1. x <= position
        BY <1>4, <1>13, <2>6
    <3>2. position < batch'[j] /\ batch'[j] \in Nat
        BY <1>4, <1>6
    <3> QED
        BY <1>13, <3>1, <3>2
  <2> QED
      BY <1>1, <1>2, <1>6, <1>8, <1>9, <2>1, <2>4, <2>5, <2>6 DEF BatchInv
<1>21. DeliveredInv'
  <2>1. ASSUME args.command # "replay", NEW x \in AcceptedRows, x <= last, x \notin good
        PROVE  InLog(run, x)' \/ InQueue(x)' \/ Failed'
    <3>1. x <= position
        BY <1>4, <1>13, <2>1
    <3>2. InLog(run, x) \/ InQueue(x) \/ Failed
        BY <1>1, <1>9, <2>1, <3>1 DEF RCInv, DeliveredInv
    <3> QED
        BY <1>1, <1>12, <3>2 DEF InQueue, Failed
  <2> QED
      BY <1>1, <1>2, <1>8, <1>9, <1>12, <2>1 DEF DeliveredInv
<1>22. StatsInv'
  <2>1. /\ stats.rows = position
        /\ stats.emitted + Len(batch) = Cardinality(RowsUpTo(position))
        /\ stats.invalid = Cardinality(RejectedUpTo(position))
        /\ Len(batch) = 0
      BY <1>1 DEF RCInv, StatsInv
  <2>2. /\ stats'.rows = last
        /\ stats'.emitted + Len(batch') = Cardinality(RowsUpTo(last))
        /\ stats'.invalid = Cardinality(RejectedUpTo(last))
      BY <1>3, <1>4, <1>6, <1>13, <1>15, <2>1
  <2>3. RowsUpTo(position)' = RowsUpTo(last) /\ RejectedUpTo(position)' = RejectedUpTo(last)
      BY <1>2, <1>8 DEF RowsUpTo, RejectedUpTo
  <2>4. exit' # "ok"
      BY <1>11 DEF Running
  <2> QED
      BY <1>2, <2>2, <2>3, <2>4 DEF StatsInv
<1> DEFINE ls == [i \in DOMAIN rejected |-> Message(rejected[i])]
<1>23. /\ ls \in Seq(Messages) /\ DOMAIN ls = DOMAIN rejected
       /\ \A k \in DOMAIN ls : ls[k].run = run /\ ls[k].row = rejected[k]
  <2>1. \A k \in DOMAIN rejected : /\ Message(rejected[k]) \in Messages
                                   /\ Message(rejected[k]).run = run
                                   /\ Message(rejected[k]).row = rejected[k]
      BY <1>7, <1>13 DEF Message, Messages
  <2>2. DOMAIN rejected = 1..Len(rejected) /\ Len(rejected) \in Nat
      BY <1>7
  <2> QED
      BY <2>1, <2>2
<1>24. WriteLines("invalid", ls)
    BY <1>5
<1> HIDE DEF ls
<1>25. "invalid" \in Requested(args.command)
    BY DEF Requested, OutputNames
<1>26. /\ LineRows("invalid") = RejectedUpTo(position)
       /\ \A f \in Requested(args.command) :
             outputs[f].exists /\ LinesOf(f, run) /\ LineRows(f) = WrittenRows(f)
    BY <1>1, <1>25 DEF RCInv, FileInv, WrittenRows
<1>27. /\ DOMAIN outputs' = OutputNames /\ \A g \in OutputNames : LinesOK(g)'
       /\ outputs'["invalid"].exists /\ LinesOf("invalid", run)'
       /\ LineRows("invalid")' = LineRows("invalid") \cup {ls[k].row : k \in DOMAIN ls}
       /\ \A g \in OutputNames \ {"invalid"} : outputs'[g] = outputs[g]
  <2>1. \A x \in LineRows("invalid"), k \in DOMAIN ls : x < ls[k].row
    <3>1. \A x \in LineRows("invalid") : x \in Nat /\ x <= position
        BY <1>13, <1>26 DEF RejectedUpTo
    <3>2. \A k \in DOMAIN ls : position < ls[k].row /\ ls[k].row \in Nat
        BY <1>4, <1>7, <1>23
    <3> QED
        BY <1>13, <3>1, <3>2
  <2>2. /\ \A k \in DOMAIN ls : ls[k].run = run
        /\ \A k, l \in DOMAIN ls : k < l => ls[k].row < ls[l].row
      BY <1>7, <1>23
  <2> QED
      BY <1>1, <1>23, <1>24, <1>25, <2>1, <2>2, LinesGrow
<1>28. /\ LineRows("invalid")' = RejectedUpTo(last)
       /\ WrittenRows("invalid")' = RejectedUpTo(last)
       /\ WrittenRows("events")' = WrittenRows("events")
  <2>1. {ls[k].row : k \in DOMAIN ls} = bad
    <3>1. \A k \in DOMAIN ls : ls[k].row \in bad
        BY <1>7, <1>23
    <3>2. \A x \in bad : \E k \in DOMAIN ls : ls[k].row = x
        BY <1>7, <1>23
    <3> QED
        BY <3>1, <3>2
  <2>2. RejectedUpTo(last) = RejectedUpTo(position) \cup bad
    <3>1. bad = {x \in RejectedRows : position < x /\ x <= last}
        BY <1>4
    <3> QED
        BY <1>3, <3>1, RejectedGrow
  <2>3. LineRows("invalid")' = RejectedUpTo(last)
      BY <1>26, <1>27, <2>1, <2>2
  <2>4. WrittenRows("invalid")' = RejectedUpTo(last)
      BY <1>2, <1>8 DEF WrittenRows, RejectedUpTo
  <2>5. WrittenRows("events")' = WrittenRows("events")
    <3>1. WrittenRows("events")' = {x \in AcceptedRows : x <= last /\ x \notin good}
        BY <1>2, <1>8, <1>9 DEF WrittenRows
    <3>2. \A x \in AcceptedRows : (x <= last /\ x \notin good) <=> x <= position
        BY <1>3, <1>4, <1>13
    <3>3. WrittenRows("events") = {x \in AcceptedRows : x <= position}
        BY <1>9 DEF WrittenRows
    <3> QED
        BY <3>1, <3>2, <3>3, Zenon
  <2> QED
      BY <2>3, <2>4, <2>5
<1>29. FileInv'
  <2>1. ASSUME NEW f \in Requested(args.command), f # "invalid"
        PROVE  /\ outputs'[f].exists /\ LinesOf(f, run)' /\ LineRows(f)' = WrittenRows(f)'
    <3>1. f = "events"
        BY <2>1 DEF Requested, OutputNames
    <3>2. outputs'["events"] = outputs["events"]
        BY <1>27 DEF OutputNames
    <3>3. outputs["events"].exists /\ LinesOf("events", run)
          /\ LineRows("events") = WrittenRows("events")
        BY <1>26, <3>1
    <3>4. LinesOf("events", run)' /\ LineRows("events")' = LineRows("events")
        BY <1>1, <3>2, <3>3 DEF LinesOf, LineRows
    <3> QED
        BY <1>28, <3>1, <3>2, <3>3, <3>4
  <2>2. \A f \in Requested(args.command) :
            /\ outputs'[f].exists /\ LinesOf(f, run)' /\ LineRows(f)' = WrittenRows(f)'
      BY <1>27, <1>28, <2>1
  <2>3. \A o \in outcomes : o.exit = "ok" =>
            \A f \in Requested(o.command) : outputs'[f].exists
    <3>1. \A o \in outcomes : o.exit = "ok" =>
              \A f \in Requested(o.command) : outputs[f].exists
        BY DEF RCInv, FileInv
    <3>2. \A c : Requested(c) \subseteq OutputNames
        BY DEF Requested, OutputNames
    <3> QED
        BY <1>27, <3>1, <3>2
  <2>4. ~args.force => \A o \in outcomes : o.exit = "ok" =>
            Requested(args.command) \cap Requested(o.command) = {}
      BY <1>1 DEF RCInv, FileInv
  <2> QED
      BY <1>1, <1>27, <2>2, <2>3, <2>4 DEF FileInv
<1>30. OutputKeptUnlessForced'
  <2>1. RejectedUpTo(last) \subseteq Due("invalid") /\ Initial(RejectedUpTo(last), Due("invalid"))
    <3>1. \A x, y \in RejectedRows : y < x /\ x <= last => y <= last
        BY <1>3, <1>13
    <3> QED
        BY <3>1 DEF RejectedUpTo, Due, Initial
  <2> QED
      BY <1>1, <1>25, <1>27, <1>28, <2>1, KeptAsWritten
<1> QED
    BY <1>11, <1>12, <1>16, <1>17, <1>18, <1>19, <1>20, <1>21, <1>22, <1>29, <1>30 DEF RCInv

-----------------------------------------------------------------------------
(* A run starts. *)

LEMMA StartStep ==
    ASSUME RCInv, NEW command \in Commands, NEW force \in BOOLEAN, StartRun(command, force)
    PROVE  RCInv'
<1> DEFINE new == [run |-> run + 1, command |-> command, force |-> force, exit |-> "error"]
<1>1. /\ exit # "running" /\ run' = run + 1
      /\ args' = [command |-> command, force |-> force]
      /\ position' = 0 /\ batch' = << >> /\ waiting' = NoRow /\ stats' = NoStats
      /\ queue' = << >> /\ reports' = << >> /\ errors' = {}
      /\ rows' = rows /\ log' = log /\ inflight' = inflight
    BY DEF StartRun, ingressVars
<1>2. \/ /\ exit' = "error" /\ outcomes' = outcomes \cup {new} /\ outputs' = outputs
      \/ /\ ~OutputRefused(command, force) /\ exit' = "running" /\ outcomes' = outcomes
         /\ outputs' = [f \in OutputNames |-> IF f \in Requested(command)
                                              THEN [exists |-> TRUE, lines |-> << >>]
                                              ELSE outputs[f]]
    BY <1>1 DEF StartRun, Outcome
<1>3. /\ run \in Nat /\ run' \in Nat \ {0} /\ run # run' /\ 1..run \subseteq 1..run'
      /\ run' \notin 1..run /\ run' \in 1..run'
      /\ args'.command = command /\ args'.force = force
      /\ \A n \in Nat : n <= run => n # run'
      /\ 0..run \subseteq 0..run'
  <2>1. run \in Nat
      BY Typed
  <2> QED
      BY <1>1, <2>1
<1>4. /\ new.run = run' /\ new.command = command /\ new.force = force /\ new.exit = "error"
      /\ new \in [run : Nat, command : Commands, force : BOOLEAN,
                  exit : {"ok", "error", "crashed"}]
    BY <1>1, <1>3
<1> HIDE DEF new
<1>5. /\ AcceptedRows' = AcceptedRows /\ RejectedRows' = RejectedRows
    BY <1>1, RowsAlone
<1>6. /\ \A i \in DOMAIN log : log[i].run # run'
      /\ \A m \in inflight : m.run # run'
    BY <1>3, MessageTyped
<1>7. /\ \A o \in outcomes : o.run \in 1..run /\ o.run # run'
      /\ \A o \in outcomes' : o \in outcomes \/ o = new
      /\ \A o \in outcomes' : o.exit = "ok" => o \in outcomes
  <2>1. \A o \in outcomes : o.run \in 1..run
      BY DEF RCInv, OutcomeInv
  <2> QED
      BY <1>2, <1>3, <1>4, <2>1
<1>8. ClientTypeOK'
  <2>1. args' \in [command : Commands, force : BOOLEAN]
      BY <1>1
  <2>2. position' \in 0..Len(rows) /\ waiting' \in 0..Len(rows)
      BY <1>1, RowsTyped DEF NoRow
  <2>3. stats' \in [rows : Nat, emitted : Nat, invalid : Nat, batches : Nat]
      BY <1>1 DEF NoStats
  <2>4. outcomes' \subseteq [run : Nat, command : Commands, force : BOOLEAN,
                             exit : {"ok", "error", "crashed"}]
      BY <1>4, <1>7 DEF RCInv, ClientTypeOK
  <2>5. rows \in Files
      BY DEF RCInv, ClientTypeOK
  <2> QED
      BY <1>1, <1>2, <1>3, <2>1, <2>2, <2>3, <2>4, <2>5 DEF ClientTypeOK
<1>9. \A m : Sendable(m) => Sendable(m)'
    BY <1>3, <1>5 DEF Sendable
<1>10. MessagesOK'
  <2>1. /\ \A i \in DOMAIN log : Sendable(log[i])
        /\ log \in Seq(Messages)
        /\ inflight \subseteq Messages /\ \A m \in inflight : Sendable(m)
      BY DEF RCInv, MessagesOK
  <2>2. \A i \in DOMAIN log' : Sendable(log[i])'
      BY <1>1, <1>3, <1>5, <2>1 DEF Sendable
  <2> QED
      BY <1>1, <1>9, <2>1, <2>2 DEF MessagesOK
<1>11. OutcomeInv'
  <2>1. \A o \in outcomes' : o.run \in 1..run'
      BY <1>3, <1>4, <1>7
  <2>2. ASSUME NEW o \in outcomes', o.run = run'
        PROVE  exit' # "running" /\ o.command = args'.command /\ o.force = args'.force
    <3>1. o = new /\ o \notin outcomes
        BY <1>7, <2>2
    <3> QED
        BY <1>2, <1>3, <1>4, <3>1
  <2>3. exit' # "running" => new \in outcomes'
      BY <1>2
  <2> QED
      BY <1>3, <1>4, <2>1, <2>2, <2>3 DEF OutcomeInv
<1>12. SinkInv'
    BY <1>1, <1>6 DEF RCInv, SinkInv, NoRow
<1>13. OrderInv'
    BY <1>1 DEF RCInv, OrderInv, PublishedInOrder
<1>14. BatchInv'
    BY <1>1, <1>6 DEF BatchInv
<1>15. DeliveredInv'
  <2>1. \A x \in AcceptedRows : ~(x <= 0)
      BY RowsTyped
  <2>2. \A o \in outcomes : o.exit = "ok" /\ o.command # "replay" =>
            \A x \in AcceptedRows : InLog(o.run, x)
      BY DEF RCInv, DeliveredInv
  <2>3. \A r, x : InLog(r, x)' <=> InLog(r, x)
      BY <1>1 DEF InLog
  <2> QED
      BY <1>1, <1>5, <1>7, <2>1, <2>2, <2>3 DEF DeliveredInv
<1>16. /\ \A v \in Invocations' : v \in Invocations \/ v.run = run'
       /\ \A v \in Invocations : v \in Invocations' \/ v.run = 0
       /\ [run |-> run', command |-> command, force |-> force] \in Invocations'
  <2>1. \A v \in Invocations' : v \in Invocations \/ v.run = run'
      BY <1>3, <1>4, <1>7 DEF Invocations
  <2>2. ASSUME NEW v \in Invocations, v.run # 0
        PROVE  v \in Invocations'
    <3>1. outcomes \subseteq outcomes'
        BY <1>2
    <3>2. CASE \E o \in outcomes : v = [run |-> o.run, command |-> o.command, force |-> o.force]
        BY <3>1, <3>2 DEF Invocations
    <3>3. CASE v = [run |-> run, command |-> args.command, force |-> args.force]
      <4>1. run > 0
          BY <1>3, <2>2, <3>3
      <4>2. \E o \in outcomes : o.run = run /\ o.command = args.command /\ o.force = args.force
          BY <1>1, <4>1 DEF RCInv, OutcomeInv
      <4> QED
          BY <3>1, <3>3, <4>2 DEF Invocations
    <3> QED
        BY <3>2, <3>3 DEF Invocations
  <2>3. [run |-> run', command |-> command, force |-> force] \in Invocations'
      BY <1>3 DEF Invocations
  <2> QED
      BY <2>1, <2>2, <2>3
<1>17. GapInv'
  <2>1. \A l : Gapless(l) => Gapless(l)'
    <3>1. \A r, x : InLog(r, x) => InLog(r, x)'
        BY <1>1 DEF InLog
    <3> QED
        BY <1>1, <3>1, GaplessStays
  <2>2. \A m \in inflight' : Gapless(m)'
      BY <1>1, <2>1 DEF RCInv, GapInv
  <2>3. \A v \in Invocations : v.command = "http" =>
            \A i \in DOMAIN log : log[i].run = v.run => Gapless(log[i])
      BY DEF RCInv, GapInv
  <2>4. \A v \in Invocations' : v.command = "http" =>
            \A l : (\E i \in DOMAIN log : log[i] = l) /\ l.run = v.run => Gapless(l)'
      BY <1>6, <1>16, <2>1, <2>3
  <2>5. \A v \in Invocations' : v.command = "http" =>
            \A i \in DOMAIN log' : log'[i].run = v.run => Gapless(log[i])'
      BY <1>1, <2>4 DEF Gapless, Postable, EventOf
  <2> QED
      BY <2>2, <2>5 DEF GapInv
<1>18. StatsInv'
  <2>1. RowsUpTo(position)' = {} /\ RejectedUpTo(position)' = {}
      BY <1>1, <1>5, RowsTyped DEF RowsUpTo, RejectedUpTo
  <2>2. Cardinality({}) = 0
      BY FS_EmptySet
  <2>3. exit' # "ok"
      BY <1>2
  <2>4. stats'.rows = 0 /\ stats'.emitted = 0 /\ stats'.invalid = 0 /\ Len(batch') = 0
      BY <1>1 DEF NoStats
  <2>5. /\ Cardinality(RowsUpTo(position))' = 0
        /\ Cardinality(RejectedUpTo(position))' = 0
      BY <2>1, <2>2
  <2> QED
      BY <1>1, <2>3, <2>4, <2>5 DEF StatsInv
<1>19. /\ DOMAIN outputs = OutputNames /\ \A f \in OutputNames : LinesOK(f)
       /\ \A o \in outcomes : o.exit = "ok" =>
             \A f \in Requested(o.command) : outputs[f].exists
       /\ \A c : Requested(c) \subseteq OutputNames
    BY DEF RCInv, FileInv, Requested, OutputNames
\* An output is opened when the run goes on, and left alone otherwise.
<1>20. \A f \in OutputNames :
           \/ outputs'[f] = outputs[f] /\ (exit' = "running" => f \notin Requested(command))
           \/ /\ outputs'[f] = [exists |-> TRUE, lines |-> << >>] /\ exit' = "running"
              /\ f \in Requested(command) /\ (~force => ~outputs[f].exists)
    BY <1>2, <1>3 DEF OutputRefused
<1>21. FileInv'
  <2>1. DOMAIN outputs' = OutputNames
      BY <1>2, <1>19
  <2>2. \A f \in OutputNames : LinesOK(f)'
    <3> SUFFICES ASSUME NEW f \in OutputNames
                 PROVE  LinesOK(f)'
        OBVIOUS
    <3>1. CASE outputs'[f] = outputs[f]
        BY <1>19, <3>1 DEF LinesOK
    <3>2. CASE outputs'[f] = [exists |-> TRUE, lines |-> << >>]
        BY <3>2 DEF LinesOK
    <3> QED
        BY <1>20, <3>1, <3>2
  <2>3. ASSUME exit' = "running", NEW f \in Requested(command)
        PROVE  outputs'[f].exists /\ LinesOf(f, run)' /\ LineRows(f)' = WrittenRows(f)'
    <3>1. outputs'[f] = [exists |-> TRUE, lines |-> << >>]
        BY <1>19, <1>20, <2>3
    <3>2. LinesOf(f, run)' /\ LineRows(f)' = {}
        BY <3>1 DEF LinesOf, LineRows
    <3>3. WrittenRows(f)' = {}
        BY <1>1, <1>5, RowsTyped DEF WrittenRows, RejectedUpTo
    <3> QED
        BY <3>1, <3>2, <3>3
  <2>4. \A o \in outcomes' : o.exit = "ok" =>
            \A f \in Requested(o.command) : outputs'[f].exists
      BY <1>7, <1>19, <1>20
  <2>5. exit' = "running" /\ ~force => \A o \in outcomes' : o.exit = "ok" =>
            Requested(command) \cap Requested(o.command) = {}
      BY <1>7, <1>19, <1>20
  <2> QED
      BY <1>3, <2>1, <2>2, <2>3, <2>4, <2>5 DEF FileInv, Running
<1>22. OutputKeptUnlessForced'
  <2>1. \A g : Due(g)' = Due(g)
      BY <1>5 DEF Due
  <2>2. \A g : outputs'[g] = outputs[g] =>
            /\ LineRows(g)' = LineRows(g)
            /\ \A r : LinesOf(g, r)' <=> LinesOf(g, r)
      BY DEF LineRows, LinesOf
  <2>3. ASSUME NEW g \in OutputNames
        PROVE  \E r \in 0..run' : LinesOf(g, r)' /\ Initial(LineRows(g)', Due(g))
    <3>1. CASE outputs'[g] = outputs[g]
      <4>1. PICK r \in 0..run : LinesOf(g, r) /\ Initial(LineRows(g), Due(g))
          BY DEF RCInv, OutputKeptUnlessForced
      <4> QED
          BY <1>3, <2>2, <3>1, <4>1
    <3>2. CASE outputs'[g] = [exists |-> TRUE, lines |-> << >>]
      <4>1. LineRows(g)' = {} /\ \A r : LinesOf(g, r)'
          BY <3>2 DEF LinesOf, LineRows
      <4>2. 0 \in 0..run'
          BY <1>3
      <4> QED
          BY <4>1, <4>2 DEF Initial
    <3> QED
        BY <1>20, <3>1, <3>2
  <2>4. ASSUME NEW g \in OutputNames, NEW o \in outcomes',
               o.exit = "ok", g \in Requested(o.command),
               \A v \in Invocations' :
                   v.run > o.run => ~v.force \/ g \notin Requested(v.command)
        PROVE  LinesOf(g, o.run)' /\ LineRows(g)' = Due(g)
    <3>1. o \in outcomes /\ o.run \in 1..run
        BY <1>7, <2>4
    <3>2. o.run \in Nat \ {0} /\ run' > o.run
        BY <1>1, <1>3, <3>1
    <3>3. \A v \in Invocations : v.run > o.run => ~v.force \/ g \notin Requested(v.command)
        BY <1>16, <2>4, <3>2
    <3>4. LinesOf(g, o.run) /\ LineRows(g) = Due(g)
        BY <2>4, <3>1, <3>3 DEF RCInv, OutputKeptUnlessForced
    <3>5. ~force \/ g \notin Requested(command)
        BY <1>16, <2>4, <3>2
    <3>6. outputs[g].exists
        BY <1>19, <2>4, <3>1
    <3>7. outputs'[g] = outputs[g]
        BY <1>20, <3>5, <3>6
    <3> QED
        BY <2>2, <3>4, <3>7
  <2>5. \A g \in OutputNames : \E r \in 0..run' :
            LinesOf(g, r)' /\ Initial(LineRows(g), Due(g))'
      BY <2>1, <2>3 DEF Initial
  <2> QED
      BY <2>1, <2>4, <2>5 DEF OutputKeptUnlessForced
<1> QED
    BY <1>8, <1>10, <1>11, <1>12, <1>13, <1>14, <1>15, <1>17, <1>18, <1>21, <1>22 DEF RCInv

-----------------------------------------------------------------------------
(* A run ends. *)

\* How the ends of a run differ: the way it ends, how much of the queue the
\* broker still writes, and whether the outputs lose their last lines.
Ended(how, n) ==
    /\ Running /\ how \in {"ok", "error", "crashed"}
    /\ exit' = how
    /\ UNCHANGED <<rows, run, args, position, batch, stats, inflight>>
    /\ outcomes' = outcomes \cup {[run |-> run, command |-> args.command,
                                   force |-> args.force, exit |-> how]}
    /\ waiting' = NoRow
    /\ log' = log \o SubSeq(queue, 1, n) /\ queue' = << >>
    /\ reports' \in {reports, << >>}
    /\ how = "ok" => AtEndOfFile /\ queue = << >> /\ ~Failed
    /\ outputs' = outputs \/ (how # "ok" /\ OutputsCut)

LEMMA WholeSequence ==
    ASSUME NEW S, NEW a \in Seq(S)
    PROVE  SubSeq(a, 1, Len(a)) = a
    OBVIOUS

\* An output of the run keeps the beginning of its lines, any other all.
LEMMA CutFacts ==
    ASSUME RCInv, Running, OutputsCut, run' = run
    PROVE  /\ DOMAIN outputs' = OutputNames /\ \A f \in OutputNames : LinesOK(f)'
           /\ \A f \in OutputNames : outputs'[f].exists = outputs[f].exists
           /\ \A f \in OutputNames \ Requested(args.command) :
                 /\ outputs'[f].lines = outputs[f].lines
           /\ \A f \in Requested(args.command) :
                 /\ LinesOf(f, run)'
                 /\ Initial(LineRows(f)', Due(f))
<1>1. PICK kept \in [OutputNames -> 0..Len(rows)] :
          /\ \A f \in OutputNames :
                /\ kept[f] <= Len(outputs[f].lines)
                /\ f \notin Requested(args.command) => kept[f] = Len(outputs[f].lines)
          /\ outputs' = [f \in OutputNames |->
                [outputs[f] EXCEPT !.lines = SubSeq(@, 1, kept[f])]]
    BY DEF OutputsCut
<1>2. ASSUME NEW f \in OutputNames
      PROVE  /\ outputs[f].lines \in Seq(Messages) /\ outputs[f].exists \in BOOLEAN
             /\ kept[f] \in 0..Len(outputs[f].lines)
             /\ outputs'[f] = [exists |-> outputs[f].exists,
                               lines |-> SubSeq(outputs[f].lines, 1, kept[f])]
  <2>1. outputs[f] \in [exists : BOOLEAN, lines : Seq(Messages)]
      BY DEF RCInv, FileInv, LinesOK
  <2>2. kept[f] \in 0..Len(outputs[f].lines)
      BY <1>1, <2>1, RowsTyped
  <2>3. outputs'[f] = [outputs[f] EXCEPT !.lines = SubSeq(@, 1, kept[f])]
      BY <1>1
  <2> QED
      BY <2>1, <2>2, <2>3
<1>3. ASSUME NEW f \in OutputNames
      PROVE  /\ outputs'[f].lines \in Seq(Messages) /\ DOMAIN outputs'[f].lines = 1..kept[f]
             /\ \A i \in 1..kept[f] : /\ i \in DOMAIN outputs[f].lines
                                      /\ outputs'[f].lines[i] = outputs[f].lines[i]
             /\ outputs'[f].exists = outputs[f].exists
             /\ LinesOK(f)'
  <2> DEFINE old == outputs[f].lines
             now == SubSeq(old, 1, kept[f])
  <2>1. /\ old \in Seq(Messages) /\ outputs[f].exists \in BOOLEAN
        /\ kept[f] \in 0..Len(old)
        /\ outputs'[f] = [exists |-> outputs[f].exists, lines |-> now]
      BY <1>2
  <2>2. /\ now \in Seq(Messages) /\ DOMAIN now = 1..kept[f]
        /\ \A i \in 1..kept[f] : i \in DOMAIN old /\ now[i] = old[i]
      BY <2>1, Prefix
  <2> HIDE DEF now
  <2> QED
      BY <2>1, <2>2 DEF LinesOK
<1>4. ASSUME NEW f \in OutputNames \ Requested(args.command)
      PROVE  outputs'[f].lines = outputs[f].lines
  <2>1. kept[f] = Len(outputs[f].lines) /\ outputs[f].lines \in Seq(Messages)
      BY <1>1, <1>2
  <2>2. outputs'[f] = [exists |-> outputs[f].exists,
                       lines |-> SubSeq(outputs[f].lines, 1, kept[f])]
      BY <1>2
  <2>3. outputs'[f].lines = SubSeq(outputs[f].lines, 1, kept[f])
      BY <2>2
  <2>4. SubSeq(outputs[f].lines, 1, Len(outputs[f].lines)) = outputs[f].lines
      BY <2>1, WholeSequence, Zenon
  <2> QED
      BY <2>1, <2>3, <2>4, Zenon
<1>5. ASSUME NEW f \in Requested(args.command)
      PROVE  LinesOf(f, run)' /\ Initial(LineRows(f)', Due(f))
  <2> DEFINE old == outputs[f].lines
             now == outputs'[f].lines
  <2>1. f \in OutputNames
      BY DEF Requested, OutputNames
  <2>a. old \in Seq(Messages) /\ kept[f] \in 0..Len(old)
      BY <1>2, <2>1
  <2>b. /\ now \in Seq(Messages) /\ DOMAIN now = 1..kept[f]
        /\ \A i \in 1..kept[f] : i \in DOMAIN old /\ now[i] = old[i]
      BY <1>3, <2>1
  <2>c. kept[f] \in Nat
      BY <2>a
  <2>2. /\ now \in Seq(Messages) /\ DOMAIN now = 1..kept[f]
        /\ \A i \in 1..kept[f] : i \in DOMAIN old /\ now[i] = old[i]
        /\ old \in Seq(Messages) /\ kept[f] \in Nat
      BY <2>a, <2>b, <2>c
  <2>3. /\ LinesOf(f, run) /\ LineRows(f) = {old[i].row : i \in DOMAIN old}
        /\ Initial(LineRows(f), Due(f))
      BY <2>1, WrittenIsInitial DEF RCInv, FileInv, LineRows
  <2>4. /\ \A i \in DOMAIN old : old[i].run = run
        /\ \A i, j \in DOMAIN old : i < j => old[i].row < old[j].row
      BY <2>3 DEF LinesOf
  <2> HIDE DEF old, now
  <2>5. /\ \A i \in DOMAIN now : now[i].run = run
        /\ \A i, j \in DOMAIN now : i < j => now[i].row < now[j].row
      BY <2>2, <2>4
  <2>6. LinesOf(f, run)'
      BY <2>5 DEF LinesOf, now
  <2>7. LineRows(f)' = {now[i].row : i \in DOMAIN now}
      BY DEF LineRows, now
  <2>8. LineRows(f)' \subseteq Due(f)
      BY <2>2, <2>3, <2>7 DEF Initial
  <2>9. ASSUME NEW x \in LineRows(f)', NEW y \in Due(f), y < x
        PROVE  y \in LineRows(f)'
    <3>1. PICK i \in 1..kept[f] : x = old[i].row /\ i \in DOMAIN old
        BY <2>2, <2>7
    <3>2. y \in LineRows(f)
        BY <2>3, <2>9, <3>1 DEF Initial
    <3>3. PICK j \in DOMAIN old : y = old[j].row
        BY <2>3, <3>2
    <3>4. DOMAIN old \subseteq Nat \ {0} /\ old[i].row \in Nat /\ old[j].row \in Nat
      <4>1. DOMAIN old = 1..Len(old) /\ old[i] \in Messages /\ old[j] \in Messages
          BY <2>2, <3>1
      <4> QED
          BY <4>1 DEF Messages
    <3>5. ~(i < j)
        BY <2>4, <2>9, <3>1, <3>3, <3>4
    <3>6. j \in 1..kept[f]
        BY <2>2, <3>4, <3>5
    <3> QED
        BY <2>2, <2>7, <3>3, <3>6
  <2> QED
      BY <2>6, <2>8, <2>9 DEF Initial
<1>6. DOMAIN outputs' = OutputNames
    BY <1>1
<1> QED
    BY <1>3, <1>4, <1>5, <1>6

LEMMA EndStep ==
    ASSUME RCInv, NEW how, NEW n \in 0..Len(queue), Ended(how, n)
    PROVE  RCInv'
<1> DEFINE new == [run |-> run, command |-> args.command, force |-> args.force,
                   exit |-> how]
<1>1. /\ Running /\ how \in {"ok", "error", "crashed"} /\ exit' = how /\ waiting' = NoRow
      /\ rows' = rows /\ run' = run /\ args' = args /\ position' = position
      /\ batch' = batch /\ stats' = stats /\ inflight' = inflight
      /\ outcomes' = outcomes \cup {new}
      /\ log' = log \o SubSeq(queue, 1, n) /\ queue' = << >>
      /\ reports' \in {reports, << >>}
    BY DEF Ended
<1>2. how = "ok" => /\ batch = << >> /\ position = Len(rows)
                    /\ queue = << >> /\ ~Failed
    BY DEF Ended, AtEndOfFile
<1>3. /\ new.run = run /\ new.command = args.command /\ new.force = args.force
      /\ new.exit = how /\ run \in Nat \ {0} /\ ~Running' /\ exit # "ok"
  <2>1. run \in Nat
      BY Typed
  <2> QED
      BY <1>1, <2>1 DEF Running
<1>4. /\ log' \in Seq(Messages)
      /\ \A m : (\E i \in DOMAIN log' : log'[i] = m) => Sendable(m)'
      /\ \A r \in Nat : PublishedInOrder(r)'
      /\ \A m \in inflight, i \in DOMAIN log' :
            log'[i].run = m.run => log'[i].row < m.row
      /\ \A r, x : InLog(r, x) => InLog(r, x)'
      /\ \A m \in inflight : Gapless(m)'
      /\ \A v \in Invocations : v.command = "http" =>
            \A m : (\E i \in DOMAIN log' : log'[i] = m) /\ m.run = v.run => Gapless(m)'
    BY <1>1, FromQueue
<1>5. AcceptedRows' = AcceptedRows /\ RejectedRows' = RejectedRows
    BY <1>1, RowsAlone
<1>6. new \in [run : Nat, command : Commands, force : BOOLEAN,
               exit : {"ok", "error", "crashed"}]
    BY <1>1, <1>3, Typed
<1>7. /\ \A o \in outcomes' : o \in outcomes \/ o = new
      /\ \A o \in outcomes : o.run \in 1..run /\ o.run # run
      /\ new \in outcomes'
    BY <1>1 DEF RCInv, OutcomeInv, Running
<1>8. Invocations' = Invocations
    BY <1>1, <1>3 DEF Invocations
<1> HIDE DEF new
<1>9. ClientTypeOK'
  <2>1. waiting' \in 0..Len(rows)
      BY <1>1, RowsTyped DEF NoRow
  <2>2. outcomes' \subseteq [run : Nat, command : Commands, force : BOOLEAN,
                             exit : {"ok", "error", "crashed"}]
      BY <1>6, <1>7 DEF RCInv, ClientTypeOK
  <2>3. /\ rows \in Files /\ args \in [command : Commands, force : BOOLEAN]
        /\ position \in 0..Len(rows)
        /\ stats \in [rows : Nat, emitted : Nat, invalid : Nat, batches : Nat]
      BY DEF RCInv, ClientTypeOK
  <2>4. rows' \in Files /\ args' \in [command : Commands, force : BOOLEAN]
      BY <1>1, <2>3
  <2>5. /\ position' \in 0..Len(rows') /\ waiting' \in 0..Len(rows')
        /\ stats' \in [rows : Nat, emitted : Nat, invalid : Nat, batches : Nat]
      BY <1>1, <2>1, <2>3
  <2>6. /\ run' \in Nat /\ run' # 0
        /\ exit' \in {"none", "running", "ok", "error", "crashed"}
      BY <1>1, <1>3
  <2> QED
      BY <2>2, <2>4, <2>5, <2>6 DEF ClientTypeOK
<1>10. MessagesOK'
  <2>1. \A i \in DOMAIN log' : Sendable(log[i])'
      BY <1>4 DEF Sendable
  <2>2. reports' \in Seq([message : Messages, failed : BOOLEAN])
    <3>1. reports \in Seq([message : Messages, failed : BOOLEAN])
        BY DEF RCInv, MessagesOK
    <3>2. CASE reports' = reports
        BY <3>1, <3>2
    <3>3. CASE reports' = << >>
        BY <3>3
    <3> QED
        BY <1>1, <3>2, <3>3
  <2>3. batch' \in Seq(Nat) /\ \A i \in DOMAIN batch' : batch'[i] \in AcceptedRows'
      BY <1>1, <1>5 DEF RCInv, MessagesOK
  <2>4. inflight' \subseteq Messages /\ \A m \in inflight' : Sendable(m)'
    <3>1. \A m : Sendable(m) => Sendable(m)'
        BY <1>1, <1>5 DEF Sendable
    <3> QED
        BY <1>1, <3>1 DEF RCInv, MessagesOK
  <2> QED
      BY <1>1, <1>4, <2>1, <2>2, <2>3, <2>4 DEF MessagesOK
<1>11. OutcomeInv'
  <2>1. \A o \in outcomes' : o.run \in 1..run
      BY <1>3, <1>7
  <2>2. \A o \in outcomes' : o.run = run =>
            exit' # "running" /\ o.command = args.command /\ o.force = args.force
      BY <1>1, <1>3, <1>7
  <2> QED
      BY <1>1, <1>3, <1>7, <2>1, <2>2 DEF OutcomeInv
<1>12. SinkInv'
  <2>1. exit' # "running"
      BY <1>1
  <2> QED
      BY <1>1, <1>3, <2>1 DEF RCInv, SinkInv
<1>13. OrderInv'
    BY <1>1, <1>4 DEF OrderInv
<1>14. BatchInv'
    BY <1>3 DEF BatchInv
<1>15. DeliveredInv'
  <2>1. ASSUME NEW o \in outcomes', o.exit = "ok", o.command # "replay", NEW x \in AcceptedRows
        PROVE  InLog(o.run, x)'
    <3>1. CASE o \in outcomes
      <4>1. InLog(o.run, x)
          BY <2>1, <3>1 DEF RCInv, DeliveredInv
      <4> QED
          BY <1>4, <4>1
    <3>2. CASE o = new
      <4>1. x <= position /\ ~InBatch(x) /\ ~InQueue(x) /\ ~Failed
          BY <1>2, <1>3, <2>1, <3>2, RowsTyped DEF InBatch, InQueue
      <4>2. InLog(run, x)
          BY <1>1, <1>3, <2>1, <3>2, <4>1 DEF RCInv, DeliveredInv
      <4>3. InLog(o.run, x)
          BY <1>3, <3>2, <4>2
      <4> QED
          BY <1>4, <4>3
    <3> QED
        BY <1>7, <3>1, <3>2
  <2> QED
      BY <1>3, <1>5, <2>1 DEF DeliveredInv
<1>16. GapInv'
  <2>1. \A v \in Invocations : v.command = "http" =>
            \A i \in DOMAIN log' : log'[i].run = v.run => Gapless(log[i])'
      BY <1>4 DEF Gapless, Postable, EventOf
  <2> QED
      BY <1>1, <1>4, <1>8, <2>1 DEF GapInv
<1>17. StatsInv'
  <2>1. RowsUpTo(position)' = RowsUpTo(position) /\ RejectedUpTo(position)' = RejectedUpTo(position)
      BY <1>1, <1>5 DEF RowsUpTo, RejectedUpTo
  <2> QED
      BY <1>1, <1>2, <1>3, <2>1 DEF RCInv, StatsInv
<1>18. /\ DOMAIN outputs = OutputNames /\ \A f \in OutputNames : LinesOK(f)
       /\ \A f \in Requested(args.command) :
             outputs[f].exists /\ LinesOf(f, run) /\ LineRows(f) = WrittenRows(f)
       /\ \A o \in outcomes : o.exit = "ok" =>
             \A f \in Requested(o.command) : outputs[f].exists
       /\ \A c : Requested(c) \subseteq OutputNames
    BY <1>1 DEF RCInv, FileInv, Requested, OutputNames
\* The outputs after the end, cut or not.
<1>19. /\ DOMAIN outputs' = OutputNames /\ \A f \in OutputNames : LinesOK(f)'
       /\ \A f \in OutputNames : outputs'[f].exists = outputs[f].exists
       /\ \A f \in OutputNames \ Requested(args.command) :
             outputs'[f].lines = outputs[f].lines
       /\ \A f \in Requested(args.command) :
             LinesOf(f, run)' /\ Initial(LineRows(f)', Due(f))
       /\ how = "ok" => outputs' = outputs
  <2>1. CASE outputs' = outputs
    <3>1. \A f \in OutputNames : LinesOK(f)'
        BY <1>18, <2>1 DEF LinesOK
    <3>2. \A f \in Requested(args.command) : LinesOf(f, run)' /\ LineRows(f)' = LineRows(f)
        BY <1>1, <1>18, <2>1 DEF LinesOf, LineRows
    <3>3. \A f \in Requested(args.command) : Initial(LineRows(f), Due(f))
        BY <1>1, <1>18, WrittenIsInitial
    <3> QED
        BY <1>18, <2>1, <3>1, <3>2, <3>3
  <2>2. CASE how # "ok" /\ OutputsCut
      BY <1>1, <2>2, CutFacts
  <2> QED
      BY <2>1, <2>2 DEF Ended
<1>20. FileInv'
  <2>1. \A o \in outcomes' : o.exit = "ok" =>
            \A f \in Requested(o.command) : outputs'[f].exists
      BY <1>3, <1>7, <1>18, <1>19
  <2> QED
      BY <1>3, <1>19, <2>1 DEF FileInv
<1>21. OutputKeptUnlessForced'
  <2>1. \A g : Due(g)' = Due(g)
      BY <1>5 DEF Due
  <2>2. \A g \in OutputNames \ Requested(args.command) :
            /\ LineRows(g)' = LineRows(g)
            /\ \A r : LinesOf(g, r)' <=> LinesOf(g, r)
      BY <1>19 DEF LineRows, LinesOf
  <2>3. ASSUME NEW g \in OutputNames
        PROVE  \E r \in 0..run : LinesOf(g, r)' /\ Initial(LineRows(g)', Due(g))
    <3>1. CASE g \in Requested(args.command)
      <4>1. run \in 0..run
          BY <1>3
      <4>2. LinesOf(g, run)' /\ Initial(LineRows(g)', Due(g))
          BY <1>19, <3>1
      <4> QED
          BY <1>1, <4>1, <4>2
    <3>2. CASE g \notin Requested(args.command)
      <4>1. PICK r \in 0..run : LinesOf(g, r) /\ Initial(LineRows(g), Due(g))
          BY DEF RCInv, OutputKeptUnlessForced
      <4> QED
          BY <2>2, <3>2, <4>1
    <3> QED
        BY <3>1, <3>2
  <2>4. ASSUME NEW g \in OutputNames, NEW o \in outcomes',
               o.exit = "ok", g \in Requested(o.command),
               \A v \in Invocations :
                   v.run > o.run => ~v.force \/ g \notin Requested(v.command)
        PROVE  LinesOf(g, o.run)' /\ LineRows(g)' = Due(g)
    <3>1. CASE o \in outcomes
      <4>1. g \notin Requested(args.command)
          BY <1>1, <2>4, <3>1, NothingToKeep
      <4>2. LinesOf(g, o.run) /\ LineRows(g) = Due(g)
          BY <2>4, <3>1 DEF RCInv, OutputKeptUnlessForced
      <4> QED
          BY <2>2, <4>1, <4>2
    <3>2. CASE o = new
      <4>1. /\ how = "ok" /\ o.run = run /\ g \in Requested(args.command)
            /\ batch = << >> /\ position = Len(rows)
          BY <1>2, <1>3, <2>4, <3>2
      <4>2. outputs' = outputs
          BY <1>19, <4>1
      <4>3. LinesOf(g, run) /\ LineRows(g) = WrittenRows(g)
          BY <1>18, <4>1
      <4>4. WrittenRows(g) = Due(g)
        <5>1. /\ \A x \in AcceptedRows : x <= position /\ ~InBatch(x)
              /\ \A x \in RejectedRows : x <= position
            BY <4>1, RowsTyped DEF InBatch
        <5> QED
            BY <2>4, <5>1 DEF WrittenRows, RejectedUpTo, Due, OutputNames
      <4>5. LineRows(g)' = LineRows(g) /\ \A r : LinesOf(g, r)' <=> LinesOf(g, r)
          BY <4>2 DEF LineRows, LinesOf
      <4> QED
          BY <4>1, <4>3, <4>4, <4>5
    <3> QED
        BY <1>7, <3>1, <3>2
  <2>5. \A g \in OutputNames : \E r \in 0..run :
            LinesOf(g, r)' /\ Initial(LineRows(g), Due(g))'
      BY <2>1, <2>3 DEF Initial
  <2> QED
      BY <1>1, <1>8, <2>1, <2>4, <2>5 DEF OutputKeptUnlessForced
<1> QED
    BY <1>9, <1>10, <1>11, <1>12, <1>13, <1>14, <1>15, <1>16, <1>17, <1>20, <1>21 DEF RCInv

LEMMA EndSteps ==
    ASSUME RCInv, \/ EmitWhenFull \/ PostFails \/ CloseFlushed \/ CloseTimedOut
                  \/ CloseDone \/ OutputFails \/ Killed
    PROVE  RCInv'
<1>1. ASSUME NEW how, End(how)
      PROVE  /\ exit' = how /\ waiting' = NoRow
             /\ UNCHANGED <<rows, run, args, position, batch, stats, inflight>>
             /\ outcomes' = outcomes \cup {[run |-> run, command |-> args.command,
                                            force |-> args.force, exit |-> how]}
    BY <1>1 DEF End, Outcome, readerVars, ingressVars
<1>2. /\ log = log \o SubSeq(queue, 1, 0) /\ 0 \in 0..Len(queue)
      /\ queue \in Seq(Messages) /\ Len(queue) \in Nat
  <2>1. queue \in Seq(Messages) /\ log \in Seq(Messages) /\ Len(queue) \in Nat
      BY Typed
  <2>2. SubSeq(queue, 1, 0) = << >> /\ log \o << >> = log
      BY <2>1
  <2> QED
      BY <2>1, <2>2
\* The process ends and its producer with it.
<1>3. ASSUME NEW how \in {"error", "crashed"}, Running, End(how), PublisherLost,
             outputs' = outputs \/ OutputsCut
      PROVE  RCInv'
  <2>1. PICK n \in 0..Len(queue) : log' = log \o SubSeq(queue, 1, n)
      BY <1>3 DEF PublisherLost
  <2>2. queue' = << >> /\ reports' \in {reports, << >>}
      BY <1>3 DEF PublisherLost
  <2>3. Ended(how, n)
      BY <1>1, <1>3, <2>1, <2>2 DEF Ended
  <2> QED
      BY <2>3, EndStep
\* The run ends with nothing in the producer.
<1>4. ASSUME NEW how \in {"ok", "error"}, Running, End(how), queue = << >>,
             UNCHANGED <<queue, log, outputs>>, reports' \in {reports, << >>},
             how = "ok" => AtEndOfFile /\ ~Failed
      PROVE  RCInv'
  <2>1. Ended(how, 0)
    <3>1. log' = log \o SubSeq(queue, 1, 0) /\ queue' = << >>
        BY <1>2, <1>4
    <3> QED
        BY <1>1, <1>4, <3>1 DEF Ended
  <2> QED
      BY <1>2, <2>1, EndStep
<1>5. Running /\ args.command # "publish" => queue = << >> /\ reports = << >> /\ errors = {}
    BY DEF RCInv, SinkInv
<1>6. CASE EmitWhenFull
    BY <1>3, <1>6 DEF EmitWhenFull, ReadyToEmit
<1>7. CASE PostFails
  <2>1. Running /\ End("error") /\ UNCHANGED <<queue, reports, errors, log, outputs>>
      BY <1>7 DEF PostFails, publisherVars
  <2>2. args.command = "http"
      BY <1>7 DEF PostFails, RCInv, SinkInv
  <2> QED
      BY <1>4, <1>5, <2>1, <2>2
<1>8. CASE CloseFlushed
  <2>1. /\ AtEndOfFile /\ Running /\ queue = << >> /\ UNCHANGED <<queue, log, outputs>>
        /\ reports' = << >> /\ End(IF FlushRaises THEN "error" ELSE "ok")
      BY <1>8 DEF CloseFlushed, FlushDone, ServeReports, AtEndOfFile
  <2>2. ~FlushRaises => ~Failed
      BY DEF FlushRaises, ErrorsServed, Failed
  <2>3. CASE FlushRaises
      BY <1>4, <2>1, <2>3
  <2>4. CASE ~FlushRaises
      BY <1>4, <2>1, <2>2, <2>4
  <2> QED
      BY <2>3, <2>4
<1>9. CASE CloseTimedOut
    BY <1>3, <1>9 DEF CloseTimedOut, AtEndOfFile
<1>10. CASE CloseDone
  <2>1. /\ AtEndOfFile /\ Running /\ UNCHANGED <<queue, reports, errors, log, outputs>>
        /\ End("ok") /\ args.command # "publish"
      BY <1>10 DEF CloseDone, publisherVars, AtEndOfFile
  <2>2. ~Failed
      BY <1>5, <2>1 DEF Failed
  <2> QED
      BY <1>4, <1>5, <2>1, <2>2
<1>11. CASE OutputFails
    BY <1>3, <1>11 DEF OutputFails
<1>12. CASE Killed
    BY <1>3, <1>12 DEF Killed
<1> QED
    BY <1>6, <1>7, <1>8, <1>9, <1>10, <1>11, <1>12

-----------------------------------------------------------------------------
LEMMA ClientInitially ==
    ASSUME Init
    PROVE  RCInv
<1>1. /\ queue = << >> /\ reports = << >> /\ errors = {} /\ log = << >>
      /\ inflight = {} /\ rows \in Files /\ run = 0
      /\ args = [command |-> "replay", force |-> FALSE]
      /\ position = 0 /\ batch = << >> /\ waiting = 0 /\ stats = NoStats
      /\ exit = "none" /\ outcomes = {} /\ ~Running
      /\ outputs = [f \in OutputNames |-> NoFile]
    BY DEF Init, PublisherInit, NoRow, Running
<1>2. rows \in Seq([well_formed : BOOLEAN, user : Int, item : Int,
                    category : Int, behavior : STRING, timestamp : Int])
    BY <1>1, FilesAssumption, Zenon
<1>3. 0 \in 0..Len(rows)
    BY <1>2
<1>4. ClientTypeOK
    BY <1>1, <1>3 DEF ClientTypeOK, NoStats, Commands
<1>5. MessagesOK /\ OutcomeInv /\ SinkInv /\ OrderInv /\ BatchInv /\ DeliveredInv
    BY <1>1 DEF MessagesOK, OutcomeInv, SinkInv, OrderInv, BatchInv, DeliveredInv,
                NoRow, PublishedInOrder
<1>6. GapInv /\ StatsInv
  <2>1. DOMAIN log = {}
      BY <1>1
  <2>2. GapInv
      BY <1>1, <2>1 DEF GapInv
  <2>3. StatsInv
      BY <1>1 DEF StatsInv
  <2> QED
      BY <2>2, <2>3
<1>7. \A f \in OutputNames : outputs[f] = [exists |-> FALSE, lines |-> << >>]
    BY <1>1 DEF NoFile
<1>8. FileInv
  <2>1. DOMAIN outputs = OutputNames
      BY <1>1
  <2>2. \A f \in OutputNames : LinesOK(f)
    <3> SUFFICES ASSUME NEW f \in OutputNames
                 PROVE  LinesOK(f)
        OBVIOUS
    <3>1. outputs[f] = [exists |-> FALSE, lines |-> << >>]
        BY <1>7
    <3> QED
        BY <3>1 DEF LinesOK
  <2> QED
      BY <1>1, <2>1, <2>2 DEF FileInv
<1>9. OutputKeptUnlessForced
  <2>1. \A f \in OutputNames : LineRows(f) = {} /\ \A r : LinesOf(f, r)
      BY <1>7 DEF LineRows, LinesOf
  <2> QED
      BY <1>1, <2>1 DEF OutputKeptUnlessForced, Initial
<1> QED
    BY <1>4, <1>5, <1>6, <1>8, <1>9 DEF RCInv

LEMMA ClientUnchanged ==
    ASSUME RCInv, UNCHANGED vars
    PROVE  RCInv'
<1>1. Elsewhere /\ UNCHANGED <<queue, reports, errors, log, inflight, waiting>>
    BY DEF vars, Elsewhere, readerVars, ingressVars
<1>2. /\ ClientTypeOK' /\ OutcomeInv' /\ StatsInv' /\ FileInv'
      /\ OutputKeptUnlessForced'
      /\ Invocations' = Invocations /\ (Running' <=> Running)
      /\ \A x : InBatch(x)' <=> InBatch(x)
  <2>1. waiting' \in 0..Len(rows)
      BY <1>1 DEF RCInv, ClientTypeOK
  <2> QED
      BY <1>1, <2>1, ElsewhereAlone
<1>3. rows' = rows /\ run' = run /\ outcomes' = outcomes /\ args' = args /\ exit' = exit
      /\ position' = position /\ batch' = batch
    BY <1>1 DEF Elsewhere
<1>4. AcceptedRows' = AcceptedRows
    BY <1>3, RowsAlone
<1>5. /\ log' \in Seq(Messages) /\ \A i \in DOMAIN log' : Sendable(log[i])'
      /\ inflight' \subseteq Messages /\ \A m \in inflight' : Sendable(m)'
      /\ \A r \in Nat : PublishedInOrder(r)'
      /\ \A r, x : InLog(r, x)' <=> InLog(r, x)
      /\ GapInv'
    BY <1>1, <1>2, <1>3, TopicAlone
<1>6. MessagesOK'
  <2>1. \A i \in DOMAIN queue' : Sendable(queue[i])'
      BY <1>1, <1>3, <1>4 DEF RCInv, MessagesOK, Sendable
  <2> QED
      BY <1>1, <1>3, <1>4, <1>5, <2>1 DEF RCInv, MessagesOK
<1>7. SinkInv'
    BY <1>1, <1>2, <1>3 DEF RCInv, SinkInv
<1>8. OrderInv'
    BY <1>1, <1>3, <1>5 DEF RCInv, OrderInv
<1>9. BatchInv'
    BY <1>1, <1>2, <1>3, <1>4 DEF RCInv, BatchInv, InBatch
<1>10. DeliveredInv'
    BY <1>1, <1>2, <1>3, <1>4, <1>5 DEF RCInv, DeliveredInv, InQueue, Failed
<1> QED
    BY <1>2, <1>5, <1>6, <1>7, <1>8, <1>9, <1>10 DEF RCInv

\* The argument in one place: the invariant holds in every state.
THEOREM ClientInvariant == Spec => []RCInv
<1>1. Init => RCInv
    BY ClientInitially
<1>2. RCInv /\ [Next]_vars => RCInv'
  <2> SUFFICES ASSUME RCInv, [Next]_vars
               PROVE  RCInv'
      OBVIOUS
  <2>1. CASE UNCHANGED vars
      BY <2>1, ClientUnchanged
  <2>2. ASSUME NEW command \in Commands, NEW force \in BOOLEAN, StartRun(command, force)
        PROVE  RCInv'
      BY <2>2, StartStep
  <2>3. CASE NextBatch
      BY <2>3, NextBatchStep
  <2>4. CASE Emit
      BY <2>4, EmitStep
  <2>5. CASE EmitLine
      BY <2>5, LineStep
  <2>6. CASE Post
      BY <2>6, PostStep
  <2>7. CASE Posted
      BY <2>7, PostedStep
  <2>8. CASE ApiWrites \/ ApiDrops
      BY <2>8, ApiSteps
  <2>9. CASE \/ EmitWhenFull \/ PostFails \/ CloseFlushed \/ CloseTimedOut
             \/ CloseDone \/ OutputFails \/ Killed
      BY <2>9, EndSteps
  <2>10. CASE Acknowledge \/ Expire
      BY <2>10, BrokerSteps
  <2> QED
      BY <2>1, <2>2, <2>3, <2>4, <2>5, <2>6, <2>7, <2>8, <2>9, <2>10 DEF Next
<1> QED
    BY <1>1, <1>2, PTL DEF Spec

\* A run that reports success has put every row that parses into the topic,
\* once and in source order, and the totals it prints account for every row of
\* the file, whatever earlier runs still have in flight (replay.py:44-68,
\* cli.py:109-206).
THEOREM SuccessComplete == Spec => []SuccessIsComplete
<1>1. RCInv => SuccessIsComplete
  <2> SUFFICES ASSUME RCInv
               PROVE  SuccessIsComplete
      OBVIOUS
  <2>1. ASSUME NEW o \in outcomes, o.exit = "ok", o.command # "replay"
        PROVE  PublishedBy(o.run) = AcceptedRows /\ PublishedInOrder(o.run)
    <3>1. \A x \in AcceptedRows : InLog(o.run, x)
        BY <2>1 DEF RCInv, DeliveredInv
    <3>2. AcceptedRows \subseteq PublishedBy(o.run)
        BY <3>1 DEF InLog, PublishedBy
    <3>3. PublishedBy(o.run) \subseteq AcceptedRows
        BY DEF RCInv, MessagesOK, Sendable, PublishedBy
    <3>4. o.run \in Nat
        BY DEF RCInv, ClientTypeOK
    <3> QED
        BY <3>2, <3>3, <3>4 DEF RCInv, OrderInv
  <2>2. ASSUME exit = "ok"
        PROVE  /\ stats.rows = Len(rows)
               /\ stats.emitted = Cardinality(AcceptedRows)
               /\ stats.invalid = Cardinality(RejectedRows)
    <3>1. /\ stats.rows = position
          /\ stats.emitted + Len(batch) = Cardinality(RowsUpTo(position))
          /\ stats.invalid = Cardinality(RejectedUpTo(position))
          /\ position = Len(rows) /\ batch = << >>
        BY <2>2 DEF RCInv, StatsInv
    <3>2. RowsUpTo(position) = AcceptedRows /\ RejectedUpTo(position) = RejectedRows
        BY <3>1, RowsTyped DEF RowsUpTo, RejectedUpTo
    <3>3. stats.emitted \in Nat /\ Len(batch) = 0
        BY <3>1 DEF RCInv, ClientTypeOK
    <3> QED
        BY <3>1, <3>2, <3>3
  <2> QED
      BY <2>1, <2>2 DEF SuccessIsComplete
<1> QED
    BY <1>1, ClientInvariant, PTL

\* Whatever was lost, failed or killed, what a run published is in source order
\* and no row of it is there twice: what the job's watermark relies on
\* (replay.py:55-66, kafka.py:115-150).
THEOREM OrderKept == Spec => []SourceOrderKept
<1>1. RCInv => SourceOrderKept
  <2> SUFFICES ASSUME RCInv
               PROVE  SourceOrderKept
      OBVIOUS
  <2>1. \A r \in 1..run : r \in Nat
      BY Typed
  <2> QED
      BY <2>1 DEF RCInv, OrderInv, SourceOrderKept
<1> QED
    BY <1>1, ClientInvariant, PTL

\* What the http command delivers is rows 1 to n of those that parse, each of
\* them acceptable to the API, although a request that was given up may be
\* written after the run has ended (http.py:14-31).
THEOREM NoGap == Spec => []HttpLeavesNoGap
<1>1. RCInv => HttpLeavesNoGap
  <2> SUFFICES ASSUME RCInv, NEW v \in Invocations, v.command = "http"
               PROVE  /\ Initial(PublishedBy(v.run), AcceptedRows)
                      /\ PublishedInOrder(v.run)
                      /\ \A row \in PublishedBy(v.run) :
                            Postable([run |-> v.run, row |-> row])
      BY DEF HttpLeavesNoGap
  <2>1. \A i \in DOMAIN log : log[i].run = v.run => Gapless(log[i]) /\ log[i] \in Messages
      BY Typed DEF RCInv, GapInv
  <2>2. PublishedBy(v.run) \subseteq AcceptedRows
      BY DEF RCInv, MessagesOK, Sendable, PublishedBy
  <2>3. ASSUME NEW x \in PublishedBy(v.run), NEW y \in AcceptedRows, y < x
        PROVE  y \in PublishedBy(v.run)
    <3>1. PICK i \in DOMAIN log : log[i].run = v.run /\ log[i].row = x
        BY DEF PublishedBy
    <3>2. InLog(v.run, y)
        BY <2>1, <2>3, <3>1 DEF Gapless
    <3> QED
        BY <3>2 DEF InLog, PublishedBy
  <2>4. ASSUME NEW x \in PublishedBy(v.run)
        PROVE  Postable([run |-> v.run, row |-> x])
    <3>1. PICK i \in DOMAIN log : log[i].run = v.run /\ log[i].row = x
        BY DEF PublishedBy
    <3>2. log[i] = [run |-> v.run, row |-> x]
        BY <2>1, <3>1 DEF Messages
    <3>3. Postable(log[i])
        BY <2>1, <3>1 DEF Gapless
    <3> QED
        BY <3>2, <3>3
  <2>5. v.run \in Nat
      BY Typed DEF Invocations, RCInv, ClientTypeOK
  <2>6. PublishedInOrder(v.run)
      BY <2>5 DEF RCInv, OrderInv
  <2> QED
      BY <2>2, <2>3, <2>4, <2>6 DEF Initial
<1> QED
    BY <1>1, ClientInvariant, PTL

\* An output file holds the beginning of one run's lines, and all of them if
\* that run succeeded and no later one was told --force (cli.py:71-100,
\* 172-203).
THEOREM OutputsKept == Spec => []OutputKeptUnlessForced
<1>1. RCInv => OutputKeptUnlessForced
    BY DEF RCInv
<1> QED
    BY <1>1, ClientInvariant, PTL

LEMMA IdIs ==
    ASSUME NEW m
    PROVE  EventIdOf(m) = << rows[m.row].user, rows[m.row].item, rows[m.row].category,
                             rows[m.row].behavior, rows[m.row].timestamp, m.row - 1 >>
BY DEF EventIdOf, EventOf, ParseEvent, UserBehaviorEvent, DeterministicEventId

\* The run is no part of an event's identity, the position in the file is.
LEMMA OneIdPerRow ==
    ASSUME NEW m, NEW n, m.row \in Nat, n.row \in Nat
    PROVE  EventIdOf(m) = EventIdOf(n) <=> m.row = n.row
<1>1. EventIdOf(m) = EventIdOf(n) => m.row - 1 = n.row - 1
    BY IdIs
<1>2. m.row = n.row => EventIdOf(m) = EventIdOf(n)
    BY IdIs
<1> QED
    BY <1>1, <1>2

\* What stands in the topic before a message is accepted, if http wrote it all:
\* the run that sent a newer row first has sent the older one before it.
LEMMA FirstsInOrder ==
    ASSUME RCInv, \A k \in DOMAIN log : SentByHttp(k),
           NEW i \in DOMAIN log, NEW j \in DOMAIN log, i < j,
           FirstOfItsEvent(i), FirstOfItsEvent(j)
    PROVE  log[i].row < log[j].row
<1>1. /\ log \in Seq(Messages) /\ i \in Nat /\ j \in Nat
      /\ i \in 1..(j - 1)
      /\ \A k \in DOMAIN log : k \in Nat /\ k >= 1 /\ log[k].row \in Nat
    BY MessageTyped DEF RCInv, MessagesOK
<1>2. log[i].row # log[j].row
    BY <1>1, OneIdPerRow DEF FirstOfItsEvent
<1>3. ASSUME log[j].row < log[i].row
      PROVE  FALSE
  <2>1. PICK v \in Invocations : v.command = "http" /\ v.run = log[i].run
    BY DEF SentByHttp
  <2>2. Gapless(log[i]) /\ log[j].row \in AcceptedRows
    BY <2>1 DEF RCInv, GapInv, MessagesOK, Sendable
  <2>3. PICK k \in DOMAIN log : log[k].run = log[i].run /\ log[k].row = log[j].row
    BY <1>3, <2>2 DEF Gapless, InLog
  <2>4. PublishedInOrder(log[i].run)
    BY MessageTyped DEF RCInv, OrderInv
  <2>5. ~(i < k) /\ i # k
    <3>1. i < k => log[i].row < log[k].row
        BY <2>3, <2>4 DEF PublishedInOrder
    <3> QED
        BY <1>1, <1>3, <2>3, <3>1
  <2>6. k \in 1..(j - 1)
    BY <1>1, <2>5
  <2>7. EventIdOf(log[k]) = EventIdOf(log[j])
    BY <1>1, <2>3, OneIdPerRow
  <2> QED
    BY <2>6, <2>7 DEF FirstOfItsEvent
<1> QED
    BY <1>1, <1>2, <1>3

\* A rerun repairs what partial runs left, and no more: one id means one row,
\* after a success the topic holds the events of the file and no others, and
\* what http alone wrote is accepted in source order (contracts.py:40-61,
\* replay.py:44-68, http.py:23-30).
THEOREM RerunSafe == Spec => []RerunIsIdempotent
<1>1. RCInv => RerunIsIdempotent
  <2> SUFFICES ASSUME RCInv
               PROVE  RerunIsIdempotent
      OBVIOUS
  <2>1. \A i \in DOMAIN log : log[i].row \in Nat /\ log[i].row \in AcceptedRows
      BY MessageTyped DEF RCInv, MessagesOK, Sendable
  <2>2. \A i, j \in DOMAIN log :
            EventIdOf(log[i]) = EventIdOf(log[j]) <=> log[i].row = log[j].row
      BY <2>1, OneIdPerRow
  <2>3. ASSUME NEW o \in outcomes, o.exit = "ok", o.command # "replay"
        PROVE  {EventIdOf(log[i]) : i \in DOMAIN log}
                  = {EventIdOf([run |-> o.run, row |-> x]) : x \in AcceptedRows}
    <3>1. \A x \in AcceptedRows : x \in Nat /\ InLog(o.run, x)
        BY <2>3, RowsTyped DEF RCInv, DeliveredInv, AcceptedRows
    <3>2. \A x : [run |-> o.run, row |-> x].row = x
        OBVIOUS
    <3>3. \A i \in DOMAIN log :
              EventIdOf(log[i]) = EventIdOf([run |-> o.run, row |-> log[i].row])
        BY <2>1, <3>2, OneIdPerRow
    <3>4. ASSUME NEW x \in AcceptedRows
          PROVE  \E i \in DOMAIN log :
                    EventIdOf(log[i]) = EventIdOf([run |-> o.run, row |-> x])
      <4>1. PICK i \in DOMAIN log : log[i].row = x
          BY <3>1 DEF InLog
      <4> QED
          BY <3>3, <4>1
    <3> QED
        BY <2>1, <3>3, <3>4
  <2>4. (\A i \in DOMAIN log : SentByHttp(i)) =>
            \A i, j \in DOMAIN log :
                i < j /\ FirstOfItsEvent(i) /\ FirstOfItsEvent(j) =>
                    log[i].row < log[j].row
      BY FirstsInOrder
  <2> QED
      BY <2>2, <2>3, <2>4 DEF RerunIsIdempotent
<1> QED
    BY <1>1, ClientInvariant, PTL
=============================================================================
