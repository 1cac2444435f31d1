---------------------------- MODULE ReplayClient ----------------------------
(***************************************************************************)
(* The replay client: read the source file in batches of BatchSize rows    *)
(* and hand the rows that parse, in source order, to one of three sinks:   *)
(*   publish  a Kafka publisher, flushed at the end;                       *)
(*   http     POST /v1/events, one request after the other, each waited    *)
(*            for; the API keeps the promise of EventIngress and no more;  *)
(*   replay   a JSONL file.                                                *)
(* Rows that do not parse go to the invalid output.  The operator may run  *)
(* it again over the same file, with another run id and another command;   *)
(* each run is a process of its own.                                       *)
(*                                                                         *)
(* A message, and a line of an output, is the run and the row it carries:  *)
(* [run, row].  A line cut in the middle counts as not written.  Pacing    *)
(* (--speed) delays a row and changes nothing else.                        *)
(***************************************************************************)
EXTENDS EventContract, EventPublisher, FiniteSets

CONSTANTS
    Files,        \* the source files there may be: sequences of rows
    BatchSize,    \* --batch-size
    RunIds,       \* --run-id of each run, in order
    MaxRuns,      \* bound: runs of the client
    MaxFailures   \* bound: deliveries the broker lets expire

ASSUME FilesAssumption ==
    \A f \in Files :
        f \in Seq([well_formed : BOOLEAN, user : Int, item : Int,
                   category : Int, behavior : STRING, timestamp : Int])
ASSUME BatchAssumption == BatchSize \in Nat \ {0}
ASSUME RunIdsAssumption ==
    Len(RunIds) = MaxRuns /\ \A r \in DOMAIN RunIds : RunIds[r] # BlankRun
ASSUME ReplayBounds == MaxRuns \in Nat /\ MaxFailures \in Nat

Commands == {"publish", "http", "replay"}
OutputNames == {"events", "invalid"}
NoRow == 0

VARIABLES
    rows,      \* the source file
    run,       \* number of the current run; 0 before the first
    args,      \* its arguments: [command, force]
    position,  \* rows taken from the file by this run
    batch,     \* rows of the current batch still to emit
    waiting,   \* the row whose POST is not answered yet, or NoRow
    stats,     \* ReplayStats of this run
    exit,      \* running, or how the run ended
    outcomes,  \* [run, command, force, exit] of the runs that have ended
    outputs,   \* the output files: [exists, lines]
    inflight,  \* messages the API has received and may still write
    accepted,  \* messages the API has answered with 202
    failures

readerVars == <<position, batch, stats>>
ingressVars == <<inflight, accepted>>
vars == <<queue, reports, errors, log, rows, run, args, position, batch,
          waiting, stats, exit, outcomes, outputs, inflight, accepted, failures>>

Ingress == INSTANCE EventIngress WITH Messages <- [run : Nat, row : Nat]

NoStats == [rows |-> 0, emitted |-> 0, invalid |-> 0, batches |-> 0]
NoFile == [exists |-> FALSE, lines |-> << >>]
Running == run > 0 /\ exit = "running"
Message(i) == [run |-> run, row |-> i]

Init ==
    /\ PublisherInit
    /\ inflight = {} /\ accepted = {}
    /\ rows \in Files
    /\ run = 0
    /\ args = [command |-> "replay", force |-> FALSE]
    /\ position = 0
    /\ batch = << >>
    /\ waiting = NoRow
    /\ stats = NoStats
    /\ exit = "none"
    /\ outcomes = {}
    /\ outputs = [f \in OutputNames |-> NoFile]
    /\ failures = 0

\* Every command may write the invalid output, only replay the other one.
Requested(command) == IF command = "replay" THEN OutputNames ELSE {"invalid"}

Outcome(how) == [run |-> run', command |-> args'.command, force |-> args'.force,
                 exit |-> how]

\* Mutant: an output file that is there is opened for writing all the same.
OutputRefusedNever(command, force) == FALSE

\* "output exists; pass --force to replace it"
OutputRefused(command, force) ==
    ~force /\ \E f \in Requested(command) : outputs[f].exists

\* A process starts: it checks its outputs, then opens and empties them.  The
\* check, or a sink that cannot be built, ends it with status 2 before that.
StartRun(command, force) ==
    /\ exit # "running"
    /\ run < MaxRuns
    /\ run' = run + 1
    /\ args' = [command |-> command, force |-> force]
    /\ position' = 0 /\ batch' = << >> /\ waiting' = NoRow /\ stats' = NoStats
    /\ queue' = << >> /\ reports' = << >> /\ errors' = {}
    /\ \/ /\ OutputRefused(command, force) \/ command # "replay"
          /\ exit' = "error"
          /\ outcomes' = outcomes \cup {Outcome("error")}
          /\ UNCHANGED outputs
       \/ /\ ~OutputRefused(command, force)
          /\ exit' = "running"
          /\ outputs' = [f \in OutputNames |->
                            IF f \in Requested(command)
                            THEN [exists |-> TRUE, lines |-> << >>]
                            ELSE outputs[f]]
          /\ UNCHANGED outcomes
    /\ UNCHANGED <<log, rows, ingressVars, failures>>

Lesser(a, b) == IF a <= b THEN a ELSE b

\* A set of rows in source order: the one such sequence.
InOrder(S) ==
    {s \in [1..Cardinality(S) -> S] :
        /\ \A i, j \in DOMAIN s : i < j => s[i] < s[j]
        /\ \A x \in S : \E i \in DOMAIN s : s[i] = x}

WriteLines(f, lines) ==
    outputs' = [outputs EXCEPT ![f] = [exists |-> TRUE, lines |-> @.lines \o lines]]

\* The next batch, the last one possibly short: rows that do not parse are
\* written to the invalid output, the rest is to be emitted in source order.
NextBatch ==
    LET last == Lesser(position + BatchSize, Len(rows))
        taken == (position + 1)..last
        good == {i \in taken : RowAccepted(rows[i])}
        bad == taken \ good
    IN  /\ Running
        /\ batch = << >>
        /\ position < Len(rows)
        /\ position' = last
        /\ batch' \in InOrder(good)
        /\ stats' = [stats EXCEPT !.rows = @ + Cardinality(taken), !.batches = @ + 1,
                                  !.invalid = @ + Cardinality(bad)]
        /\ \E rejected \in InOrder(bad) :
              WriteLines("invalid", [i \in DOMAIN rejected |-> Message(rejected[i])])
        /\ UNCHANGED <<publisherVars, ingressVars, rows, run, args, waiting,
                       exit, outcomes, failures>>

-----------------------------------------------------------------------------
(* The three sinks. *)

ReadyToEmit(command) ==
    Running /\ args.command = command /\ batch # << >> /\ waiting = NoRow

\* emit returned: the row is counted and the next one is due.
Emitted ==
    /\ batch' = Tail(batch)
    /\ stats' = [stats EXCEPT !.emitted = @ + 1]
    /\ UNCHANGED <<rows, run, args, position, exit, outcomes, failures>>

\* Mutant: the rows of a batch are published last one first.
EmitLastFirst ==
    /\ ReadyToEmit("publish")
    /\ Publish(Message(batch[Len(batch)]))
    /\ batch' = SubSeq(batch, 1, Len(batch) - 1)
    /\ stats' = [stats EXCEPT !.emitted = @ + 1]
    /\ UNCHANGED <<rows, run, args, position, exit, outcomes, failures>>
    /\ UNCHANGED <<waiting, outputs, ingressVars>>

Emit ==
    /\ ReadyToEmit("publish")
    /\ Publish(Message(Head(batch)))
    /\ Emitted
    /\ UNCHANGED <<waiting, outputs, ingressVars>>

EmitLine ==
    /\ ReadyToEmit("replay")
    /\ WriteLines("events", << Message(Head(batch)) >>)
    /\ Emitted
    /\ UNCHANGED <<publisherVars, waiting, ingressVars>>

\* The event a message carries: sequence numbers are zero-based row numbers.
EventOf(m) == ParseEvent(rows[m.row], m.row - 1, RunIds[m.run])

\* event.to_dict() is the request's body: the id is sent along.
Postable(m) == RequestAccepted(EventOf(m))

\* The request is on its way; the API takes it in unless its fields are
\* refused (422) or the connection fails.
Post ==
    /\ ReadyToEmit("http")
    /\ waiting' = Head(batch)
    /\ \/ Postable(Message(waiting')) /\ Ingress!Submit(Message(waiting'))
       \/ UNCHANGED <<log, ingressVars>>
    /\ UNCHANGED <<queue, reports, errors, rows, run, args, readerVars, exit,
                   outcomes, outputs, failures>>

\* 202: the next row is due.
Posted ==
    /\ Running /\ waiting # NoRow
    /\ Ingress!Confirm(Message(waiting))
    /\ waiting' = NoRow
    /\ Emitted
    /\ UNCHANGED <<queue, reports, errors, outputs>>

ApiWrites ==
    /\ \E m \in inflight : Ingress!Write(m)
    /\ UNCHANGED <<queue, reports, errors, rows, run, args, readerVars, waiting,
                   exit, outcomes, outputs, failures>>

ApiDrops ==
    /\ \E m \in inflight : Ingress!Drop(m)
    /\ UNCHANGED <<queue, reports, errors, rows, run, args, readerVars, waiting,
                   exit, outcomes, outputs, failures>>

-----------------------------------------------------------------------------
(* The end of a run. *)

\* The run ends; ending also tells the operator how it went.
End(how) ==
    /\ exit' = how
    /\ UNCHANGED <<rows, run, args, readerVars, ingressVars, failures>>
    /\ outcomes' = outcomes \cup {Outcome(how)}
    /\ waiting' = NoRow

\* What is buffered and not yet in the files of this run may be lost.
OutputsCut ==
    \E kept \in [OutputNames -> 0..Len(rows)] :
        /\ \A f \in OutputNames :
              /\ kept[f] <= Len(outputs[f].lines)
              /\ f \notin Requested(args.command) => kept[f] = Len(outputs[f].lines)
        /\ outputs' = [f \in OutputNames |->
              [outputs[f] EXCEPT !.lines = SubSeq(@, 1, kept[f])]]

\* BufferError is not among the exceptions main() handles: a traceback instead
\* of status 2, and no flush.
EmitWhenFull ==
    /\ ReadyToEmit("publish")
    /\ QueueFull
    /\ End("crashed")
    /\ PublisherLost
    /\ UNCHANGED outputs

\* Mutant: a failed request is skipped and the run goes on.
PostFailsAndSkips ==
    /\ Running /\ waiting # NoRow
    /\ waiting' = NoRow
    /\ Emitted
    /\ UNCHANGED <<publisherVars, ingressVars, outputs>>

\* Any answer but 202, a closed connection, or 15 seconds without an answer:
\* status 2.  Whether the event is written is open.
PostFails ==
    /\ Running /\ waiting # NoRow
    /\ End("error")
    /\ UNCHANGED <<publisherVars, outputs>>

\* Mutant: a last batch that is short is not read.
AtLastFullBatch ==
    /\ Running /\ batch = << >> /\ waiting = NoRow
    /\ position + BatchSize > Len(rows)

AtEndOfFile ==
    /\ Running /\ batch = << >> /\ waiting = NoRow
    /\ position = Len(rows)

\* close() succeeds: exit status 0; a failed delivery: parser.error, status 2.
CloseFlushed ==
    /\ AtEndOfFile
    /\ args.command = "publish"
    /\ FlushDone
    /\ End(IF FlushRaises THEN "error" ELSE "ok")
    /\ UNCHANGED outputs

\* Mutant: the flush has no timeout.
CloseWithoutTimeout == AtEndOfFile /\ queue # << >> /\ UNCHANGED vars

\* flush timed out: status 2, and the messages still queued go with the process.
CloseTimedOut ==
    /\ AtEndOfFile
    /\ args.command = "publish"
    /\ queue # << >>
    /\ End("error")
    /\ PublisherLost
    /\ UNCHANGED outputs

\* http has nothing to flush; replay's files are closed with the stack.
CloseDone ==
    /\ AtEndOfFile
    /\ args.command # "publish"
    /\ End("ok")
    /\ UNCHANGED <<publisherVars, outputs>>

\* An output cannot be written (OSError): status 2, without a flush.
OutputFails ==
    /\ Running
    /\ End("error")
    /\ PublisherLost
    /\ OutputsCut

Killed ==
    /\ Running
    /\ End("crashed")
    /\ PublisherLost
    /\ OutputsCut

Acknowledge ==
    /\ BrokerAcknowledges
    /\ UNCHANGED <<rows, run, args, readerVars, waiting, exit, outcomes, outputs,
                   ingressVars, failures>>

Expire ==
    /\ failures < MaxFailures
    /\ failures' = failures + 1
    /\ DeliveryFails
    /\ UNCHANGED <<rows, run, args, readerVars, waiting, exit, outcomes, outputs,
                   ingressVars>>

Client == \/ NextBatch \/ Emit \/ EmitLine \/ Post \/ Posted
          \/ EmitWhenFull \/ PostFails
          \/ CloseFlushed \/ CloseTimedOut \/ CloseDone

Next ==
    \/ \E command \in Commands, force \in BOOLEAN : StartRun(command, force)
    \/ NextBatch
    \/ Emit
    \/ EmitLine
    \/ Post
    \/ Posted
    \/ ApiWrites
    \/ ApiDrops
    \/ EmitWhenFull
    \/ PostFails
    \/ CloseFlushed
    \/ CloseTimedOut
    \/ CloseDone
    \/ OutputFails
    \/ Killed
    \/ Acknowledge
    \/ Expire

Spec == Init /\ [][Next]_vars
FairSpec == Spec /\ WF_vars(Client)

-----------------------------------------------------------------------------
AcceptedRows == {i \in DOMAIN rows : RowAccepted(rows[i])}
RejectedRows == DOMAIN rows \ AcceptedRows

\* S is the beginning of T.
Initial(S, T) == S \subseteq T /\ \A x \in S, y \in T : y < x => y \in S

PublishedBy(r) == {log[i].row : i \in {j \in DOMAIN log : log[j].run = r}}

\* Run r's rows are in the topic in source order, none of them twice.
PublishedInOrder(r) ==
    \A i, j \in DOMAIN log :
        i < j /\ log[i].run = r /\ log[j].run = r => log[i].row < log[j].row

\* What a run writes to an output when nothing stops it.
Due(f) == IF f = "events" THEN AcceptedRows ELSE RejectedRows

LineRows(f) == {outputs[f].lines[i].row : i \in DOMAIN outputs[f].lines}

\* An output holds lines of run r, in source order and none of them twice.
LinesOf(f, r) ==
    LET lines == outputs[f].lines
    IN  /\ \A i \in DOMAIN lines : lines[i].run = r
        /\ \A i, j \in DOMAIN lines : i < j => lines[i].row < lines[j].row

Invocations ==
    {[run |-> o.run, command |-> o.command, force |-> o.force] : o \in outcomes}
        \cup {[run |-> run, command |-> args.command, force |-> args.force]}

\* A run that reports success has put every row that parses into the topic,
\* once and in source order, and nothing else, however late an earlier run's
\* requests are written; and the totals it prints account for every row of the
\* file (replay.py:44-68, cli.py:109-206).
SuccessIsComplete ==
    /\ \A o \in outcomes :
          o.exit = "ok" /\ o.command # "replay" =>
              PublishedBy(o.run) = AcceptedRows /\ PublishedInOrder(o.run)
    /\ exit = "ok" => /\ stats.rows = Len(rows)
                      /\ stats.emitted = Cardinality(AcceptedRows)
                      /\ stats.invalid = Cardinality(RejectedRows)

\* Whatever was lost, what a run did publish is in source order: the order the
\* job's watermark and deduplication depend on.
SourceOrderKept == \A r \in 1..run : PublishedInOrder(r)

\* What the http command delivers has no gap: rows 1 to n of those that parse,
\* n short of the first row the API refuses, although a request the client gave
\* up on may be written after the run has ended.  A row whose time is negative
\* stops every http run, while publish passes it on (http.py:23-30,
\* ingestion.py:27-28).
HttpLeavesNoGap ==
    \A v \in Invocations : v.command = "http" =>
        /\ Initial(PublishedBy(v.run), AcceptedRows)
        /\ PublishedInOrder(v.run)
        /\ \A row \in PublishedBy(v.run) : Postable([run |-> v.run, row |-> row])

\* An output file holds the beginning of one run's lines, never a mixture, and
\* all of them if that run succeeded and no later one was told --force: a run
\* that is refused, fails or writes other outputs leaves it alone
\* (cli.py:71-100, 172-203).
OutputKeptUnlessForced ==
    \A f \in OutputNames :
        /\ \E r \in 0..run : LinesOf(f, r) /\ Initial(LineRows(f), Due(f))
        /\ \A o \in outcomes :
              /\ o.exit = "ok" /\ f \in Requested(o.command)
              /\ \A v \in Invocations :
                    v.run > o.run => ~v.force \/ f \notin Requested(v.command)
              => LinesOf(f, o.run) /\ LineRows(f) = Due(f)

EventIdOf(m) == EventOf(m).event_id

\* The place where the job, which drops every repeated id, accepts an event.
FirstOfItsEvent(i) == \A j \in 1..(i - 1) : EventIdOf(log[j]) # EventIdOf(log[i])

SentByHttp(i) == \E v \in Invocations : v.command = "http" /\ v.run = log[i].run

\* Running the client again over the same file repairs what partial runs left,
\* and no more.  Two messages have one event id exactly if they carry one row,
\* whatever run and command sent them; once a run has reported success, the
\* topic holds the events of the file and no others, whatever earlier runs or
\* their late requests wrote, or later ones add; and if http alone wrote the
\* topic, the events the job accepts stand in source order, so that no rerun
\* makes one late, which publish does not promise: a delivery that expires
\* leaves a gap that a rerun fills behind newer rows (contracts.py:40-61,
\* replay.py:44-68, http.py:23-30).
RerunIsIdempotent ==
    /\ \A i, j \in DOMAIN log :
          EventIdOf(log[i]) = EventIdOf(log[j]) <=> log[i].row = log[j].row
    /\ \A o \in outcomes : o.exit = "ok" /\ o.command # "replay" =>
          {EventIdOf(log[i]) : i \in DOMAIN log}
              = {EventIdOf([run |-> o.run, row |-> x]) : x \in AcceptedRows}
    /\ (\A i \in DOMAIN log : SentByHttp(i)) =>
          \A i, j \in DOMAIN log :
              i < j /\ FirstOfItsEvent(i) /\ FirstOfItsEvent(j) =>
                  log[i].row < log[j].row

\* A started run ends, with or without a broker or an API that answers.
RunEnds == (exit = "running") ~> (exit # "running")
=============================================================================
