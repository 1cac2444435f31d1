--------------------------- MODULE EventContract ---------------------------
(***************************************************************************)
(* The behavior-event contract shared by the producers (replay client and  *)
(* HTTP API), the Flink job and the serving adapters: what an event is,    *)
(* how it gets its identity, which events are valid and which of two       *)
(* cart/buy transitions is the newer one.                                  *)
(*                                                                         *)
(* Event times are integers in milliseconds, as in the source.  Values     *)
(* that are only compared for equality (the run that delivered an event)   *)
(* are left to the instance.                                               *)
(***************************************************************************)
EXTENDS Integers, Sequences

BehaviorTypes == {"pv", "cart", "fav", "buy"}

\* The reasons of the CASE of classified_events; None is its ELSE NULL.
ValidationReasons == {"INVALID_EVENT_ID", "INVALID_IDENTIFIER",
                      "INVALID_EVENT_TIME", "INVALID_BEHAVIOR_TYPE"}
None == "NONE"

\* An event_id that is missing or blank.
BlankId == << >>

\* Mutant: the position in the source is left out of the identity.
EventIdWithoutSequence(user, item, category, behavior, timestamp, seq) ==
    <<user, item, category, behavior, timestamp>>

(***************************************************************************)
(* The stable source fields of an event and its position in the source;    *)
(* the run that replays it is left out.  The SHA-256 of the joined fields  *)
(* is modelled by the tuple itself: injective, and equal on equal fields.  *)
(***************************************************************************)
DeterministicEventId(user, item, category, behavior, timestamp, seq) ==
    <<user, item, category, behavior, timestamp, seq>>

\* What a producer of the repository builds from a source row's fields; the
\* event carries milliseconds, the identity is taken of the source's seconds.
UserBehaviorEvent(user, item, category, behavior, timestamp, seq, run) ==
    [event_id |-> DeterministicEventId(user, item, category, behavior,
                                       timestamp, seq),
     user |-> user, item |-> item, category |-> category,
     behavior |-> behavior, time |-> 1000 * timestamp, seq |-> seq,
     run |-> run]

(***************************************************************************)
(* parse_event.  A source row is a record of its five columns; columns     *)
(* whose text is not an integer, or a row without exactly five columns,    *)
(* are abstracted by well_formed = FALSE.                                  *)
(***************************************************************************)
RowAccepted(row) == row.well_formed /\ row.behavior \in BehaviorTypes

ParseEvent(row, seq, run) ==
    UserBehaviorEvent(row.user, row.item, row.category, row.behavior,
                      row.timestamp, seq, run)

(***************************************************************************)
(* validated_event of the HTTP API.  A request carries milliseconds and,   *)
(* optionally, an id, which must be the one the fields determine.  Field   *)
(* values are not checked otherwise: an unknown behavior or an identifier  *)
(* below one reaches Kafka and is classified by the job.                   *)
(***************************************************************************)
BlankRun == ""
NoId == <<"absent">>

RequestedEvent(req) ==
    UserBehaviorEvent(req.user, req.item, req.category, req.behavior,
                      req.time \div 1000, req.seq, req.run)

RequestAccepted(req) ==
    /\ req.time >= 0 /\ req.time % 1000 = 0
    /\ req.seq >= 0
    /\ req.run # BlankRun
    /\ req.event_id \in {NoId, RequestedEvent(req).event_id}

\* The branches of the SQL CASE, tried in order.
ValidationReason(e) ==
    IF e.event_id = BlankId THEN "INVALID_EVENT_ID"
    ELSE IF e.user <= 0 \/ e.item <= 0 \/ e.category <= 0
         THEN "INVALID_IDENTIFIER"
    ELSE IF e.time <= 0 THEN "INVALID_EVENT_TIME"
    ELSE IF e.behavior \notin BehaviorTypes THEN "INVALID_BEHAVIOR_TYPE"
    ELSE None

Valid(e) == ValidationReason(e) = None

\* pv and fav do not touch the cart projection.
IsCartTransition(e) == e.behavior \in {"cart", "buy"}

\* ORDER BY event_time DESC, source_sequence DESC: a comes strictly before b.
Newer(a, b) == a.time > b.time \/ (a.time = b.time /\ a.seq > b.seq)
=============================================================================
