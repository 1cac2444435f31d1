---------------------------- MODULE MCIngressApi ----------------------------
(* Instances of IngressApi: one acceptable body, one with a foreign id. *)
EXTENDS IngressApi

Body(id, second) ==
    [event_id |-> id, user |-> 1, item |-> 1, category |-> 9,
     behavior |-> "cart", time |-> 1000 * second, seq |-> 1, run |-> "A"]

Good == Body(NoId, 10)
Forged == Body(DeterministicEventId(2, 1, 9, "cart", 10, 1), 10)

MCBodies == {Good, Forged}
=============================================================================
