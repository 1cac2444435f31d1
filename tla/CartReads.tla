------------------------------ MODULE CartReads ------------------------------
(***************************************************************************)
(* GET /v1/users/{user_id}/cart beside the cart materializer.  An answer   *)
(* is one HGETALL of the user's hash; the TTL that is read after it is     *)
(* left out here (FeatureReads has that second call).                      *)
(*                                                                         *)
(* seen is no state of the code: what a client that asks again and again   *)
(* knows, per item the least offset after which its last answer can have   *)
(* been true, in the order of its answers.                                 *)
(***************************************************************************)
EXTENDS RedisCart

VARIABLE seen  \* user -> item -> offset

readVars == <<vars, seen>>

\* The offsets from n on after which the projection shows this value.
ShownAfter(u, i, value, n) == {m \in n..Len(topic) : value = Projection(m)[u][i]}

\* Redis has forgotten nothing on its own and nobody has rebuilt it.
Undisturbed == expiries = 0 /\ rebuilds = 0 /\ intact

NothingSeen == [u \in Users |-> EmptyCart]

ReadInit == Init /\ seen = NothingSeen

\* What answers showed is of no consequence once Redis has been disturbed.
Kept == IF Undisturbed' THEN seen ELSE NothingSeen

\* hgetall
ReadCart(u) ==
    /\ Undisturbed
    /\ seen' = [seen EXCEPT ![u] =
                   [i \in Items |->
                       CHOOSE n \in ShownAfter(u, i, cart[u][i], @[i]) :
                           \A m \in ShownAfter(u, i, cart[u][i], @[i]) : n <= m]]
    /\ UNCHANGED vars

ReadNext ==
    \/ Next /\ seen' = Kept
    \/ \E u \in Users : ReadCart(u)

ReadSpec == ReadInit /\ [][ReadNext]_readVars
FairReadSpec ==
    /\ ReadSpec
    /\ WF_readVars(Consume /\ seen' = Kept)
    /\ WF_readVars(Restart /\ seen' = Kept)

\* The cart a client is shown never goes back: whenever it asks again, every
\* item is as of the mutation its last answer showed or a later one, although
\* the materializer repeats its last call after a crash.  Not so once the hash
\* has expired, Redis has lost writes or the operator rebuilds it
\* (serving.py:42-57, redis_cart.py:72-73).
AnswersNeverGoBack ==
    Undisturbed =>
        \A u \in Users, i \in Items :
            ShownAfter(u, i, cart[u][i], seen[u][i]) # {}
=============================================================================
