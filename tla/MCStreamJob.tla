---------------------------- MODULE MCStreamJob ----------------------------
(***************************************************************************)
(* Instances of StreamJob.  Delay and window are the defaults of the code  *)
(* (5 s, 1 min); the events are chosen so that few of them suffice for     *)
(* duplicates, late and out-of-order events, closed windows and cart       *)
(* transitions that arrive in either order.                                *)
(***************************************************************************)
EXTENDS Accounting

Row(user, item, behavior, second, seq, run) ==
    UserBehaviorEvent(user, item, 9, behavior, second, seq, run)

\* A cart transition, its replay by another run, and the purchase that
\* follows a window later.
CartA == Row(1, 1, "cart", 10, 1, "A")
CartB == Row(1, 1, "cart", 10, 1, "B")
BuyA  == Row(1, 1, "buy", 70, 2, "A")

\* At or behind the watermark of any of the others, and of a run that is not
\* one of verify.py's.
EarlyC == Row(2, 1, "pv", 5, 3, "C")

\* On time with CartA, in the same window and of another user.
ViewA == Row(2, 1, "pv", 12, 4, "A")

\* Invalid, and one minute ahead of the valid ones of the first window.
BadA == Row(0, 1, "pv", 130, 5, "A")

\* Below the watermark of every event (the code's Long.MIN_VALUE).
BeforeAllTime == -1000000

\* Within one window, so that no aggregate multiplies the states.
BuySoonA == Row(1, 1, "buy", 14, 6, "A")

\* In it too, and late enough to put the events at 10 s behind the watermark.
BadSoonA == Row(0, 1, "pv", 16, 7, "A")
BadSoonB == Row(0, 1, "pv", 16, 7, "B")
BadSoonC == Row(0, 1, "pv", 16, 7, "C")

\* As old as CartA to the millisecond and the sequence number.
TieA == Row(1, 1, "buy", 10, 1, "A")

RecoveryEvents == {CartA, CartB, BuySoonA, TieA, BadSoonA, BadSoonB,
                   BadSoonC}
ReplayEvents == {CartA, CartB, BuyA, EarlyC, ViewA, BadA}
CartEvents == {CartA, CartB, BuyA}

\* The file verify.py decodes: CartA and CartB are a complete replay of it.
GoldenFixture == {CartA}
=============================================================================
