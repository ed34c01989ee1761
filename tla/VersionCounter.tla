--------------------------- MODULE VersionCounter ---------------------------
(***************************************************************************)
(* How the library uses a version number: a counter moves on while a copy  *)
(* of an older value (a stamp in a datagram, in a log, in a peer) is       *)
(* compared with it.  The comparison is meaningful as long as the counter  *)
(* is at most Half ahead of the copy, wherever the wrap falls.             *)
(***************************************************************************)
EXTENDS VersionNumber

VARIABLES cur,      \* the counter
          stamp,    \* the older copy
          ahead     \* ghost: by how much the counter has moved since the copy

counterVars == <<cur, stamp, ahead>>

CounterInit == cur = 0 /\ stamp = 0 /\ ahead = 0

\* operator++
Increment ==
    /\ ahead < Half
    /\ cur' = Succ(cur)
    /\ ahead' = ahead + 1
    /\ UNCHANGED stamp

\* operator+=
Advance(step) ==
    /\ ahead + step <= Half
    /\ cur' = Plus(cur, step)
    /\ ahead' = ahead + step
    /\ UNCHANGED stamp

\* operator=
Copy ==
    /\ stamp' = cur
    /\ ahead' = 0
    /\ UNCHANGED cur

CounterNext == Increment \/ (\E step \in 1 .. Half : Advance(step)) \/ Copy

CounterSpec == CounterInit /\ [][CounterNext]_counterVars

-----------------------------------------------------------------------------
\* The counter stays a value of its unsigned type: ++ wraps, += never overshoots.
CounterTyped == cur \in Version /\ stamp \in Version /\ ahead \in 0 .. Half

\* ++ and += move the counter by exactly their step modulo MAX + 1, the branch of
\* += that computes _step - res - 1 in unsigned arithmetic included.
MovesExactly == cur = (stamp + ahead) % (MAX + 1)

\* operator< and operator>, written out separately, put the copy before the
\* counter as long as the counter is ahead, on both sides of the wrap, and
\* never order the two both ways.
OrderSurvivesWrap ==
    /\ Less(stamp, cur) <=> ahead > 0
    /\ Greater(cur, stamp) <=> ahead > 0
    /\ ~Less(cur, stamp) /\ ~Greater(stamp, cur)

=============================================================================
