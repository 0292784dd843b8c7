--------------------------- MODULE SeatHoldStore ----------------------------
(***************************************************************************)
(* RedisSeatHoldStore (crates/store-adapter-redis/src/redis_store.rs) as   *)
(* the web workers drive it, concurrently: hold() and confirm() are one    *)
(* script each and read no shared state before it, so a call is one step;  *)
(* keys expire and Redis may restart between any two calls.  A script      *)
(* whose reply is lost has had its effect all the same: Checkout models    *)
(* what the caller makes of that.                                          *)
(***************************************************************************)
EXTENDS RedisHolds

Session == [user : Users]

TypeOK == KeysOK(Session)

Init == EmptyKeyspace

\* POST /bookings/hold, by any user, for any movie and seat named.
Hold(m, s, u) == HoldScript(m, s, [user |-> u])

Confirm(m, s, u) == ConfirmScript(m, s, u)

Next ==
  \/ \E m \in Movies, s \in Seats, u \in Users :
       Hold(m, s, u) \/ Confirm(m, s, u)
  \/ Expiry
  \/ LoseKeyspace

(***************************************************************************)
(* Time passes whatever the callers do.  No call is assumed to be made, or *)
(* to be answered.                                                         *)
(***************************************************************************)
Spec == Init /\ [][Next]_redisVars /\ WF_redisVars(Expiry)

-----------------------------------------------------------------------------
(***************************************************************************)
(* A user cannot keep a seat by holding it again and again: every hold     *)
(* ends, and between two holds of the same user anyone can win the seat.   *)
(***************************************************************************)
EveryHoldEnds ==
  \A m \in Movies, s \in Seats, u \in Users :
    HeldBy(m, s, u) ~> ~HeldBy(m, s, u)
=============================================================================
