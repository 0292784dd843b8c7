---------------------------- MODULE SeatHoldPort ----------------------------
(***************************************************************************)
(* What the SeatHoldStore trait (crates/store-port/src/booking.rs) promises *)
(* its callers, with no keys, scripts or indexes: per movie, a set of      *)
(* holds.  A seat has a single winner, a user has at most one active hold  *)
(* in a movie, a new hold replaces the previous one, confirming consumes   *)
(* the hold, and a hold is temporary: it ends TTL units after it was       *)
(* granted and nothing prolongs it.                                        *)
(***************************************************************************)
EXTENDS Naturals

CONSTANTS Movies, Seats, Users, TTL

VARIABLE holds   \* per movie, the active holds

Hold == [seat : Seats, user : Users, left : 1..TTL]

TypeOK == holds \in [Movies -> SUBSET Hold]

Init == holds = [m \in Movies |-> {}]

Acquire(m, s, u) ==
  /\ \A h \in holds[m] : h.seat # s
  /\ holds' = [holds EXCEPT ![m] =
                 {h \in @ : h.user # u}
                   \cup {[seat |-> s, user |-> u, left |-> TTL]}]

Consume(m, s, u) ==
  /\ \E h \in holds[m] : h.seat = s /\ h.user = u
  /\ holds' = [holds EXCEPT ![m] = {h \in @ : h.seat # s}]

Lapse ==
  holds' = [m \in Movies |->
              {[seat |-> h.seat, user |-> h.user, left |-> h.left - 1] :
                 h \in {g \in holds[m] : g.left > 1}}]

\* The store is a cache: it may lose every hold at once, never some of them.
Vanish == holds' = [m \in Movies |-> {}]

Next ==
  \/ \E m \in Movies, s \in Seats, u \in Users :
       Acquire(m, s, u) \/ Consume(m, s, u)
  \/ Lapse
  \/ Vanish

Spec == Init /\ [][Next]_holds
=============================================================================
