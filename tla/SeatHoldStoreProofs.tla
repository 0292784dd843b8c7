------------------------ MODULE SeatHoldStoreProofs -------------------------
(***************************************************************************)
(* The seat-hold store keeps its index in order, gives a user at most one  *)
(* hold per movie, never hands a live hold over, and implements the port,  *)
(* for any movies, seats, users and TTL.                                   *)
(***************************************************************************)
EXTENDS SeatHoldStore, RedisHoldsProofs

IInv == Sound(Session)

\* Sessions have owners, so the lemmas on the scripts apply.
LEMMA SessionUsers == \A x \in Session : x.user \in Users
BY DEF Session

LEMMA NextIsStoreStep == [Next]_redisVars => StoreStep(Session)
<1>1. \A u \in Users : [user |-> u] \in Session
  BY DEF Session
<1>2. QED
  BY <1>1 DEF Next, Hold, Confirm, StoreStep

LEMMA SpecSound == Spec => []IInv
<1>1. Init => IInv
  BY EmptyIsSound DEF Init, IInv
<1>2. IInv /\ [Next]_redisVars => IInv'
  BY NextIsStoreStep, StepKeepsSound, SessionUsers DEF IInv
<1>3. QED
  BY <1>1, <1>2, PTL DEF Spec

\* The keys always have their types.
THEOREM TypeCorrect == Spec => []TypeOK
<1>1. IInv => TypeOK
  BY DEF IInv, Sound, TypeOK
<1>2. QED
  BY <1>1, SpecSound, PTL

\* The seat key and the user's index key of a hold always describe each other.
THEOREM IndexCorrect == Spec => []IndexMatchesSeats
<1>1. IInv => IndexMatchesSeats
  BY DEF IInv, Sound
<1>2. QED
  BY <1>1, SpecSound, PTL

(***************************************************************************)
(* A user never holds two seats of a movie: the index key can name only    *)
(* one of them.                                                            *)
(***************************************************************************)
THEOREM OneHoldPerUser == Spec => []AtMostOneHoldPerUser
BY IndexNamesOneHold, IndexCorrect, PTL

(***************************************************************************)
(* No step hands a held seat over or prolongs a hold.                      *)
(***************************************************************************)
THEOREM NoTakeoverCorrect == Spec => NoTakeover
<1>1. IInv /\ [Next]_redisVars => [\A k \in SeatKeys : Kept(k)]_redisVars
  BY NextIsStoreStep, StepTakesNothingOver DEF IInv
<1>2. QED
  BY <1>1, SpecSound, PTL DEF Spec, NoTakeover, Kept

(***************************************************************************)
(* The store implements the port: starting empty, every step of it is a    *)
(* step the port allows, or changes no hold.                               *)
(***************************************************************************)
THEOREM Refinement == Spec => ImplementsPort
<1>1. Init => Port!Init
  BY EmptyRefines DEF Init
<1>2. IInv /\ [Next]_redisVars => [Port!Next]_holdsNow
  BY NextIsStoreStep, StepRefines, SessionUsers DEF IInv
<1>3. QED
  BY <1>1, <1>2, SpecSound, PTL DEF Spec, ImplementsPort, Port!Spec, holdsNow
=============================================================================
