---------------------------- MODULE BookingProofs ----------------------------
(***************************************************************************)
(* Checkout and its client SeatMap.  However many checkouts run at once,   *)
(* over however many users, seats and movies, and whatever fails between   *)
(* their steps: a session is spent at most once, a booking is for the hold *)
(* it came from, no booking refers to a row that is not there, and the     *)
(* hold store does for its callers what the port promises.  However many   *)
(* viewers look on, their torn reads show every seat that did not change   *)
(* meanwhile as it is.                                                     *)
(***************************************************************************)
EXTENDS SeatMap, RedisHoldsProofs

-----------------------------------------------------------------------------
(***************************************************************************)
(* The strengthening: a uuid names one session, and every session under a  *)
(* key or in the hands of a task was granted, so its uuid tells it from    *)
(* any session granted later.                                              *)
(***************************************************************************)
GrantsAreNamed == \A g, h \in granted : g.uuid = h.uuid => g = h

LiveIsGranted == \A k \in SeatKeys : IsLive(k) => seatKey[k].value \in granted

ConsumedIsGranted ==
  \A r \in Requests : HasConsumed(r) => reqs[r].session \in granted

Places == /\ GrantsAreNamed /\ LiveIsGranted /\ ConsumedIsGranted
          /\ SessionIsInOnePlace /\ OneBookingPerSession /\ BookingMatchesGrant

PendingUserIsKnown ==
  \A r \in Requests : reqs[r].pc = "upserted" => reqs[r].user \in users

Rows == ReferentialIntegrity /\ ConsumerIsKnown /\ PendingUserIsKnown

IInv == TypeOK /\ IndexMatchesSeats /\ Places /\ Rows

-----------------------------------------------------------------------------
\* Sessions have owners, so the lemmas on the scripts apply.
LEMMA SessionUsers == \A x \in Session : x.user \in Users
BY DEF Session

\* Apart from a hold, what happens in Redis only takes keys away.
KeysOnlyGo ==
  \A k \in SeatKeys : Live(seatKey'[k]) =>
    Live(seatKey[k]) /\ seatKey'[k].value = seatKey[k].value

LEMMA ExpiryTakesAway == ASSUME KeysOK(Session), Expiry PROVE KeysOnlyGo
BY AgedKey DEF KeysOK, Expiry, KeysOnlyGo

LEMMA ConfirmTakesAway ==
  ASSUME KeysOK(Session),
         NEW m \in Movies, NEW s \in Seats, NEW u \in Users,
         ConfirmScript(m, s, u)
  PROVE  KeysOnlyGo
BY DEF KeysOK, ConfirmScript, KeysOnlyGo, Live, redisVars

LEMMA LosingTakesAway == ASSUME LoseKeyspace PROVE KeysOnlyGo
BY DEF LoseKeyspace, KeysOnlyGo, Live

LEMMA NothingTakesAway == ASSUME UNCHANGED seatKey PROVE KeysOnlyGo
BY DEF KeysOnlyGo

-----------------------------------------------------------------------------
LEMMA InitOK == Init => IInv
<1> SUFFICES ASSUME Init PROVE IInv
  OBVIOUS
<1>1. Sound(Session)
  BY EmptyIsSound DEF Init
<1>2. /\ \A k \in SeatKeys : ~IsLive(k)
      /\ \A r \in Requests : ~HasConsumed(r) /\ reqs[r] = Idle
      /\ bookings = {} /\ granted = {} /\ users = {} /\ movies \in SUBSET Movies
      /\ reqs = [r \in Requests |-> Idle]
  BY DEF Init, EmptyKeyspace, IsLive, Live, HasConsumed, Idle
<1>3. TypeOK
  BY <1>1, <1>2 DEF TypeOK, Sound
<1>4. Places
  BY <1>2 DEF Places, GrantsAreNamed, LiveIsGranted, ConsumedIsGranted,
              SessionIsInOnePlace, OneBookingPerSession, BookingMatchesGrant
<1>5. Rows
  BY <1>2 DEF Rows, ReferentialIntegrity, ConsumerIsKnown, PendingUserIsKnown,
              Idle
<1>6. QED
  BY <1>1, <1>3, <1>4, <1>5 DEF IInv, Sound

-----------------------------------------------------------------------------
(***************************************************************************)
(* Redis: the booking system uses the store as anybody does, so the        *)
(* keyspace keeps its type and its index.                                  *)
(***************************************************************************)
LEMMA NextIsStoreStep == TypeOK /\ [Next]_vars => StoreStep(Session)
<1> SUFFICES ASSUME TypeOK, [Next]_vars PROVE StoreStep(Session)
  OBVIOUS
<1>1. ASSUME NEW m \in Movies, NEW s \in Seats, NEW u \in Users, Hold(m, s, u)
      PROVE  StoreStep(Session)
  <2>1. PICK x \in SessionIds :
          HoldScript(m, s, [uuid |-> x, movie |-> m, seat |-> s, user |-> u])
    BY <1>1 DEF Hold
  <2>2. [uuid |-> x, movie |-> m, seat |-> s, user |-> u] \in Session
    BY DEF Session
  <2>3. QED
    BY <2>1, <2>2 DEF StoreStep
<1>2. ASSUME NEW r \in Requests, CheckoutConfirm(r) \/ ConfirmReplyLost(r)
      PROVE  StoreStep(Session)
  <2>1. /\ reqs[r] \in Upserted
        /\ ConfirmScript(reqs[r].movie, reqs[r].seat, reqs[r].user)
    BY <1>2 DEF CheckoutConfirm, ConfirmReplyLost, TypeOK, Upserted,
                Confirmed, Idle
  <2>2. /\ reqs[r].movie \in Movies /\ reqs[r].seat \in Seats
        /\ reqs[r].user \in Users
    BY <2>1 DEF Upserted
  <2>3. QED
    BY <2>1, <2>2 DEF StoreStep
<1>3. QED
  BY <1>1, <1>2
     DEF Next, CheckoutStep, CheckoutUpsert, upsert_for_auth_subject,
         CheckoutInsert, bookings_create, CheckoutDropped,
         MovieCreate, MovieDelete, MovieRename, Tick, RedisRestart,
         vars, redisVars, StoreStep

LEMMA KeysStaySound == IInv /\ [Next]_vars => Sound(Session)'
<1>1. IInv => TypeOK /\ Sound(Session)
  BY DEF IInv, TypeOK, Sound
<1>2. QED
  BY <1>1, NextIsStoreStep, StepKeepsSound, SessionUsers

-----------------------------------------------------------------------------
LEMMA TypeStaysOK == IInv /\ [Next]_vars => TypeOK'
<1> SUFFICES ASSUME IInv, [Next]_vars PROVE TypeOK'
  OBVIOUS
<1>1. TypeOK /\ KeysOK(Session)'
  BY KeysStaySound DEF IInv, Sound
<1> DEFINE Rest == /\ reqs \in [Requests -> {Idle} \cup Upserted \cup Confirmed]
                   /\ movies \in SUBSET Movies
                   /\ users \in SUBSET Users
                   /\ bookings \in SUBSET Booking
                   /\ granted \in SUBSET Session
<1>2. Rest
  BY <1>1 DEF TypeOK
<1> SUFFICES Rest'
  BY <1>1 DEF TypeOK
<1>3. CASE UNCHANGED <<reqs, movies, users, bookings, granted>>
  BY <1>2, <1>3
<1>4. ASSUME NEW m \in Movies, NEW s \in Seats, NEW u \in Users, Hold(m, s, u)
      PROVE  Rest'
  BY <1>2, <1>4 DEF Hold, sqlite, Session
<1>5. ASSUME NEW m \in Movies, NEW s \in Seats, NEW u \in Users,
             NEW r \in Requests, CheckoutUpsert(r, m, s, u)
      PROVE  Rest'
  <2>1. [pc |-> "upserted", movie |-> m, seat |-> s, user |-> u] \in Upserted
    BY DEF Upserted
  <2>2. QED
    BY <1>2, <1>5, <2>1 DEF CheckoutUpsert, upsert_for_auth_subject
<1>6. ASSUME NEW r \in Requests, CheckoutConfirm(r)
      PROVE  Rest'
  <2> DEFINE q == reqs[r]
             taken == [pc |-> "confirmed",
                       session |-> seatKey[<<q.movie, q.seat>>].value]
  <2>1. q \in Upserted /\ <<q.movie, q.seat>> \in SeatKeys
    BY <1>2, <1>6 DEF CheckoutConfirm, Upserted, Confirmed, Idle, SeatKeys
  <2>2. ASSUME ConfirmStatus(q.movie, q.seat, q.user) = 2
        PROVE  taken \in Confirmed
    <3>1. seatKey[<<q.movie, q.seat>>] \in SeatEntries(Session)
      BY <1>1, <2>1, <2>2 DEF ConfirmStatus, SeatIsFree, Live, KeysOK, TypeOK
    <3>2. QED
      BY <3>1 DEF SeatEntries, Confirmed
  <2>3. reqs' = [reqs EXCEPT ![r] =
                  IF ConfirmStatus(q.movie, q.seat, q.user) = 2
                  THEN taken ELSE Idle]
    BY <1>6 DEF CheckoutConfirm
  <2>4. UNCHANGED <<movies, users, bookings, granted>>
    BY <1>6 DEF CheckoutConfirm, sqlite
  <2> HIDE DEF q, taken
  <2>5. QED
    BY <1>2, <2>2, <2>3, <2>4
<1>7. ASSUME NEW r \in Requests, ConfirmReplyLost(r) \/ CheckoutDropped(r)
      PROVE  Rest'
  BY <1>2, <1>7 DEF ConfirmReplyLost, CheckoutDropped, sqlite
<1>8. ASSUME NEW r \in Requests, CheckoutInsert(r)
      PROVE  Rest'
  <2> DEFINE c == reqs[r].session
             Row(i) == [uuid |-> i, origin |-> c.uuid,
                        movie |-> c.movie, seat |-> c.seat, user |-> c.user]
  <2>1. c \in Session
    BY <1>2, <1>8 DEF CheckoutInsert, bookings_create, Upserted, Confirmed, Idle
  <2>2. \A i \in BookingIds : Row(i) \in Booking
    BY <2>1 DEF Session, Booking
  <2>3. PICK i \in BookingIds :
          bookings' = IF ForeignKeysHold(Row(i)) THEN bookings \cup {Row(i)}
                                                 ELSE bookings
    BY <1>8 DEF CheckoutInsert, bookings_create
  <2>4. QED
    BY <1>2, <1>8, <2>2, <2>3 DEF CheckoutInsert, bookings_create
<1>9. ASSUME NEW m \in Movies,
             \/ MovieCreate(m) \/ MovieDelete(m)
             \/ \E n \in Movies : MovieRename(m, n)
      PROVE  Rest'
  BY <1>2, <1>9 DEF MovieCreate, MovieDelete, MovieRename
<1>10. QED
  BY <1>3, <1>4, <1>5, <1>6, <1>7, <1>8, <1>9
     DEF Next, CheckoutStep, Tick, RedisRestart, sqlite, vars

-----------------------------------------------------------------------------
(***************************************************************************)
(* SQLite: a row that is inserted has its movie and its user; a movie that *)
(* goes has no row; a user never goes.                                     *)
(***************************************************************************)
LEMMA RowsStay == IInv /\ [Next]_vars => Rows'
<1> SUFFICES ASSUME IInv, [Next]_vars PROVE Rows'
  OBVIOUS
<1> USE DEF Rows, ReferentialIntegrity, ConsumerIsKnown, PendingUserIsKnown,
            HasConsumed
<1>1. Rows /\ TypeOK
  BY DEF IInv
<1>2. CASE UNCHANGED <<reqs, movies, users, bookings>>
  BY <1>1, <1>2
<1>3. ASSUME NEW m \in Movies, NEW s \in Seats, NEW u \in Users,
             NEW r \in Requests, CheckoutUpsert(r, m, s, u)
      PROVE  Rows'
  BY <1>1, <1>3 DEF CheckoutUpsert, upsert_for_auth_subject, TypeOK
<1>4. ASSUME NEW r \in Requests, CheckoutConfirm(r)
      PROVE  Rows'
  <2> DEFINE q == reqs[r]
             key == seatKey[<<q.movie, q.seat>>]
             taken == [pc |-> "confirmed", session |-> key.value]
  <2>1. /\ q.pc = "upserted" /\ UNCHANGED <<movies, users, bookings>>
        /\ reqs' = [reqs EXCEPT ![r] =
                      IF ConfirmStatus(q.movie, q.seat, q.user) = 2
                      THEN taken ELSE Idle]
    BY <1>4 DEF CheckoutConfirm, sqlite
  <2>2. ASSUME ConfirmStatus(q.movie, q.seat, q.user) = 2
        PROVE  taken.session.user \in users
    <3>1. key.value.user = q.user
      BY <2>2 DEF ConfirmStatus, HeldBy
    <3>2. QED
      BY <1>1, <2>1, <3>1
  <2>3. \/ reqs'[r] = Idle
        \/ reqs'[r] = taken /\ taken.session.user \in users
    BY <1>1, <2>1, <2>2 DEF TypeOK
  <2>4. \A p \in Requests \ {r} : reqs'[p] = reqs[p]
    BY <1>1, <2>1 DEF TypeOK
  <2>5. taken.pc = "confirmed"
    OBVIOUS
  <2> HIDE DEF q, taken
  <2>6. QED
    BY <1>1, <2>1, <2>3, <2>4, <2>5 DEF Idle
<1>5. ASSUME NEW r \in Requests, ConfirmReplyLost(r) \/ CheckoutDropped(r)
      PROVE  Rows'
  BY <1>1, <1>5 DEF ConfirmReplyLost, CheckoutDropped, sqlite, TypeOK, Idle
<1>6. ASSUME NEW r \in Requests, CheckoutInsert(r)
      PROVE  Rows'
  <2>1. /\ reqs' = [reqs EXCEPT ![r] = Idle]
        /\ UNCHANGED <<movies, users>>
        /\ \A b \in bookings' : b \in bookings \/ ForeignKeysHold(b)
    BY <1>6 DEF CheckoutInsert, bookings_create
  <2>2. QED
    BY <1>1, <2>1 DEF ForeignKeysHold, TypeOK, Idle
<1>7. ASSUME NEW m \in Movies,
             \/ MovieCreate(m) \/ MovieDelete(m)
             \/ \E n \in Movies : MovieRename(m, n)
      PROVE  Rows'
  BY <1>1, <1>7 DEF MovieCreate, MovieDelete, MovieRename, IsBooked
<1>8. QED
  BY <1>2, <1>3, <1>4, <1>5, <1>6, <1>7
     DEF Next, CheckoutStep, Hold, Tick, RedisRestart, sqlite, vars

-----------------------------------------------------------------------------
(***************************************************************************)
(* Where a session is.  A hold puts a fresh session under one key; a       *)
(* confirm moves it from its key to one task; an insert moves it from the  *)
(* task to one booking; everything else only takes sessions away.          *)
(***************************************************************************)
LEMMA PlacesStay == IInv /\ [Next]_vars => Places'
<1> SUFFICES ASSUME IInv, [Next]_vars PROVE Places'
  OBVIOUS
<1> USE DEF Places, GrantsAreNamed, LiveIsGranted, ConsumedIsGranted,
            SessionIsInOnePlace, OneBookingPerSession, BookingMatchesGrant,
            HasConsumed, IsLive
<1>1. Places /\ TypeOK
  BY DEF IInv
<1>2. ASSUME KeysOnlyGo, UNCHANGED <<reqs, bookings, granted>>
      PROVE  Places'
  BY <1>1, <1>2 DEF KeysOnlyGo
<1>3. ASSUME NEW m \in Movies, NEW s \in Seats, NEW u \in Users, Hold(m, s, u)
      PROVE  Places'
  <2>1. PICK x \in SessionIds \ {g.uuid : g \in granted} :
          LET new == [uuid |-> x, movie |-> m, seat |-> s, user |-> u] IN
          /\ HoldScript(m, s, new)
          /\ granted' = granted \cup {new}
    BY <1>3 DEF Hold
  <2> DEFINE new == [uuid |-> x, movie |-> m, seat |-> s, user |-> u]
  <2>2. /\ granted' = granted \cup {new}
        /\ UNCHANGED <<reqs, bookings>>
        /\ new.uuid = x /\ \A g \in granted : g.uuid # x
    BY <1>3, <2>1 DEF Hold, sqlite
  <2>3. \A k \in SeatKeys : Live(seatKey'[k]) =>
          \/ k = <<m, s>> /\ seatKey'[k].value = new
          \/ k # <<m, s>> /\ Live(seatKey[k]) /\ seatKey'[k] = seatKey[k]
    BY <1>3, <2>1 DEF Hold, HoldScript, Written, Live
  <2> HIDE DEF new
  <2>4. \A b \in bookings : b.origin # x
    <3> SUFFICES ASSUME NEW b \in bookings PROVE b.origin # x
      OBVIOUS
    <3>1. [uuid |-> b.origin, movie |-> b.movie, seat |-> b.seat,
           user |-> b.user] \in granted
      BY <1>1
    <3>2. QED
      BY <2>2, <3>1
  <2>5. QED
    BY <1>1, <2>2, <2>3, <2>4
<1>4. ASSUME NEW r \in Requests, CheckoutConfirm(r)
      PROVE  Places'
  <2> DEFINE q == reqs[r]
             l == <<q.movie, q.seat>>
             taken == [pc |-> "confirmed", session |-> seatKey[l].value]
  <2>1. /\ q \in Upserted /\ l \in SeatKeys
        /\ ConfirmScript(q.movie, q.seat, q.user)
        /\ UNCHANGED <<bookings, granted>>
        /\ q.movie \in Movies /\ q.seat \in Seats /\ q.user \in Users
    BY <1>1, <1>4 DEF CheckoutConfirm, TypeOK, Upserted, Confirmed, Idle,
                      SeatKeys, sqlite
  <2>2. KeysOnlyGo
    BY <1>1, <2>1, ConfirmTakesAway DEF TypeOK
  <2>3. \A p \in Requests \ {r} : reqs'[p] = reqs[p]
    BY <1>1, <1>4 DEF CheckoutConfirm, TypeOK
  <2>4. CASE ConfirmStatus(q.movie, q.seat, q.user) = 2
    <3>1. Live(seatKey[l]) /\ ~Live(seatKey'[l])
      BY <1>1, <2>1, <2>4
         DEF ConfirmStatus, ConfirmScript, HeldBy, Live, TypeOK, KeysOK
    <3>2. reqs'[r] = taken /\ taken.pc = "confirmed"
                           /\ taken.session = seatKey[l].value
      BY <1>1, <1>4, <2>4 DEF CheckoutConfirm, TypeOK
    <3> HIDE DEF q, l, taken
    <3>3. QED
      BY <1>1, <2>1, <2>2, <2>3, <3>1, <3>2 DEF KeysOnlyGo
  <2>5. CASE ConfirmStatus(q.movie, q.seat, q.user) # 2
    <3>1. reqs'[r].pc = "idle"
      BY <1>1, <1>4, <2>5 DEF CheckoutConfirm, TypeOK, Idle
    <3> HIDE DEF q, l
    <3>2. QED
      BY <1>1, <2>1, <2>2, <2>3, <3>1 DEF KeysOnlyGo
  <2>6. QED
    BY <2>4, <2>5
<1>5. ASSUME NEW r \in Requests, ConfirmReplyLost(r) \/ CheckoutDropped(r)
      PROVE  Places'
  <2>1. KeysOnlyGo
    <3>1. CASE CheckoutDropped(r)
      BY <3>1, NothingTakesAway DEF CheckoutDropped, redisVars
    <3>2. CASE ConfirmReplyLost(r)
      <4>1. /\ reqs[r] \in Upserted
            /\ ConfirmScript(reqs[r].movie, reqs[r].seat, reqs[r].user)
        BY <1>1, <3>2 DEF ConfirmReplyLost, TypeOK, Upserted, Confirmed, Idle
      <4>2. QED
        BY <1>1, <4>1, ConfirmTakesAway DEF TypeOK, Upserted
    <3>3. QED
      BY <1>5, <3>1, <3>2
  <2>2. /\ reqs'[r].pc = "idle" /\ \A p \in Requests \ {r} : reqs'[p] = reqs[p]
        /\ UNCHANGED <<bookings, granted>>
    BY <1>1, <1>5 DEF ConfirmReplyLost, CheckoutDropped, sqlite, TypeOK, Idle
  <2>3. QED
    BY <1>1, <2>1, <2>2 DEF KeysOnlyGo
<1>6. ASSUME NEW r \in Requests, CheckoutInsert(r)
      PROVE  Places'
  <2> DEFINE c == reqs[r].session
             Row(i) == [uuid |-> i, origin |-> c.uuid,
                        movie |-> c.movie, seat |-> c.seat, user |-> c.user]
  <2>1. /\ HasConsumed(r) /\ reqs'[r].pc = "idle"
        /\ \A p \in Requests \ {r} : reqs'[p] = reqs[p]
        /\ UNCHANGED <<seatKey, granted>>
    BY <1>1, <1>6 DEF CheckoutInsert, bookings_create, TypeOK, Idle, redisVars
  <2>2. PICK i \in BookingIds : bookings' \in {bookings, bookings \cup {Row(i)}}
    BY <1>6 DEF CheckoutInsert, bookings_create
  <2>3. CASE bookings' = bookings
    BY <1>1, <2>1, <2>3
  <2>4. CASE bookings' = bookings \cup {Row(i)}
    <3>1. c \in granted /\ c \in Session
      BY <1>1, <2>1 DEF TypeOK
    <3>2. c = [uuid |-> c.uuid, movie |-> c.movie, seat |-> c.seat,
               user |-> c.user]
      BY <3>1 DEF Session
    <3>3. /\ Row(i).origin = c.uuid
          /\ [uuid |-> Row(i).origin, movie |-> Row(i).movie,
              seat |-> Row(i).seat, user |-> Row(i).user] \in granted
      BY <3>1, <3>2
    <3> DEFINE row == Row(i)
    <3> HIDE DEF row
    <3>4. BookingMatchesGrant'
      BY <1>1, <2>1, <2>4, <3>3 DEF row
    <3>5. OneBookingPerSession'
      BY <1>1, <2>1, <2>4, <3>3 DEF row
    <3>6. SessionIsInOnePlace'
      BY <1>1, <2>1, <2>4, <3>3 DEF row
    <3>7. QED
      BY <1>1, <2>1, <3>4, <3>5, <3>6
  <2>5. QED
    BY <2>2, <2>3, <2>4
<1>7. CASE UNCHANGED <<seatKey, reqs, bookings, granted>>
  BY <1>2, <1>7, NothingTakesAway
<1>8. CASE Tick
  BY <1>1, <1>2, <1>8, ExpiryTakesAway DEF Tick, sqlite, TypeOK
<1>9. CASE RedisRestart
  BY <1>2, <1>9, LosingTakesAway DEF RedisRestart, sqlite
<1>10. ASSUME NEW m \in Movies, NEW s \in Seats, NEW u \in Users,
              NEW r \in Requests, CheckoutUpsert(r, m, s, u)
       PROVE  Places'
  <2>1. /\ reqs'[r].pc = "upserted"
        /\ \A p \in Requests \ {r} : reqs'[p] = reqs[p]
        /\ UNCHANGED <<seatKey, bookings, granted>>
    BY <1>1, <1>10 DEF CheckoutUpsert, upsert_for_auth_subject, redisVars, TypeOK
  <2>2. QED
    BY <1>1, <2>1
<1>11. QED
  BY <1>3, <1>4, <1>5, <1>6, <1>7, <1>8, <1>9, <1>10
     DEF Next, CheckoutStep, MovieCreate, MovieDelete, MovieRename,
         redisVars, vars

-----------------------------------------------------------------------------
LEMMA SpecIInv == Spec => []IInv
<1>1. IInv /\ [Next]_vars => IInv'
  BY TypeStaysOK, KeysStaySound, PlacesStay, RowsStay DEF IInv, Sound
<1>2. QED
  BY InitOK, <1>1, PTL DEF Spec

\* Every variable keeps its type.
THEOREM TypeCorrect == Spec => []TypeOK
<1>1. IInv => TypeOK
  BY DEF IInv
<1>2. QED
  BY <1>1, SpecIInv, PTL

(***************************************************************************)
(* The index of the hold store stays exact with checkouts, dropped replies *)
(* and expiry in any order.                                                *)
(***************************************************************************)
THEOREM IndexCorrect == Spec => []IndexMatchesSeats
<1>1. IInv => IndexMatchesSeats
  BY DEF IInv
<1>2. QED
  BY <1>1, SpecIInv, PTL

(***************************************************************************)
(* What the port promises holds of the store as the whole system uses it,  *)
(* with checkouts that are dropped or get no reply: a user has at most one *)
(* hold in a movie, no hold is handed over or prolonged, and every step is *)
(* one the port allows or changes no hold.                                 *)
(***************************************************************************)
THEOREM OneHoldPerUser == Spec => []AtMostOneHoldPerUser
BY IndexNamesOneHold, IndexCorrect, PTL

LEMMA StepsOfTheStore ==
  IInv /\ [Next]_vars =>
    /\ [\A k \in SeatKeys : Kept(k)]_redisVars
    /\ [Port!Next]_holdsNow
<1>1. IInv => TypeOK /\ Sound(Session)
  BY DEF IInv, TypeOK, Sound
<1>2. QED
  BY <1>1, NextIsStoreStep, StepTakesNothingOver, StepRefines, SessionUsers

\* A held seat is never handed to another user and no hold gets more time.
THEOREM NoTakeoverCorrect == Spec => NoTakeover
<1>1. IInv /\ [Next]_vars => [\A k \in SeatKeys : Kept(k)]_redisVars
  BY StepsOfTheStore
<1>2. QED
  BY <1>1, SpecIInv, PTL DEF Spec, NoTakeover, Kept

\* The holds of the booking system are those of the port.
THEOREM Refinement == Spec => ImplementsPort
<1>1. Init => Port!Init
  BY EmptyRefines DEF Init
<1>2. IInv /\ [Next]_vars => [Port!Next]_holdsNow
  BY StepsOfTheStore
<1>3. QED
  BY <1>1, <1>2, SpecIInv, PTL DEF Spec, ImplementsPort, Port!Spec, holdsNow

\* A session is under one key, with one task or behind one booking.
THEOREM SessionCorrect == Spec => []SessionIsInOnePlace
<1>1. IInv => SessionIsInOnePlace
  BY DEF IInv, Places
<1>2. QED
  BY <1>1, SpecIInv, PTL

\* No two bookings come from one hold, however often it is checked out.
THEOREM SpentOnce == Spec => []OneBookingPerSession
<1>1. IInv => OneBookingPerSession
  BY DEF IInv, Places
<1>2. QED
  BY <1>1, SpecIInv, PTL

\* A booking is for the movie, the seat and the user of its hold.
THEOREM BookingCorrect == Spec => []BookingMatchesGrant
<1>1. IInv => BookingMatchesGrant
  BY DEF IInv, Places
<1>2. QED
  BY <1>1, SpecIInv, PTL

(***************************************************************************)
(* A booking's movie and user exist, and the user of a consumed hold does. *)
(***************************************************************************)
THEOREM RowsCorrect == Spec => [](ReferentialIntegrity /\ ConsumerIsKnown)
<1>1. IInv => ReferentialIntegrity /\ ConsumerIsKnown
  BY DEF IInv, Rows
<1>2. QED
  BY <1>1, SpecIInv, PTL

-----------------------------------------------------------------------------
(***************************************************************************)
(* The seat map is a client of the booking system like any other: a click  *)
(* is a hold or a checkout of the film, and a snapshot only reads.  All of *)
(* the above therefore holds while pages are open.                         *)
(***************************************************************************)
LEMMA MapStepIsStep == [MapNext]_allVars => [Next]_vars
<1> SUFFICES ASSUME [MapNext]_allVars PROVE [Next]_vars
  OBVIOUS
<1> USE FilmAssumption
<1>1. CASE UNCHANGED vars
  BY <1>1
<1>2. ASSUME NEW v \in Viewers, NEW s \in Seats,
             \/ ClickAvailable(v, s)
             \/ \E r \in Requests : ClickYourHold(r, v, s)
      PROVE  Next
  BY <1>2 DEF ClickAvailable, ClickYourHold, Next
<1>3. CASE Background
  BY <1>3 DEF Background, Next
<1>4. ASSUME NEW t \in Snapshots,
             \/ \E v \in Viewers : SnapshotBegin(t, v)
             \/ \E s \in Seats : ScanSlot(t, s) \/ GetKey(t, s)
             \/ ScanBreaks(t) \/ SnapshotFails(t) \/ Render(t)
      PROVE  UNCHANGED vars
  BY <1>4 DEF SnapshotBegin, ScanSlot, GetKey, ScanBreaks, SnapshotFails, Render
<1>5. QED
  BY <1>1, <1>2, <1>3, <1>4 DEF MapNext, MapStep, allVars

\* Every behaviour of the map is one of the booking system.
THEOREM MapImplementsCheckout == MapSpec => Spec
<1>1. MapInit => Init
  BY DEF MapInit
<1>2. QED
  BY <1>1, MapStepIsStep, PTL DEF MapSpec, Spec

LEMMA MapIInv == MapSpec => []IInv
BY MapImplementsCheckout, SpecIInv, PTL

-----------------------------------------------------------------------------
(***************************************************************************)
(* The stores as a page shows them: what a kind says of a seat, and that a *)
(* sale is never taken back.                                               *)
(***************************************************************************)
LEMMA TruthSays ==
  ASSUME KeysOK(Session), NEW v, NEW s \in Seats
  PROVE  /\ Truth(v, s) \in Kinds
         /\ Truth(v, s) = "confirmed" <=> IsSold(s)
         /\ ~IsSold(s) => (Truth(v, s) = "available" <=> SeatIsFree(Film, s))
         /\ OwnersOf(s) = {} <=> SeatIsFree(Film, s)
<1>1. OwnersOf(s) = {} <=> SeatIsFree(Film, s)
  <2>1. <<Film, s>> \in SeatKeys
    BY FilmAssumption DEF SeatKeys
  <2>2. seatKey[<<Film, s>>] \in SeatEntries(Session) \cup {NoKey}
    BY <2>1 DEF KeysOK
  <2>3. Live(seatKey[<<Film, s>>]) => seatKey[<<Film, s>>].value.user \in Users
    BY <2>2, SessionUsers DEF SeatEntries, Live
  <2>4. QED
    BY <2>3 DEF OwnersOf, HeldBy, SeatIsFree
<1>2. QED
  BY <1>1 DEF Truth, KindFor, Kinds

LEMMA SalesStay == [Next]_vars => bookings \subseteq bookings'
<1> SUFFICES ASSUME [Next]_vars PROVE bookings \subseteq bookings'
  OBVIOUS
<1>1. ASSUME NEW r \in Requests, CheckoutInsert(r)
      PROVE  bookings \subseteq bookings'
  BY <1>1 DEF CheckoutInsert, bookings_create
<1>2. QED
  BY <1>1 DEF Next, Hold, CheckoutUpsert, CheckoutStep, CheckoutConfirm,
     ConfirmReplyLost, CheckoutDropped, MovieCreate, MovieDelete, MovieRename,
     Tick, RedisRestart, sqlite, vars

LEMMA SoldStays == [Next]_vars => \A s \in Seats : IsSold(s) => IsSold(s)'
BY SalesStay DEF IsSold

-----------------------------------------------------------------------------
(***************************************************************************)
(* The strengthening: what a snapshot has read so far of a seat that has   *)
(* not changed since it began is what the seat still is.                   *)
(***************************************************************************)
ScanIsFresh(t) ==
  snap[t].pc = "scan" => snap[t].listed = {} /\ snap[t].keys \cap snap[t].todo = {}

GetIsFresh(t) ==
  snap[t].pc = "get" => \A s \in snap[t].todo : ListedOwners(snap[t], s) = {}

BookedIsSold(t) == \A s \in snap[t].booked : IsSold(s)

SeatRead(t, s) ==
  LET q == snap[t]
      kind == Truth(q.viewer, s)
  IN
  /\ s \in q.booked <=> kind = "confirmed"
  /\ q.pc = "scan" /\ s \notin q.todo /\ kind # "confirmed" =>
       (s \in q.keys <=> kind # "available")
  /\ q.pc = "get" /\ s \notin q.todo => Merged(q, s) = kind

SnapshotRight(t) ==
  snap[t] # NoSnapshot =>
    /\ ScanIsFresh(t) /\ GetIsFresh(t) /\ BookedIsSold(t)
    /\ \A s \in steady[t] : SeatRead(t, s)

MapInv == /\ MapTypeOK /\ SteadySeatsAreShown /\ ConfirmedIsSold
          /\ \A t \in Snapshots : SnapshotRight(t)

-----------------------------------------------------------------------------
\* Where a snapshot is, by its pc.
LEMMA SnapshotPc ==
  ASSUME MapTypeOK, NEW t \in Snapshots
  PROVE  /\ snap[t] = NoSnapshot \/ snap[t] \in Snapshot
         /\ snap[t] # NoSnapshot <=> snap[t].pc \in {"scan", "get"}
         /\ snap[t] # NoSnapshot <=> snap[t] \in Snapshot
BY DEF MapTypeOK, NoSnapshot, Snapshot

(***************************************************************************)
(* The steps of a snapshot, as what each makes of its record.  Slots is    *)
(* the type of snap.                                                       *)
(***************************************************************************)
Slots == [Snapshots -> Snapshot \cup {NoSnapshot}]

Becomes(t, q) ==
  /\ snap'[t] = q /\ q \in Snapshot
  /\ \A o \in Snapshots \ {t} : snap'[o] = snap[o]
  /\ snap' \in Slots

LEMMA ScanBecomes ==
  ASSUME MapTypeOK, NEW t \in Snapshots, NEW s \in Seats, ScanSlot(t, s)
  PROVE  LET q == snap[t]
             keys == IF SeatIsFree(Film, s) THEN q.keys ELSE q.keys \cup {s}
             todo == q.todo \ {s}
         IN Becomes(t, [pc |-> IF todo = {} THEN "get" ELSE "scan",
                        viewer |-> q.viewer, booked |-> q.booked,
                        todo |-> IF todo = {} THEN keys ELSE todo,
                        keys |-> keys, listed |-> q.listed, whole |-> q.whole])
<1> DEFINE q == snap[t]
           keys == IF SeatIsFree(Film, s) THEN q.keys ELSE q.keys \cup {s}
           todo == q.todo \ {s}
           pc2 == IF todo = {} THEN "get" ELSE "scan"
           todo2 == IF todo = {} THEN keys ELSE todo
           new == [pc |-> pc2, viewer |-> q.viewer, booked |-> q.booked,
                   todo |-> todo2, keys |-> keys, listed |-> q.listed,
                   whole |-> q.whole]
<1>1. snap \in Slots /\ q \in Snapshot
  BY SnapshotPc DEF ScanSlot, MapTypeOK, Slots
<1>2. snap' = [snap EXCEPT ![t].keys = keys, ![t].pc = pc2, ![t].todo = todo2]
  BY DEF ScanSlot
<1>3. keys \in SUBSET Seats /\ pc2 \in {"scan", "get"} /\ todo2 \in SUBSET Seats
  BY <1>1 DEF Snapshot
<1> HIDE DEF keys, todo, pc2, todo2
<1>4. /\ snap'[t].pc = pc2 /\ snap'[t].todo = todo2 /\ snap'[t].keys = keys
      /\ snap'[t].viewer = q.viewer /\ snap'[t].booked = q.booked
      /\ snap'[t].listed = q.listed /\ snap'[t].whole = q.whole
      /\ snap'[t] \in Snapshot
      /\ \A o \in Snapshots \ {t} : snap'[o] = snap[o]
      /\ snap' \in Slots
  BY <1>1, <1>2, <1>3 DEF Snapshot, Slots
<1>5. snap'[t] = new
  BY <1>4 DEF Snapshot
<1>6. QED
  BY <1>4, <1>5 DEF keys, todo, pc2, todo2, Becomes

LEMMA BreakBecomes ==
  ASSUME MapTypeOK, NEW t \in Snapshots, ScanBreaks(t)
  PROVE  LET q == snap[t] IN
         Becomes(t, [pc |-> "get", viewer |-> q.viewer, booked |-> q.booked,
                     todo |-> q.keys, keys |-> q.keys, listed |-> q.listed,
                     whole |-> FALSE])
<1> DEFINE q == snap[t]
<1>1. snap \in Slots /\ q \in Snapshot
  BY SnapshotPc DEF ScanBreaks, MapTypeOK, Slots
<1>2. snap' = [snap EXCEPT ![t].pc = "get", ![t].todo = q.keys,
                           ![t].whole = FALSE]
  BY DEF ScanBreaks
<1>3. /\ snap'[t].pc = "get" /\ snap'[t].todo = q.keys /\ snap'[t].keys = q.keys
      /\ snap'[t].viewer = q.viewer /\ snap'[t].booked = q.booked
      /\ snap'[t].listed = q.listed /\ snap'[t].whole = FALSE
      /\ snap'[t] \in Snapshot
      /\ \A o \in Snapshots \ {t} : snap'[o] = snap[o]
      /\ snap' \in Slots
  BY <1>1, <1>2 DEF Snapshot, Slots
<1>4. snap'[t] = [pc |-> "get", viewer |-> q.viewer, booked |-> q.booked,
                  todo |-> q.keys, keys |-> q.keys, listed |-> q.listed,
                  whole |-> FALSE]
  BY <1>3 DEF Snapshot
<1>5. QED
  BY <1>3, <1>4 DEF Becomes

LEMMA GetBecomes ==
  ASSUME MapTypeOK, NEW t \in Snapshots, NEW s \in Seats, GetKey(t, s)
  PROVE  LET q == snap[t] IN
         Becomes(t, [pc |-> "get", viewer |-> q.viewer, booked |-> q.booked,
                     todo |-> q.todo \ {s}, keys |-> q.keys,
                     listed |-> q.listed \cup
                       {[seat |-> s, user |-> u] : u \in OwnersOf(s)},
                     whole |-> q.whole])
<1> DEFINE q == snap[t]
           found == {[seat |-> s, user |-> u] : u \in OwnersOf(s)}
           rest == q.todo \ {s}
           list == q.listed \cup found
<1>1. snap \in Slots /\ q \in Snapshot /\ q.pc = "get"
  BY SnapshotPc DEF GetKey, MapTypeOK, Slots
<1>2. snap' = [snap EXCEPT ![t].todo = @ \ {s}, ![t].listed = @ \cup found]
  BY DEF GetKey
<1>3. snap' = [snap EXCEPT ![t].todo = rest, ![t].listed = list]
  BY <1>1, <1>2 DEF Snapshot, Slots
<1>4. found \in SUBSET ListedSession
  BY DEF OwnersOf, ListedSession
<1> HIDE DEF found
<1>5. rest \in SUBSET Seats /\ list \in SUBSET ListedSession
  BY <1>1, <1>4 DEF Snapshot
<1> HIDE DEF rest, list
<1>6. /\ snap'[t].pc = "get" /\ snap'[t].todo = rest /\ snap'[t].keys = q.keys
      /\ snap'[t].viewer = q.viewer /\ snap'[t].booked = q.booked
      /\ snap'[t].listed = list /\ snap'[t].whole = q.whole
      /\ snap'[t] \in Snapshot
      /\ \A o \in Snapshots \ {t} : snap'[o] = snap[o]
      /\ snap' \in Slots
  BY <1>1, <1>3, <1>5 DEF Snapshot, Slots
<1>7. snap'[t] = [pc |-> "get", viewer |-> q.viewer, booked |-> q.booked,
                  todo |-> rest, keys |-> q.keys, listed |-> list,
                  whole |-> q.whole]
  BY <1>6 DEF Snapshot
<1>8. QED
  BY <1>6, <1>7 DEF Becomes, found, rest, list

\* A snapshot that has read the bookings and nothing else.
Begun(v) ==
  [pc |-> "scan", viewer |-> v, booked |-> {s \in Seats : IsSold(s)},
   todo |-> Seats, keys |-> {}, listed |-> {}, whole |-> TRUE]

(***************************************************************************)
(* What a step can do to one snapshot, and to one page.                    *)
(***************************************************************************)
SnapshotMoves(t) ==
  \/ snap'[t] = snap[t] \/ snap'[t] = NoSnapshot
  \/ \E v \in Viewers : /\ snap[t] = NoSnapshot /\ snap'[t] = Begun(v)
                        /\ UNCHANGED vars
  \/ \E s \in Seats : ScanSlot(t, s) \/ GetKey(t, s)
  \/ ScanBreaks(t)

LEMMA SnapshotsMove ==
  ASSUME MapTypeOK, MapNext
  PROVE  snap' \in Slots /\ \A t \in Snapshots : SnapshotMoves(t)
<1> USE DEF SnapshotMoves
<1>1. snap \in Slots
  BY DEF MapTypeOK, Slots
<1>2. CASE UNCHANGED snap
  BY <1>1, <1>2
<1>3. ASSUME NEW t \in Snapshots, NEW v \in Viewers, SnapshotBegin(t, v)
      PROVE  snap' \in Slots /\ \A o \in Snapshots : SnapshotMoves(o)
  <2>1. CASE Film \in movies
    <3>1. /\ snap[t] = NoSnapshot /\ UNCHANGED vars
          /\ snap' = [snap EXCEPT ![t] = Begun(v)]
      BY <1>3, <2>1 DEF SnapshotBegin, Begun
    <3>2. Begun(v) \in Snapshot
      BY DEF Begun, Snapshot
    <3>3. QED
      BY <1>1, <3>1, <3>2 DEF Slots
  <2>2. CASE Film \notin movies
    BY <1>2, <1>3, <2>2 DEF SnapshotBegin
  <2>3. QED
    BY <2>1, <2>2
<1>4. ASSUME NEW t \in Snapshots, NEW s \in Seats, ScanSlot(t, s)
      PROVE  snap' \in Slots /\ \A o \in Snapshots : SnapshotMoves(o)
  BY <1>4, ScanBecomes DEF Becomes
<1>5. ASSUME NEW t \in Snapshots, NEW s \in Seats, GetKey(t, s)
      PROVE  snap' \in Slots /\ \A o \in Snapshots : SnapshotMoves(o)
  BY <1>5, GetBecomes DEF Becomes
<1>6. ASSUME NEW t \in Snapshots, ScanBreaks(t)
      PROVE  snap' \in Slots /\ \A o \in Snapshots : SnapshotMoves(o)
  BY <1>6, BreakBecomes DEF Becomes
<1>7. ASSUME NEW t \in Snapshots, SnapshotFails(t) \/ Render(t)
      PROVE  snap' \in Slots /\ \A o \in Snapshots : SnapshotMoves(o)
  <2>1. snap' = [snap EXCEPT ![t] = NoSnapshot]
    BY <1>7 DEF SnapshotFails, Render
  <2>2. QED
    BY <1>1, <2>1 DEF Slots
<1>8. QED
  BY <1>2, <1>3, <1>4, <1>5, <1>6, <1>7
     DEF MapNext, MapStep, ClickAvailable, ClickYourHold, Background

LEMMA MergedIsKind == \A q, s : Merged(q, s) \in Kinds
BY DEF Merged, KindFor, Kinds

LEMMA PagesMove ==
  ASSUME MapTypeOK, MapStep
  PROVE  /\ page' \in [Viewers -> [Seats -> Kinds] \cup {Blank}]
         /\ \A v \in Viewers : page'[v] = page[v] \/ page'[v] = Blank
<1>1. page \in [Viewers -> [Seats -> Kinds] \cup {Blank}]
  BY DEF MapTypeOK
<1>2. CASE UNCHANGED page
  BY <1>1, <1>2
<1>3. ASSUME NEW v, ReplaceGrid(v, Blank)
      PROVE  /\ page' \in [Viewers -> [Seats -> Kinds] \cup {Blank}]
             /\ \A w \in Viewers : page'[w] = page[w] \/ page'[w] = Blank
  BY <1>1, <1>3 DEF ReplaceGrid
<1>4. QED
  BY <1>2, <1>3 DEF MapStep, SnapshotBegin, ScanSlot, GetKey, ScanBreaks,
     SnapshotFails, ClickAvailable, ClickYourHold, Background

LEMMA RenderedPage ==
  ASSUME MapTypeOK, NEW t \in Snapshots, Render(t)
  PROVE  /\ snap[t] \in Snapshot
         /\ page' = [page EXCEPT ![snap[t].viewer] =
                       [s \in Seats |-> Merged(snap[t], s)]]
         /\ page' \in [Viewers -> [Seats -> Kinds] \cup {Blank}]
<1>1. /\ snap[t] \in Snapshot
      /\ page' = [page EXCEPT ![snap[t].viewer] =
                       [s \in Seats |-> Merged(snap[t], s)]]
  BY SnapshotPc DEF Render, ReplaceGrid
<1>2. [s \in Seats |-> Merged(snap[t], s)] \in [Seats -> Kinds]
  BY MergedIsKind
<1>3. QED
  BY <1>1, <1>2 DEF MapTypeOK

-----------------------------------------------------------------------------
LEMMA MapTypeStays == ASSUME MapTypeOK, [MapNext]_allVars PROVE MapTypeOK'
<1>1. CASE UNCHANGED allVars
  BY <1>1 DEF allVars, mapVars, MapTypeOK
<1>2. CASE MapNext
  <2>1. snap' \in [Snapshots -> Snapshot \cup {NoSnapshot}]
    BY <1>2, SnapshotsMove DEF Slots
  <2>2. page' \in [Viewers -> [Seats -> Kinds] \cup {Blank}]
    BY <1>2, PagesMove, RenderedPage DEF MapNext
  <2>3. steady' \in [Snapshots -> SUBSET Seats]
    BY <1>2 DEF MapNext, Remember, MapTypeOK
  <2>4. pageSteady' \in [Viewers -> SUBSET Seats]
    BY <1>2 DEF MapNext, KeepPages, MapTypeOK
  <2>5. QED
    BY <2>1, <2>2, <2>3, <2>4 DEF MapTypeOK, Blank
<1>3. QED
  BY <1>1, <1>2

-----------------------------------------------------------------------------
\* Truth is read from the stores, so a step that leaves them leaves it.
LEMMA QuietTruth ==
  ASSUME UNCHANGED vars, NEW v, NEW s \in Seats
  PROVE  Truth(v, s)' = Truth(v, s)
BY DEF vars, Truth, IsSold, OwnersOf, HeldBy

(***************************************************************************)
(* A seat that is still steady was, its snapshot's SCAN did not break off, *)
(* and it is for the viewer what it was.                                   *)
(***************************************************************************)
LEMMA StillSteady ==
  ASSUME Remember, NEW t \in Snapshots,
         snap[t] \in Snapshot, snap'[t] \in Snapshot,
         NEW v, snap[t].viewer = v, snap'[t].viewer = v,
         NEW s \in Seats, s \in steady'[t]
  PROVE  s \in steady[t] /\ snap'[t].whole /\ Truth(v, s)' = Truth(v, s)
<1>1. snap[t] # NoSnapshot /\ snap'[t] # NoSnapshot
  BY DEF Snapshot, NoSnapshot
<1>2. steady'[t] = IF ~snap'[t].whole THEN {}
                   ELSE steady[t] \cap Unchanged(snap[t].viewer)
  BY <1>1 DEF Remember
<1>3. s \in steady[t] /\ snap'[t].whole /\ s \in Unchanged(snap[t].viewer)
  BY <1>2
<1>4. QED
  BY <1>3 DEF Unchanged, Truth, KindFor

-----------------------------------------------------------------------------
\* One snapshot, by what the step does to it.
LEMMA UntouchedStaysRight ==
  ASSUME MapTypeOK, MapTypeOK', [Next]_vars, Remember, NEW t \in Snapshots,
         SnapshotRight(t), snap'[t] = snap[t], snap[t] # NoSnapshot
  PROVE  SnapshotRight(t)'
<1>1. PICK v \in Viewers : snap[t] \in Snapshot /\ snap[t].viewer = v
  BY SnapshotPc DEF Snapshot
<1>2. ScanIsFresh(t)' /\ GetIsFresh(t)'
  BY DEF SnapshotRight, ScanIsFresh, GetIsFresh, ListedOwners
<1>3. BookedIsSold(t)'
  BY <1>1, SoldStays DEF SnapshotRight, BookedIsSold, Snapshot
<1>4. ASSUME NEW s \in steady'[t] PROVE SeatRead(t, s)'
  <2>1. s \in Seats
    BY DEF MapTypeOK
  <2>2. s \in steady[t] /\ Truth(v, s)' = Truth(v, s)
    BY <1>1, <2>1, StillSteady
  <2>3. SeatRead(t, s)
    BY <2>2 DEF SnapshotRight
  <2>4. QED
    BY <1>1, <2>2, <2>3 DEF SeatRead, Merged, ListedOwners
<1>5. QED
  BY <1>2, <1>3, <1>4 DEF SnapshotRight

LEMMA BegunIsRight ==
  ASSUME KeysOK(Session), NEW t \in Snapshots, NEW v \in Viewers,
         snap'[t] = Begun(v), UNCHANGED vars, MapTypeOK'
  PROVE  SnapshotRight(t)'
<1>1. ASSUME NEW s \in Seats
      PROVE  /\ Truth(v, s)' = Truth(v, s) /\ IsSold(s)' = IsSold(s)
             /\ Truth(v, s) = "confirmed" <=> IsSold(s)
  BY QuietTruth, TruthSays DEF IsSold, vars
<1>2. ScanIsFresh(t)' /\ GetIsFresh(t)'
  BY DEF ScanIsFresh, GetIsFresh, Begun
<1>3. BookedIsSold(t)'
  BY <1>1 DEF BookedIsSold, Begun
<1>4. ASSUME NEW s \in steady'[t] PROVE SeatRead(t, s)'
  BY <1>1 DEF SeatRead, Begun, MapTypeOK
<1>5. QED
  BY <1>2, <1>3, <1>4 DEF SnapshotRight

(***************************************************************************)
(* A slot is passed: of a steady seat, the key is there or not as it is    *)
(* now.  The last slot makes the SCAN's keys the GETs' list, so a seat     *)
(* that is not on it has no key and is available unless it is sold.        *)
(***************************************************************************)
LEMMA ScannedStaysRight ==
  ASSUME KeysOK(Session), MapTypeOK, MapTypeOK', Remember,
         NEW t \in Snapshots, NEW p \in Seats, ScanSlot(t, p), SnapshotRight(t)
  PROVE  SnapshotRight(t)'
<1> DEFINE q == snap[t]
           keys == IF SeatIsFree(Film, p) THEN q.keys ELSE q.keys \cup {p}
           todo == q.todo \ {p}
<1>1. /\ q \in Snapshot /\ q.pc = "scan" /\ p \in q.todo /\ UNCHANGED vars
      /\ q # NoSnapshot
  BY SnapshotPc DEF ScanSlot
<1>2. snap'[t] = [pc |-> IF todo = {} THEN "get" ELSE "scan",
                  viewer |-> q.viewer, booked |-> q.booked,
                  todo |-> IF todo = {} THEN keys ELSE todo,
                  keys |-> keys, listed |-> q.listed, whole |-> q.whole]
      /\ snap'[t] \in Snapshot
  BY ScanBecomes DEF Becomes
<1>3. q.listed = {} /\ q.keys \cap q.todo = {} /\ BookedIsSold(t)
  BY <1>1 DEF SnapshotRight, ScanIsFresh
<1>4. keys \cap todo = {}
  BY <1>3
<1>5. ScanIsFresh(t)' /\ GetIsFresh(t)'
  BY <1>2, <1>3, <1>4 DEF ScanIsFresh, GetIsFresh, ListedOwners
<1>6. BookedIsSold(t)'
  BY <1>1, <1>2, <1>3 DEF BookedIsSold, IsSold, vars
<1>7. ASSUME NEW s \in steady'[t] PROVE SeatRead(t, s)'
  <2>1. PICK v : q.viewer = v
    OBVIOUS
  <2> DEFINE kind == Truth(v, s)
  <2>2. s \in Seats
    BY DEF MapTypeOK
  <2>3. s \in steady[t] /\ Truth(v, s)' = kind
    BY <1>1, <1>2, <2>1, <2>2, StillSteady
  <2>4. SeatRead(t, s)
    BY <1>1, <2>3 DEF SnapshotRight
  <2>5. /\ s \in q.booked <=> kind = "confirmed"
        /\ s \notin q.todo /\ kind # "confirmed" =>
             (s \in q.keys <=> kind # "available")
    BY <1>1, <2>1, <2>4 DEF SeatRead
  <2>6. kind # "confirmed" => (kind = "available" <=> SeatIsFree(Film, s))
    BY <2>2, TruthSays
  <2>7. s \notin todo /\ kind # "confirmed" =>
          (s \in keys <=> kind # "available")
    BY <1>1, <1>3, <2>5, <2>6
  <2>8. ListedOwners(snap[t], s)' = {}
    BY <1>2, <1>3 DEF ListedOwners
  <2>9. todo = {} /\ s \notin keys =>
          KindFor(v, s \in q.booked, {}) = kind
    BY <2>2, <2>5, <2>7, TruthSays DEF KindFor, Kinds
  <2>10. Merged(snap[t], s)' = KindFor(v, s \in q.booked, {})
    BY <1>2, <2>1, <2>8 DEF Merged
  <2> HIDE DEF kind, keys, todo
  <2>11. /\ snap'[t].pc = IF todo = {} THEN "get" ELSE "scan"
         /\ snap'[t].todo = IF todo = {} THEN keys ELSE todo
         /\ snap'[t].booked = q.booked /\ snap'[t].keys = keys
         /\ snap'[t].viewer = v
    BY <1>2, <2>1
  <2>12. Truth(snap[t].viewer, s)' = kind
    BY <2>3, <2>11 DEF Truth, KindFor
  <2>13. QED
    BY <2>5, <2>7, <2>9, <2>10, <2>11, <2>12 DEF SeatRead
<1>8. QED
  BY <1>5, <1>6, <1>7 DEF SnapshotRight

\* A SCAN that breaks off has no steady seat left.
LEMMA BrokenStaysRight ==
  ASSUME MapTypeOK, MapTypeOK', Remember, NEW t \in Snapshots, ScanBreaks(t),
         SnapshotRight(t)
  PROVE  SnapshotRight(t)'
<1> DEFINE q == snap[t]
<1>1. q \in Snapshot /\ q.pc = "scan" /\ UNCHANGED vars /\ q # NoSnapshot
  BY SnapshotPc DEF ScanBreaks
<1>2. /\ snap'[t] = [pc |-> "get", viewer |-> q.viewer, booked |-> q.booked,
                     todo |-> q.keys, keys |-> q.keys, listed |-> q.listed,
                     whole |-> FALSE]
      /\ snap'[t] \in Snapshot
  BY BreakBecomes DEF Becomes
<1>3. q.listed = {} /\ BookedIsSold(t)
  BY <1>1 DEF SnapshotRight, ScanIsFresh
<1>4. ScanIsFresh(t)' /\ GetIsFresh(t)'
  BY <1>2, <1>3 DEF ScanIsFresh, GetIsFresh, ListedOwners
<1>5. BookedIsSold(t)'
  BY <1>1, <1>2, <1>3 DEF BookedIsSold, IsSold, vars
<1>6. steady'[t] = {}
  BY <1>1, <1>2 DEF Remember, Snapshot, NoSnapshot
<1>7. QED
  BY <1>4, <1>5, <1>6 DEF SnapshotRight

\* A GET lists the seat's owner as it is now, and nothing of another seat.
LEMMA GottenStaysRight ==
  ASSUME KeysOK(Session), MapTypeOK, MapTypeOK', Remember,
         NEW t \in Snapshots, NEW p \in Seats, GetKey(t, p), SnapshotRight(t)
  PROVE  SnapshotRight(t)'
<1> DEFINE q == snap[t]
           found == {[seat |-> p, user |-> u] : u \in OwnersOf(p)}
<1>1. /\ q \in Snapshot /\ q.pc = "get" /\ p \in q.todo /\ UNCHANGED vars
      /\ q # NoSnapshot
  BY SnapshotPc DEF GetKey
<1>2. /\ snap'[t] = [pc |-> "get", viewer |-> q.viewer, booked |-> q.booked,
                     todo |-> q.todo \ {p}, keys |-> q.keys,
                     listed |-> q.listed \cup found, whole |-> q.whole]
      /\ snap'[t] \in Snapshot
  BY GetBecomes DEF Becomes
<1>3. (\A s \in q.todo : ListedOwners(q, s) = {}) /\ BookedIsSold(t)
  BY <1>1 DEF SnapshotRight, GetIsFresh
<1>4. ASSUME NEW s
      PROVE  ListedOwners(snap[t], s)' =
               IF s = p THEN ListedOwners(q, s) \cup OwnersOf(s)
                        ELSE ListedOwners(q, s)
  <2>1. snap'[t].listed = q.listed \cup found
    BY <1>2
  <2> DEFINE list == snap'[t].listed
             owners == {h.user : h \in {l \in list : l.seat = s}}
  <2>2. \A l : l \in found <=>
                 \E u \in OwnersOf(p) : l = [seat |-> p, user |-> u]
    OBVIOUS
  <2> HIDE DEF found
  <2>3. \A u : u \in owners <=>
                 \/ u \in ListedOwners(q, s)
                 \/ \E l \in found : l.seat = s /\ u = l.user
    BY <2>1 DEF ListedOwners
  <2>4. \A u : (\E l \in found : l.seat = s /\ u = l.user) <=>
                 s = p /\ u \in OwnersOf(s)
    <3>1. ASSUME NEW u, NEW l \in found, l.seat = s, u = l.user
          PROVE  s = p /\ u \in OwnersOf(s)
      BY <2>2, <3>1
    <3>2. ASSUME NEW u, s = p, u \in OwnersOf(s)
          PROVE  \E l \in found : l.seat = s /\ u = l.user
      <4>1. [seat |-> p, user |-> u] \in found
        BY <2>2, <3>2
      <4>2. QED
        BY <3>2, <4>1
    <3>3. QED
      BY <3>1, <3>2
  <2>5. ListedOwners(snap[t], s)' = owners
    BY DEF ListedOwners
  <2> HIDE DEF owners
  <2>6. QED
    BY <2>3, <2>4, <2>5
<1>5. ScanIsFresh(t)'
  BY <1>2 DEF ScanIsFresh
<1>6. GetIsFresh(t)'
  BY <1>2, <1>3, <1>4 DEF GetIsFresh
<1>7. BookedIsSold(t)'
  BY <1>1, <1>2, <1>3 DEF BookedIsSold, IsSold, vars
<1>8. ASSUME NEW s \in steady'[t] PROVE SeatRead(t, s)'
  <2>1. PICK v : q.viewer = v
    OBVIOUS
  <2> DEFINE kind == Truth(v, s)
  <2>2. s \in Seats
    BY DEF MapTypeOK
  <2>3. s \in steady[t] /\ Truth(v, s)' = kind
    BY <1>1, <1>2, <2>1, <2>2, StillSteady
  <2>4. SeatRead(t, s)
    BY <1>1, <2>3 DEF SnapshotRight
  <2>5. /\ s \in q.booked <=> kind = "confirmed"
        /\ s \notin q.todo =>
             KindFor(v, s \in q.booked, ListedOwners(q, s)) = kind
    BY <1>1, <2>1, <2>4 DEF SeatRead, Merged
  <2>6. kind = KindFor(v, s \in q.booked, OwnersOf(s))
    BY <2>2, <2>5, TruthSays DEF Truth, KindFor
  <2>7. /\ snap'[t].pc = "get" /\ snap'[t].todo = q.todo \ {p}
        /\ snap'[t].booked = q.booked /\ snap'[t].viewer = v
    BY <1>2, <2>1
  <2>8. s \notin snap'[t].todo => Merged(snap[t], s)' = kind
    <3>1. Merged(snap[t], s)' =
            KindFor(v, s \in q.booked, ListedOwners(snap[t], s)')
      BY <2>7 DEF Merged, KindFor
    <3>2. CASE s = p
      <4>1. ListedOwners(snap[t], s)' = OwnersOf(s)
        BY <1>1, <1>3, <1>4, <3>2
      <4>2. QED
        BY <2>6, <3>1, <4>1
    <3>3. CASE s # p
      <4>1. ListedOwners(snap[t], s)' = ListedOwners(q, s)
        BY <1>4, <3>3
      <4>2. QED
        BY <2>5, <2>7, <3>1, <3>3, <4>1
    <3>4. QED
      BY <3>2, <3>3
  <2> HIDE DEF kind
  <2>9. Truth(snap[t].viewer, s)' = kind
    BY <2>3, <2>7 DEF Truth, KindFor
  <2>10. QED
    BY <2>5, <2>7, <2>8, <2>9 DEF SeatRead
<1>9. QED
  BY <1>5, <1>6, <1>7, <1>8 DEF SnapshotRight

LEMMA SnapshotsStayRight ==
  ASSUME KeysOK(Session), MapInv, MapTypeOK', [Next]_vars, MapNext,
         NEW t \in Snapshots
  PROVE  SnapshotRight(t)'
<1>1. MapTypeOK /\ SnapshotRight(t) /\ Remember
  BY DEF MapInv, MapNext
<1>2. CASE snap'[t] = NoSnapshot
  BY <1>2 DEF SnapshotRight, NoSnapshot
<1>3. CASE snap'[t] = snap[t] /\ snap[t] # NoSnapshot
  BY <1>1, <1>3, UntouchedStaysRight
<1>4. ASSUME NEW v \in Viewers, snap'[t] = Begun(v), UNCHANGED vars
      PROVE  SnapshotRight(t)'
  BY <1>4, BegunIsRight
<1>5. ASSUME NEW s \in Seats, ScanSlot(t, s) \/ GetKey(t, s)
      PROVE  SnapshotRight(t)'
  BY <1>1, <1>5, ScannedStaysRight, GottenStaysRight
<1>6. CASE ScanBreaks(t)
  BY <1>1, <1>6, BrokenStaysRight
<1>7. SnapshotMoves(t)
  BY <1>1, SnapshotsMove
<1>8. QED
  BY <1>2, <1>3, <1>4, <1>5, <1>6, <1>7 DEF SnapshotMoves

-----------------------------------------------------------------------------
(***************************************************************************)
(* The pages: between two answers a page stands still while seats change   *)
(* and leave its steady ones; an answer shows what its snapshot read.      *)
(***************************************************************************)
LEMMA KeptPagesStayRight ==
  ASSUME MapInv, MapTypeOK', [Next]_vars, MapStep, KeepPages
  PROVE  SteadySeatsAreShown' /\ ConfirmedIsSold'
<1>1. ASSUME NEW v \in Viewers
      PROVE  page'[v] = page[v] \/ page'[v] = Blank
  BY PagesMove DEF MapInv
<1>2. ASSUME NEW v \in Viewers, NEW s \in pageSteady'[v]
      PROVE  page'[v][s] = Truth(v, s)'
  <2>1. page'[v] = page[v] /\ s \in pageSteady[v] /\ s \in Unchanged(v)
    BY <1>1 DEF KeepPages
  <2>2. page[v][s] = Truth(v, s) /\ Truth(v, s)' = Truth(v, s)
    BY <2>1 DEF MapInv, SteadySeatsAreShown, Unchanged
  <2>3. QED
    BY <2>1, <2>2
<1>3. ASSUME NEW v \in Viewers, NEW s \in Seats, page'[v][s] = "confirmed"
      PROVE  IsSold(s)'
  <2>1. page[v][s] = "confirmed"
    BY <1>1, <1>3 DEF Blank
  <2>2. QED
    BY <2>1, SoldStays DEF MapInv, ConfirmedIsSold
<1>4. QED
  BY <1>2, <1>3 DEF SteadySeatsAreShown, ConfirmedIsSold

LEMMA RenderedPageIsRight ==
  ASSUME MapInv, MapTypeOK', NEW t \in Snapshots, Render(t),
         pageSteady' = [pageSteady EXCEPT ![snap[t].viewer] = steady[t]]
  PROVE  SteadySeatsAreShown' /\ ConfirmedIsSold'
<1> DEFINE q == snap[t]
<1>1. PICK x \in Viewers : q.viewer = x
  BY RenderedPage DEF MapInv, Snapshot
<1>2. /\ q \in Snapshot /\ q # NoSnapshot /\ q.pc = "get" /\ q.todo = {}
      /\ page' = [page EXCEPT ![x] = [s \in Seats |-> Merged(q, s)]]
      /\ pageSteady' = [pageSteady EXCEPT ![x] = steady[t]]
      /\ UNCHANGED vars
  BY <1>1, RenderedPage, SnapshotPc DEF Render, MapInv
<1>3. BookedIsSold(t) /\ \A s \in steady[t] : SeatRead(t, s)
  BY <1>2 DEF MapInv, SnapshotRight
<1>4. /\ DOMAIN page = Viewers /\ DOMAIN pageSteady = Viewers
      /\ \A v \in Viewers : pageSteady[v] \subseteq Seats
      /\ steady[t] \subseteq Seats
  BY DEF MapInv, MapTypeOK
<1>5. ASSUME NEW v \in Viewers, NEW s \in pageSteady'[v]
      PROVE  page'[v][s] = Truth(v, s)'
  <2>1. CASE v = x
    <3>1. s \in steady[t] /\ s \in Seats /\ page'[v][s] = Merged(q, s)
      BY <1>2, <1>4, <2>1
    <3>2. Merged(q, s) = Truth(x, s)
      BY <1>1, <1>2, <1>3, <3>1 DEF SeatRead
    <3>3. QED
      BY <1>2, <2>1, <3>1, <3>2, QuietTruth
  <2>2. CASE v # x
    <3>1. s \in pageSteady[v] /\ s \in Seats /\ page'[v] = page[v]
      BY <1>2, <1>4, <2>2
    <3>2. page[v][s] = Truth(v, s)
      BY <3>1 DEF MapInv, SteadySeatsAreShown
    <3>3. QED
      BY <1>2, <3>1, <3>2, QuietTruth
  <2>3. QED
    BY <2>1, <2>2
<1>6. ASSUME NEW v \in Viewers, NEW s \in Seats, page'[v][s] = "confirmed"
      PROVE  IsSold(s)
  <2>1. CASE v = x
    <3>1. Merged(q, s) = "confirmed"
      BY <1>2, <1>4, <1>6, <2>1
    <3>2. s \in q.booked
      BY <3>1 DEF Merged, KindFor
    <3>3. QED
      BY <1>3, <3>2 DEF BookedIsSold
  <2>2. CASE v # x
    <3>1. page[v][s] = "confirmed"
      BY <1>2, <1>4, <1>6, <2>2
    <3>2. QED
      BY <3>1 DEF MapInv, ConfirmedIsSold
  <2>3. QED
    BY <2>1, <2>2
<1>7. \A s \in Seats : IsSold(s)' = IsSold(s)
  BY <1>2 DEF IsSold, vars
<1>8. QED
  BY <1>5, <1>6, <1>7 DEF SteadySeatsAreShown, ConfirmedIsSold

-----------------------------------------------------------------------------
LEMMA MapInitOK == MapInit => MapInv
<1> SUFFICES ASSUME MapInit PROVE MapInv
  OBVIOUS
<1>1. /\ \A t \in Snapshots : snap[t] = NoSnapshot
      /\ \A v \in Viewers : page[v] = Blank /\ pageSteady[v] = {}
  BY DEF MapInit
<1>2. MapTypeOK
  BY DEF MapInit, MapTypeOK
<1>3. SteadySeatsAreShown /\ ConfirmedIsSold
  BY <1>1 DEF SteadySeatsAreShown, ConfirmedIsSold, Blank
<1>4. QED
  BY <1>1, <1>2, <1>3 DEF MapInv, SnapshotRight

LEMMA MapStepOK == IInv /\ MapInv /\ [MapNext]_allVars => MapInv'
<1> SUFFICES ASSUME IInv, MapInv, [MapNext]_allVars PROVE MapInv'
  OBVIOUS
<1>1. KeysOK(Session) /\ MapTypeOK
  BY DEF IInv, TypeOK, MapInv
<1>2. MapTypeOK' /\ [Next]_vars
  BY <1>1, MapTypeStays, MapStepIsStep
<1>3. CASE MapNext
  <2>1. \A t \in Snapshots : SnapshotRight(t)'
    BY <1>1, <1>2, <1>3, SnapshotsStayRight
  <2>2. SteadySeatsAreShown' /\ ConfirmedIsSold'
    BY <1>2, <1>3, KeptPagesStayRight, RenderedPageIsRight DEF MapNext
  <2>3. QED
    BY <1>2, <2>1, <2>2 DEF MapInv
<1>4. CASE UNCHANGED allVars
  <2>1. UNCHANGED vars /\ UNCHANGED <<snap, page, steady, pageSteady>>
    BY <1>4 DEF allVars, mapVars
  <2>2. \A v \in Viewers, s \in Seats :
          Truth(v, s)' = Truth(v, s) /\ IsSold(s)' = IsSold(s)
    BY <2>1, QuietTruth DEF IsSold, vars
  <2>3. SteadySeatsAreShown' /\ ConfirmedIsSold'
    BY <1>1, <2>1, <2>2 DEF MapInv, SteadySeatsAreShown, ConfirmedIsSold,
                            MapTypeOK
  <2>4. ASSUME NEW t \in Snapshots, snap[t] # NoSnapshot
        PROVE  SnapshotRight(t)'
    <3>1. SnapshotRight(t) /\ steady[t] \subseteq Seats /\ snap[t] \in Snapshot
      BY <1>1, <2>4, SnapshotPc DEF MapInv, MapTypeOK
    <3>2. ScanIsFresh(t)' /\ GetIsFresh(t)' /\ BookedIsSold(t)'
      BY <2>1, <2>2, <2>4, <3>1
         DEF SnapshotRight, ScanIsFresh, GetIsFresh, BookedIsSold,
             ListedOwners, Snapshot
    <3>3. ASSUME NEW s \in steady[t] PROVE SeatRead(t, s)'
      <4>1. PICK v \in Viewers : snap[t].viewer = v
        BY <3>1 DEF Snapshot
      <4>2. Truth(v, s)' = Truth(v, s) /\ SeatRead(t, s)
        BY <2>2, <2>4, <3>1, <4>1 DEF SnapshotRight
      <4>3. QED
        BY <2>1, <4>1, <4>2 DEF SeatRead, Merged, ListedOwners
    <3>4. QED
      BY <2>1, <3>2, <3>3 DEF SnapshotRight
  <2>5. QED
    BY <1>2, <2>1, <2>3, <2>4 DEF MapInv, SnapshotRight
<1>5. QED
  BY <1>3, <1>4

LEMMA MapSpecInv == MapSpec => []MapInv
BY MapInitOK, MapIInv, MapStepOK, PTL DEF MapSpec

\* Every variable of the map keeps its type.
THEOREM MapTypeCorrect == MapSpec => []MapTypeOK
<1>1. MapInv => MapTypeOK
  BY DEF MapInv
<1>2. QED
  BY <1>1, MapSpecInv, PTL

(***************************************************************************)
(* A page is right about every seat that did not change since its snapshot *)
(* began, whatever ran between the snapshot's reads.                       *)
(***************************************************************************)
THEOREM SteadyCorrect == MapSpec => []SteadySeatsAreShown
<1>1. MapInv => SteadySeatsAreShown
  BY DEF MapInv
<1>2. QED
  BY <1>1, MapSpecInv, PTL

\* What a page calls confirmed is sold.
THEOREM ConfirmedCorrect == MapSpec => []ConfirmedIsSold
<1>1. MapInv => ConfirmedIsSold
  BY DEF MapInv
<1>2. QED
  BY <1>1, MapSpecInv, PTL
=============================================================================
