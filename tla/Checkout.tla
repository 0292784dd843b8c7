------------------------------ MODULE Checkout ------------------------------
(***************************************************************************)
(* POST /bookings/hold and POST /bookings/checkout                         *)
(* (web/src/controllers/bookings.rs) over the two stores they share: the   *)
(* holds in Redis and the tables movies, users and bookings in SQLite      *)
(* (db/src/entities, db/migrations).  No transaction spans the stores.     *)
(*                                                                         *)
(* A checkout is a task with three awaits: upsert the user (SQLite),       *)
(* consume the hold (Redis), insert the booking (SQLite).  Other requests, *)
(* key expiry and the movie administrator run between them.  The task ends *)
(* early when a call fails, and also without a trace when the client hangs *)
(* up or the server stops: restarting the server drops every task in turn. *)
(***************************************************************************)
EXTENDS RedisHolds

CONSTANTS
  Requests,     \* checkout tasks a server runs at once
  SessionIds,   \* session_uuid values
  BookingIds    \* bookings.uuid values

VARIABLES
  reqs,         \* reqs[r]: where checkout task r is, with its local variables
  movies,       \* slugs of the rows of table movies
  users,        \* uuids of the rows of table users
  bookings,     \* rows of table bookings
  granted       \* history: every session hold() returned or stored

sqlite == <<movies, users, bookings>>
vars == <<seatKey, userHold, reqs, movies, users, bookings, granted>>

Session == [uuid : SessionIds, movie : Movies, seat : Seats, user : Users]

\* origin is history, not a column: the session the row was made from.
Booking == [uuid : BookingIds, origin : SessionIds,
            movie : Movies, seat : Seats, user : Users]

Idle == [pc |-> "idle"]
Upserted == [pc : {"upserted"}, movie : Movies, seat : Seats, user : Users]
Confirmed == [pc : {"confirmed"}, session : Session]

TypeOK ==
  /\ KeysOK(Session)
  /\ reqs \in [Requests -> {Idle} \cup Upserted \cup Confirmed]
  /\ movies \in SUBSET Movies
  /\ users \in SUBSET Users
  /\ bookings \in SUBSET Booking
  /\ granted \in SUBSET Session

\* A deployed server: some movies listed, nobody has booked yet.
Init ==
  /\ EmptyKeyspace
  /\ reqs = [r \in Requests |-> Idle]
  /\ movies \in SUBSET Movies
  /\ users = {}
  /\ bookings = {}
  /\ granted = {}

-----------------------------------------------------------------------------
(***************************************************************************)
(* hold: any seat of any slug, looked up in neither SQLite table.  Every   *)
(* attempt makes a fresh session uuid; only one that is stored matters.    *)
(***************************************************************************)
Hold(m, s, u) ==
  /\ SeatIsFree(m, s)
  /\ \E x \in SessionIds \ {g.uuid : g \in granted} :
       LET session == [uuid |-> x, movie |-> m, seat |-> s, user |-> u] IN
       /\ HoldScript(m, s, session)
       /\ granted' = granted \cup {session}
  /\ UNCHANGED <<reqs, sqlite>>

(***************************************************************************)
(* checkout, first await: the user's row is there from now on.             *)
(***************************************************************************)
upsert_for_auth_subject(u) == users' = users \cup {u}

CheckoutUpsert(r, m, s, u) ==
  /\ reqs[r] = Idle
  /\ upsert_for_auth_subject(u)
  /\ reqs' = [reqs EXCEPT ![r] =
                [pc |-> "upserted", movie |-> m, seat |-> s, user |-> u]]
  /\ UNCHANGED <<redisVars, movies, bookings, granted>>

(***************************************************************************)
(* Second await.  A missing or foreign session ends the request (404, 403) *)
(* with both stores untouched; otherwise the task holds the only copy of   *)
(* the session, which ConfirmScript has just deleted.                      *)
(***************************************************************************)
\* Mutant: whoever asks gets the seat.
CheckoutConfirmAnyone(r) ==
  LET q == reqs[r]
      key == <<q.movie, q.seat>> IN
  /\ q.pc = "upserted" /\ ~SeatIsFree(q.movie, q.seat)
  /\ ConfirmScript(q.movie, q.seat, seatKey[key].value.user)
  /\ reqs' = [reqs EXCEPT ![r] =
       [pc |-> "confirmed", session |-> [seatKey[key].value EXCEPT !.user = q.user]]]
  /\ UNCHANGED <<sqlite, granted>>

CheckoutConfirm(r) ==
  LET q == reqs[r] IN
  /\ q.pc = "upserted"
  /\ ConfirmScript(q.movie, q.seat, q.user)
  /\ reqs' = [reqs EXCEPT ![r] =
       IF ConfirmStatus(q.movie, q.seat, q.user) = 2
       THEN [pc |-> "confirmed", session |-> seatKey[<<q.movie, q.seat>>].value]
       ELSE Idle]
  /\ UNCHANGED <<sqlite, granted>>

\* Redis ran the script and its reply was lost: 500, and the hold is gone.
ConfirmReplyLost(r) ==
  LET q == reqs[r] IN
  /\ q.pc = "upserted"
  /\ ConfirmScript(q.movie, q.seat, q.user)
  /\ reqs' = [reqs EXCEPT ![r] = Idle]
  /\ UNCHANGED <<sqlite, granted>>

(***************************************************************************)
(* Third await: bookings::create, with the columns of the session.  SQLite *)
(* refuses a row whose movie or user is gone (foreign_keys is on); nothing *)
(* in the schema or the code refuses a second row for the same seat.       *)
(***************************************************************************)
\* Mutant: foreign_keys is off.
ForeignKeysOff(b) == TRUE

ForeignKeysHold(b) == b.movie \in movies /\ b.user \in users

bookings_create(b) ==
  bookings' = IF ForeignKeysHold(b) THEN bookings \cup {b} ELSE bookings

CheckoutInsert(r) ==
  /\ reqs[r].pc = "confirmed"
  /\ \E i \in BookingIds \ {b.uuid : b \in bookings} :
       LET c == reqs[r].session
           row == [uuid |-> i, origin |-> c.uuid,
                   movie |-> c.movie, seat |-> c.seat, user |-> c.user] IN
       bookings_create(row)
  /\ reqs' = [reqs EXCEPT ![r] = Idle]
  /\ UNCHANGED <<redisVars, movies, users, granted>>

\* A call fails, the client hangs up or the server stops.
CheckoutDropped(r) ==
  /\ reqs[r] # Idle
  /\ reqs' = [reqs EXCEPT ![r] = Idle]
  /\ UNCHANGED <<redisVars, sqlite, granted>>

-----------------------------------------------------------------------------
(***************************************************************************)
(* The administrator's writes, as the bookings table sees them: a slug     *)
(* appears, disappears or is replaced by another one, and SQLite refuses   *)
(* to take away a slug some booking refers to.                             *)
(***************************************************************************)
IsBooked(m) == \E b \in bookings : b.movie = m

MovieCreate(m) ==
  /\ movies' = movies \cup {m}
  /\ UNCHANGED <<redisVars, reqs, users, bookings, granted>>

MovieDelete(m) ==
  /\ m \in movies /\ ~IsBooked(m)
  /\ movies' = movies \ {m}
  /\ UNCHANGED <<redisVars, reqs, users, bookings, granted>>

MovieRename(m, n) ==
  /\ m \in movies /\ n \notin movies /\ ~IsBooked(m)
  /\ movies' = (movies \ {m}) \cup {n}
  /\ UNCHANGED <<redisVars, reqs, users, bookings, granted>>

Tick == Expiry /\ UNCHANGED <<reqs, sqlite, granted>>

RedisRestart == LoseKeyspace /\ UNCHANGED <<reqs, sqlite, granted>>

-----------------------------------------------------------------------------
CheckoutStep(r) == CheckoutConfirm(r) \/ ConfirmReplyLost(r)
                     \/ CheckoutInsert(r) \/ CheckoutDropped(r)

Next ==
  \/ \E m \in Movies, s \in Seats, u \in Users :
       \/ Hold(m, s, u)
       \/ \E r \in Requests : CheckoutUpsert(r, m, s, u)
  \/ \E r \in Requests : CheckoutStep(r)
  \/ \E m \in Movies :
       \/ MovieCreate(m)
       \/ MovieDelete(m)
       \/ \E n \in Movies : MovieRename(m, n)
  \/ Tick
  \/ RedisRestart

Spec == Init /\ [][Next]_vars

-----------------------------------------------------------------------------
IsLive(k) == Live(seatKey[k])
HasConsumed(r) == reqs[r].pc = "confirmed"

(***************************************************************************)
(* A session is in one place at a time: under its key in Redis, in the     *)
(* hands of one checkout task, or behind one booking.  A double click, a   *)
(* retry after an error, a second server or a checkout racing with the     *)
(* expiry of the key cannot spend it twice.                                *)
(***************************************************************************)
SessionIsInOnePlace ==
  /\ \A k, l \in SeatKeys :
       /\ IsLive(k) /\ IsLive(l)
       /\ seatKey[k].value.uuid = seatKey[l].value.uuid
       => k = l
  /\ \A q, r \in Requests :
       /\ HasConsumed(q) /\ HasConsumed(r)
       /\ reqs[q].session.uuid = reqs[r].session.uuid
       => q = r
  /\ \A k \in SeatKeys, r \in Requests :
       IsLive(k) /\ HasConsumed(r) =>
         seatKey[k].value.uuid # reqs[r].session.uuid
  /\ \A b \in bookings :
       /\ \A k \in SeatKeys : IsLive(k) => seatKey[k].value.uuid # b.origin
       /\ \A r \in Requests : HasConsumed(r) => reqs[r].session.uuid # b.origin

(***************************************************************************)
(* However many checkouts run for a hold, at most one booking comes of it. *)
(***************************************************************************)
OneBookingPerSession ==
  \A a, b \in bookings : a.origin = b.origin => a = b

(***************************************************************************)
(* A booking is for the movie, the seat and the user of the hold it was    *)
(* made from, although the request names the first two again and the hold  *)
(* may have been replaced, released and taken by others in the meantime.   *)
(***************************************************************************)
BookingMatchesGrant ==
  \A b \in bookings :
    [uuid |-> b.origin, movie |-> b.movie, seat |-> b.seat, user |-> b.user]
      \in granted

(***************************************************************************)
(* No booking refers to a movie or a user that is not there, whatever the  *)
(* administrator does while a hold waits or a checkout is under way.       *)
(***************************************************************************)
ReferentialIntegrity ==
  \A b \in bookings : b.movie \in movies /\ b.user \in users

(***************************************************************************)
(* The user's row is there before the hold is consumed, so the user column *)
(* never makes the insert fail once there is no way back.                  *)
(***************************************************************************)
ConsumerIsKnown ==
  \A r \in Requests : HasConsumed(r) => reqs[r].session.user \in users

-----------------------------------------------------------------------------
(***************************************************************************)
(* What the code says of itself and does not keep.                         *)
(*                                                                         *)
(* "This seat is already booked." (web/static/seat-booking.js:60): a seat  *)
(* has one booking.  No check on the server stands behind that answer.     *)
(***************************************************************************)
OneBookingPerSeat ==
  \A a, b \in bookings :
    a.movie = b.movie /\ a.seat = b.seat => a = b

(***************************************************************************)
(* "Confirms the Redis hold and persists a booking in SQLite."             *)
(* (web/src/controllers/bookings.rs:38): a task that consumed a hold       *)
(* leaves a booking behind.                                                *)
(***************************************************************************)
ConfirmedHoldIsBooked ==
  [][\A r \in Requests :
       HasConsumed(r) /\ reqs'[r] # reqs[r] =>
         \E b \in bookings' : b.origin = reqs[r].session.uuid]_vars
=============================================================================
