------------------------------- MODULE SeatMap -------------------------------
(***************************************************************************)
(* The seat map of one film, and the browsers that act on it.              *)
(*                                                                         *)
(* A snapshot (seat_map_grid_html, merge_movie_seats and                   *)
(* list_held_sessions_for_movie) reads the bookings from SQLite, then      *)
(* SCANs the film's seat keys, then GETs each key found: many reads with   *)
(* every other request running in between.  The page it makes replaces the *)
(* one its viewer has (web/static/seat-booking.js and the two-second poll  *)
(* of cinema.html), and the page alone decides what a click asks for.      *)
(***************************************************************************)
EXTENDS Checkout

CONSTANTS
  Film,       \* the slug the pages show
  Viewers,    \* values of the viewer parameter: user uuids and guest ids
  Snapshots   \* snapshot requests a server runs at once

VARIABLES
  snap,       \* snap[t]: where snapshot request t is
  page,       \* page[v]: state of each seat on v's page, or Blank
  steady,     \* history: seats that did not change since snapshot t began
  pageSteady  \* history: the steady seats of the snapshot that made the page

ASSUME FilmAssumption == Film \in Movies

mapVars == <<snap, page, steady, pageSteady>>
allVars == <<vars, mapVars>>

Kinds == {"available", "your_hold", "other_hold", "confirmed"}

\* A page with no seats: nothing selected yet, or an error in the grid's place.
Blank == [s \in Seats |-> "none"]

ListedSession == [seat : Seats, user : Users]
NoSnapshot == [pc |-> "idle"]
Snapshot == [pc : {"scan", "get"}, viewer : Viewers,
             booked : SUBSET Seats,        \* seats with a booking when read
             todo : SUBSET Seats,          \* keys the SCAN or GETs have to visit
             keys : SUBSET Seats,          \* keys the SCAN returned
             listed : SUBSET ListedSession,
             whole : BOOLEAN]              \* the SCAN reached its end

MapTypeOK ==
  /\ snap \in [Snapshots -> Snapshot \cup {NoSnapshot}]
  /\ page \in [Viewers -> [Seats -> Kinds] \cup {Blank}]
  /\ steady \in [Snapshots -> SUBSET Seats]
  /\ pageSteady \in [Viewers -> SUBSET Seats]

-----------------------------------------------------------------------------
(***************************************************************************)
(* What a seat really is for a viewer: state_for_cell over the stores as   *)
(* they are, instead of over the two lists that were read.                 *)
(***************************************************************************)
\* Mutant: a state the page has no cell for.
KindForHeld(v, booked, owners) ==
  IF booked THEN "confirmed" ELSE IF owners = {} THEN "available" ELSE "held"

KindFor(v, booked, owners) ==
  IF booked THEN "confirmed"
  ELSE IF owners = {} THEN "available"
  ELSE IF v \in owners THEN "your_hold" ELSE "other_hold"

IsSold(s) == \E b \in bookings : b.movie = Film /\ b.seat = s
OwnersOf(s) == {u \in Users : HeldBy(Film, s, u)}

Truth(v, s) == KindFor(v, IsSold(s), OwnersOf(s))

-----------------------------------------------------------------------------
MapInit ==
  /\ Init
  /\ snap = [t \in Snapshots |-> NoSnapshot]
  /\ page = [v \in Viewers |-> Blank]
  /\ steady = [t \in Snapshots |-> {}]
  /\ pageSteady = [v \in Viewers |-> {}]

\* The grid of an answer, or the error in its place, replaces the one shown.
ReplaceGrid(v, grid) == page' = [page EXCEPT ![v] = grid]

\* movies::load and bookings::list_by_movie_slug, before anything from Redis.
SnapshotBegin(t, v) ==
  /\ snap[t] = NoSnapshot
  /\ IF Film \in movies
     THEN /\ snap' = [snap EXCEPT ![t] =
               [pc |-> "scan", viewer |-> v, booked |-> {s \in Seats : IsSold(s)},
                todo |-> Seats, keys |-> {}, listed |-> {}, whole |-> TRUE]]
          /\ UNCHANGED page
     ELSE /\ ReplaceGrid(v, Blank)
          /\ UNCHANGED snap
  /\ UNCHANGED vars

(***************************************************************************)
(* The SCAN passes each slot of the keyspace once, in no order we know: a  *)
(* key that is there all the time is returned, another one only if it is   *)
(* there when its slot comes up.                                           *)
(***************************************************************************)
ScanSlot(t, s) ==
  LET keys == IF SeatIsFree(Film, s) THEN snap[t].keys ELSE snap[t].keys \cup {s}
      todo == snap[t].todo \ {s}
  IN
  /\ snap[t].pc = "scan" /\ s \in snap[t].todo
  /\ snap' = [snap EXCEPT ![t].keys = keys,
                          ![t].pc = IF todo = {} THEN "get" ELSE "scan",
                          ![t].todo = IF todo = {} THEN keys ELSE todo]
  /\ UNCHANGED <<vars, page>>

(***************************************************************************)
(* A cursor request fails after the first one: next_item() answers None as *)
(* it does at the end, and the keys found so far pass for all of them.     *)
(***************************************************************************)
ScanBreaks(t) ==
  /\ snap[t].pc = "scan" /\ snap[t].todo # Seats
  /\ snap' = [snap EXCEPT ![t].pc = "get", ![t].todo = snap[t].keys,
                          ![t].whole = FALSE]
  /\ UNCHANGED <<vars, page>>

\* GET: a key that has gone since it was scanned is skipped.
GetKey(t, s) ==
  /\ snap[t].pc = "get" /\ s \in snap[t].todo
  /\ snap' = [snap EXCEPT ![t].todo = @ \ {s},
                          ![t].listed = @ \cup
       {[seat |-> s, user |-> u] : u \in OwnersOf(s)}]
  /\ UNCHANGED <<vars, page>>

ListedOwners(q, s) == {h.user : h \in {l \in q.listed : l.seat = s}}

\* Mutant: holds are merged after bookings and win.
MergedHoldsLast(q, s) ==
  KindFor(q.viewer, s \in q.booked /\ ListedOwners(q, s) = {}, ListedOwners(q, s))

\* Mutant: somebody else's hold counts as a sale.
MergedOthersSold(q, s) ==
  KindFor(q.viewer, s \in q.booked \/ ListedOwners(q, s) \ {q.viewer} # {}, {})

\* merge_movie_seats: every seat of the layout, from the two lists.
Merged(q, s) == KindFor(q.viewer, s \in q.booked, ListedOwners(q, s))

Render(t) ==
  LET q == snap[t] IN
  /\ q.pc = "get" /\ q.todo = {}
  /\ ReplaceGrid(q.viewer, [s \in Seats |-> Merged(q, s)])
  /\ snap' = [snap EXCEPT ![t] = NoSnapshot]
  /\ UNCHANGED vars

\* A read fails and an error takes the grid's place, or no answer arrives.
SnapshotFails(t) ==
  /\ snap[t] # NoSnapshot
  /\ snap' = [snap EXCEPT ![t] = NoSnapshot]
  /\ \/ ReplaceGrid(snap[t].viewer, Blank)
     \/ UNCHANGED page
  /\ UNCHANGED vars

-----------------------------------------------------------------------------
(***************************************************************************)
(* seat-booking.js: a click asks for a hold where the page says available, *)
(* for a checkout where it says your_hold, and for nothing elsewhere.      *)
(***************************************************************************)
ClickAvailable(v, s) ==
  /\ v \in Users /\ page[v][s] = "available"
  /\ Hold(Film, s, v)
  /\ UNCHANGED <<snap, page>>

ClickYourHold(r, v, s) ==
  /\ v \in Users /\ page[v][s] = "your_hold"
  /\ CheckoutUpsert(r, Film, s, v)
  /\ UNCHANGED <<snap, page>>

\* Everything else goes on as before, users who call the API without a page
\* included.  To the pages of a film, a rename is its slug coming or going.
Background ==
  /\ \/ \E u \in Users \ Viewers, s \in Seats :
          \/ Hold(Film, s, u)
          \/ \E r \in Requests : CheckoutUpsert(r, Film, s, u)
     \/ \E r \in Requests : CheckoutStep(r)
     \/ \E m \in Movies : MovieCreate(m) \/ MovieDelete(m)
     \/ Tick
     \/ RedisRestart
  /\ UNCHANGED <<snap, page>>

(***************************************************************************)
(* History: which seats, for its viewer, have not changed since a snapshot *)
(* began.  After a SCAN that broke off, none counts.                       *)
(***************************************************************************)
Unchanged(v) == {s \in Seats : Truth(v, s)' = Truth(v, s)}

Remember ==
  steady' = [t \in Snapshots |->
    IF snap'[t] = NoSnapshot THEN {}
    ELSE IF snap[t] = NoSnapshot THEN Seats
    ELSE IF ~snap'[t].whole THEN {}
    ELSE steady[t] \cap Unchanged(snap[t].viewer)]

KeepPages ==
  pageSteady' = [v \in Viewers |->
                   IF page'[v] = Blank THEN {} ELSE pageSteady[v] \cap Unchanged(v)]

MapStep ==
  \/ \E t \in Snapshots :
       \/ \E v \in Viewers : SnapshotBegin(t, v)
       \/ \E s \in Seats : ScanSlot(t, s) \/ GetKey(t, s)
       \/ ScanBreaks(t)
       \/ SnapshotFails(t)
  \/ \E v \in Viewers, s \in Seats :
       \/ ClickAvailable(v, s)
       \/ \E r \in Requests : ClickYourHold(r, v, s)
  \/ Background

MapNext ==
  \/ MapStep /\ Remember /\ KeepPages
  \/ \E t \in Snapshots :
       /\ Render(t) /\ Remember
       /\ pageSteady' = [pageSteady EXCEPT ![snap[t].viewer] = steady[t]]

MapSpec == MapInit /\ [][MapNext]_allVars

-----------------------------------------------------------------------------
(***************************************************************************)
(* A page is right about every seat that has not changed since the         *)
(* snapshot behind it began, in spite of the reads being spread over both  *)
(* stores and over time: only a seat that changes meanwhile can be shown   *)
(* wrongly.                                                                *)
(***************************************************************************)
SteadySeatsAreShown ==
  \A v \in Viewers : \A s \in pageSteady[v] : page[v][s] = Truth(v, s)

(***************************************************************************)
(* What a page calls confirmed is sold for good: no torn read ever shows a *)
(* sale that did not happen.                                               *)
(***************************************************************************)
ConfirmedIsSold ==
  \A v \in Viewers, s \in Seats : page[v][s] = "confirmed" => IsSold(s)
=============================================================================
