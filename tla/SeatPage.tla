------------------------------ MODULE SeatPage ------------------------------
(***************************************************************************)
(* One open page of the cinema (web/templates/cinema.html and              *)
(* web/static/seat-booking.js): films are chosen from a list, one seat map *)
(* is on display, and three things fetch a new one: the first choice of a  *)
(* film, the two-second poll, and a click on a seat once its POST has      *)
(* succeeded.                                                              *)
(* Requests overlap and answers arrive in any order; whichever arrives     *)
(* last stays.                                                             *)
(*                                                                         *)
(* One seat per film is enough here: what a snapshot reads from the two    *)
(* stores while they change is the business of SeatMap, how a checkout     *)
(* goes through them that of Checkout, and both are one step.              *)
(***************************************************************************)
CONSTANTS
  Films,       \* movie slugs
  NoFilm,      \* no film chosen, no slug on the grid
  Requests     \* bound: requests of the page under way at once

VARIABLES
  sold,        \* sold[f]: a booking for the seat is in SQLite
  holder,      \* holder[f]: who holds the seat in Redis; "me" is the user
               \* whose cookie the browser sends
  viewer,      \* $viewer and #cinemaViewer: "me", or a guest or user whose
               \* page was open when the user of the cookie logged in elsewhere
  signal,      \* $movie_slug, the film chosen, which the poll asks for
  hidden,      \* #cinemaMovieSlug, set by the first choice and by no other
  grid,        \* #seatGrid: its data-movie-slug and its seat button
  reqs         \* reqs[q]: where request q of the page is

stores == <<sold, holder>>
page == <<viewer, signal, hidden, grid>>
vars == <<stores, page, reqs>>

ASSUME NoFilmAssumption == NoFilm \notin Films

Kinds == {"available", "your_hold", "other_hold", "confirmed"}
Actions == {"hold", "checkout"}

\* film is history: the film a seat button was rendered for.
Cell == [film : Films, kind : Kinds]
NoCell == [kind |-> "none"]

Grid(slug, cell) == [slug |-> slug, cell |-> cell]

\* seat_grid_error_html: no slug and no seats.
ErrorGrid == Grid(NoFilm, NoCell)

Idle == [pc |-> "idle"]

\* The action of the page whose result a snapshot or an answer is known to
\* show, because the seat has not changed hands since.
Results == Actions \cup {"none"}

RequestStates ==
  {Idle}
    \cup [pc : {"snapshot"}, film : Films, result : Results]
    \cup [pc : {"answer"}, film : Films, result : Results,
          grid : [slug : Films, cell : Cell] \cup {ErrorGrid}]
    \cup [pc : {"post"}, film : Films, action : Actions, clicked : Films]
    \cup [pc : {"posted"}, film : Films, result : Results,
          status : {"ok", "refused", "unauthorized"}]

TypeOK ==
  /\ sold \in [Films -> BOOLEAN]
  /\ holder \in [Films -> {"nobody", "me", "other"}]
  /\ viewer \in {"me", "guest"}
  /\ signal \in Films \cup {NoFilm}
  /\ hidden \in Films \cup {NoFilm}
  /\ grid \in [slug : Films \cup {NoFilm}, cell : Cell \cup {NoCell}]
  /\ reqs \in [Requests -> RequestStates]

Init ==
  /\ sold \in [Films -> BOOLEAN]
  /\ holder = [f \in Films |-> "nobody"]
  /\ viewer \in {"me", "guest"}
  /\ signal = NoFilm
  /\ hidden = NoFilm
  /\ grid = ErrorGrid
  /\ reqs = [q \in Requests |-> Idle]

Becomes(q, state) == reqs' = [reqs EXCEPT ![q] = state]

-----------------------------------------------------------------------------
\* Mutants: a state the page does not know; a snapshot without the viewer.
KindForHeld(f) ==
  IF sold[f] THEN "confirmed"
  ELSE IF holder[f] = "nobody" THEN "available" ELSE "held"

KindForNobody(f) ==
  IF sold[f] THEN "confirmed"
  ELSE IF holder[f] = "nobody" THEN "available" ELSE "other_hold"

\* What the server answers this viewer about the seat.
KindFor(f) ==
  IF sold[f] THEN "confirmed"
  ELSE CASE holder[f] = "nobody" -> "available"
         [] holder[f] = viewer   -> "your_hold"
         [] OTHER                -> "other_hold"

GridOf(f) == Grid(f, [film |-> f, kind |-> KindFor(f)])

Snapshot(f, result) == [pc |-> "snapshot", film |-> f, result |-> result]

(***************************************************************************)
(* The first click on the list.  The seats give way to a spinner; #seatGrid *)
(* and its data-movie-slug stay until an answer replaces them.             *)
(* #checkoutArea is written over, and #bookingFeedback was in it.          *)
(***************************************************************************)
SelectFilm(q, f) ==
  /\ signal = NoFilm
  /\ reqs[q] = Idle
  /\ signal' = f /\ hidden' = f
  /\ grid' = Grid(grid.slug, NoCell)
  /\ Becomes(q, Snapshot(f, "none"))
  /\ UNCHANGED <<stores, viewer>>

\* Any later one: without a #bookingFeedback the handler throws when it has
\* set the signal, and the rest is left to the poll.
SelectAnother(f) ==
  /\ signal # NoFilm
  /\ signal' = f
  /\ UNCHANGED <<stores, viewer, hidden, grid, reqs>>

\* Mutant: the poll asks for the film on display.
PollGrid(q) ==
  /\ reqs[q] = Idle /\ grid.slug # NoFilm
  /\ Becomes(q, Snapshot(grid.slug, "none"))
  /\ UNCHANGED <<stores, page>>

Poll(q) ==
  /\ reqs[q] = Idle /\ signal # NoFilm
  /\ Becomes(q, Snapshot(signal, "none"))
  /\ UNCHANGED <<stores, page>>

(***************************************************************************)
(* A click on a seat: movieSlug() prefers the slug on the grid to the      *)
(* hidden field, which names the film chosen first.                        *)
(***************************************************************************)
\* Mutant: it is the other way round.
movieSlugHidden == IF hidden # NoFilm THEN hidden ELSE grid.slug

movieSlug == IF grid.slug # NoFilm THEN grid.slug ELSE hidden

Click(q) ==
  /\ reqs[q] = Idle
  /\ grid.cell.kind \in {"available", "your_hold"}
  /\ movieSlug # NoFilm
  /\ Becomes(q, [pc |-> "post", film |-> movieSlug, clicked |-> grid.cell.film,
                 action |-> IF grid.cell.kind = "available"
                            THEN "hold" ELSE "checkout"])
  /\ UNCHANGED <<stores, page>>

NewPage ==
  /\ viewer' \in {"me", "guest"}
  /\ signal' = NoFilm /\ hidden' = NoFilm /\ grid' = ErrorGrid
  /\ reqs' = [q \in Requests |-> Idle]

\* A POST is answered: the click's handler goes on to a snapshot, or leaves
\* for /login and takes the page with it, or reports an error and stops.
DeliverPost(q) ==
  /\ reqs[q].pc = "posted"
  /\ CASE reqs[q].status = "ok" ->
            /\ Becomes(q, Snapshot(reqs[q].film, reqs[q].result))
            /\ UNCHANGED page
       [] reqs[q].status = "refused" ->
            Becomes(q, Idle) /\ UNCHANGED page
       [] reqs[q].status = "unauthorized" -> NewPage
  /\ UNCHANGED stores

\* The answer to a snapshot replaces the grid, whatever has been chosen since.
DeliverGrid(q) ==
  /\ reqs[q].pc = "answer"
  /\ grid' = reqs[q].grid
  /\ Becomes(q, Idle)
  /\ UNCHANGED <<stores, viewer, signal, hidden>>

\* The page is loaded again.  What its POSTs still do is Elsewhere's.
Reload == NewPage /\ UNCHANGED stores

-----------------------------------------------------------------------------
\* The seat of film f changes hands: no other request shows its last action.
Forgotten(f, q) ==
  IF reqs[q].pc \in {"snapshot", "answer", "posted"} /\ reqs[q].film = f
  THEN [reqs[q] EXCEPT !.result = "none"] ELSE reqs[q]

ServeGrid(q) ==
  /\ reqs[q].pc = "snapshot"
  /\ Becomes(q, [pc |-> "answer", film |-> reqs[q].film,
                 result |-> reqs[q].result, grid |-> GridOf(reqs[q].film)])
  /\ UNCHANGED <<stores, page>>

\* The film is gone or a store cannot be read.
ServeError(q) ==
  /\ reqs[q].pc = "snapshot"
  /\ Becomes(q, [pc |-> "answer", film |-> reqs[q].film,
                 result |-> "none", grid |-> ErrorGrid])
  /\ UNCHANGED <<stores, page>>

\* hold and checkout, when they succeed: only Redis is asked.
HoldSucceeds(f) ==
  /\ holder[f] = "nobody"
  /\ holder' = [holder EXCEPT ![f] = "me"]
  /\ UNCHANGED sold

CheckoutSucceeds(f) ==
  /\ holder[f] = "me"
  /\ holder' = [holder EXCEPT ![f] = "nobody"]
  /\ sold' = [sold EXCEPT ![f] = TRUE]

ServePost(q) ==
  LET f == reqs[q].film
      action == reqs[q].action IN
  /\ reqs[q].pc = "post"
  /\ IF action = "hold" THEN HoldSucceeds(f) ELSE CheckoutSucceeds(f)
  /\ reqs' = [p \in Requests |->
       IF p = q THEN [pc |-> "posted", film |-> f, result |-> action, status |-> "ok"]
       ELSE Forgotten(f, p)]
  /\ UNCHANGED page

\* Somebody was faster, a store fails, or the session is over.
RefusePost(q) ==
  /\ reqs[q].pc = "post"
  /\ \E status \in {"refused", "unauthorized"} :
       Becomes(q, [pc |-> "posted", film |-> reqs[q].film,
                   result |-> "none", status |-> status])
  /\ UNCHANGED <<stores, page>>

\* A request or its answer is lost.
Lost(q) ==
  /\ reqs[q] # Idle
  /\ Becomes(q, Idle)
  /\ UNCHANGED <<stores, page>>

\* Other pages and other users hold and book, and holds end.
Elsewhere(f) ==
  /\ \/ HoldSucceeds(f)
     \/ CheckoutSucceeds(f)
     \/ /\ holder[f] = "nobody" /\ holder' = [holder EXCEPT ![f] = "other"]
        /\ UNCHANGED sold
     \/ /\ holder[f] # "nobody" /\ holder' = [holder EXCEPT ![f] = "nobody"]
        /\ UNCHANGED sold
     \/ /\ holder[f] = "other" /\ holder' = [holder EXCEPT ![f] = "nobody"]
        /\ sold' = [sold EXCEPT ![f] = TRUE]
  /\ reqs' = [q \in Requests |-> Forgotten(f, q)]
  /\ UNCHANGED page

-----------------------------------------------------------------------------
\* What goes on while nobody touches the page or its seats and nothing fails.
Routine ==
  \E q \in Requests :
    Poll(q) \/ ServeGrid(q) \/ DeliverGrid(q) \/ ServePost(q) \/ DeliverPost(q)

Disturbance ==
  \/ \E q \in Requests :
       \/ \E f \in Films : SelectFilm(q, f)
       \/ Click(q) \/ ServeError(q) \/ RefusePost(q) \/ Lost(q)
  \/ \E f \in Films : SelectAnother(f) \/ Elsewhere(f)
  \/ Reload

Next == Routine \/ Disturbance

(***************************************************************************)
(* The browser's timer goes on firing while the page is open, the server   *)
(* answers a request one way or another, and an answer not lost arrives.   *)
(***************************************************************************)
Fairness ==
  /\ WF_vars(\E q \in Requests : Poll(q))
  /\ \A q \in Requests :
       /\ WF_vars(ServeGrid(q) \/ ServeError(q))
       /\ WF_vars(ServePost(q) \/ RefusePost(q))
       /\ WF_vars(DeliverGrid(q))
       /\ WF_vars(DeliverPost(q))

Spec == Init /\ [][Next]_vars /\ Fairness

-----------------------------------------------------------------------------
(***************************************************************************)
(* What a click asks for is for the film whose seat was clicked, although  *)
(* the seats on display may be those of a film chosen earlier, which stay  *)
(* until a poll replaces them or come with a late answer                   *)
(* (seat-booking.js:3), and the hidden field may name a third.             *)
(***************************************************************************)
ClickIsForItsFilm ==
  \A q \in Requests : reqs[q].pc = "post" => reqs[q].film = reqs[q].clicked

(***************************************************************************)
(* The snapshot a click ends with shows what the click did, unless the     *)
(* seat has changed hands again: it is asked for after the POST was        *)
(* answered.  A page that was rendered for another viewer than the cookie's *)
(* is left out: it asks as that viewer, and shows the hold as another's.   *)
(***************************************************************************)
ActionIsShown ==
  \A q \in Requests :
    viewer = "me" /\ reqs[q].pc = "answer" =>
      LET kind == reqs[q].grid.cell.kind IN
      /\ reqs[q].result = "hold" => kind \in {"your_hold", "confirmed"}
      /\ reqs[q].result = "checkout" => kind = "confirmed"

(***************************************************************************)
(* Another choice leaves the old seats on display, and a late answer puts  *)
(* an older seat map or another film there, but not for good: once nothing *)
(* disturbs the page any more, it comes to show the film chosen last, as   *)
(* it is, and stays that way.                                              *)
(***************************************************************************)
PageIsRight == signal = NoFilm \/ grid = GridOf(signal)

PageSettles == <>[][Routine]_vars => <>[]PageIsRight
=============================================================================
