--------------------------- MODULE SeatPageProofs ----------------------------
(***************************************************************************)
(* The page, for any number of films and requests under way, and the index *)
(* arithmetic of seat_layout.rs its seats are made with, for every size of *)
(* auditorium.                                                             *)
(***************************************************************************)
EXTENDS SeatPage, SeatLayout, TLAPS

-----------------------------------------------------------------------------
(***************************************************************************)
(* The strengthening: a grid with a seat in it names the seat's film,      *)
(* wherever it is, and what a request knows to be done still is.           *)
(***************************************************************************)
Matches(g) == g.cell.kind \in Kinds => g.slug = g.cell.film

GridsMatch ==
  /\ Matches(grid)
  /\ \A q \in Requests : reqs[q].pc = "answer" => Matches(reqs[q].grid)

ResultStands(state) ==
  /\ state.result = "hold" => holder[state.film] = "me" \/ sold[state.film]
  /\ state.result = "checkout" => sold[state.film]

ResultsStand ==
  \A q \in Requests :
    reqs[q].pc \in {"snapshot", "posted"} => ResultStands(reqs[q])

Inv == /\ TypeOK /\ GridsMatch /\ ResultsStand
       /\ ClickIsForItsFilm /\ ActionIsShown

-----------------------------------------------------------------------------
\* The states of a request by its pc.
SnapshotState == [pc : {"snapshot"}, film : Films, result : Results]
AnswerGrids == [slug : Films, cell : Cell] \cup {ErrorGrid}
AnswerState == [pc : {"answer"}, film : Films, result : Results, grid : AnswerGrids]
PostState == [pc : {"post"}, film : Films, action : Actions, clicked : Films]
PostedState == [pc : {"posted"}, film : Films, result : Results,
                status : {"ok", "refused", "unauthorized"}]

LEMMA RequestPc ==
  ASSUME NEW state \in RequestStates
  PROVE  /\ state.pc = "snapshot" => state \in SnapshotState
         /\ state.pc = "answer" => state \in AnswerState
         /\ state.pc = "post" => state \in PostState
         /\ state.pc = "posted" => state \in PostedState
         /\ state.pc \notin {"snapshot", "answer", "post", "posted"} => state = Idle
BY DEF RequestStates, SnapshotState, AnswerGrids, AnswerState, PostState,
       PostedState, Idle

LEMMA RequestKinds ==
  /\ Idle \in RequestStates /\ SnapshotState \subseteq RequestStates
  /\ AnswerState \subseteq RequestStates /\ PostState \subseteq RequestStates
  /\ PostedState \subseteq RequestStates
BY DEF RequestStates, SnapshotState, AnswerGrids, AnswerState, PostState,
       PostedState

LEMMA StateBecomes ==
  ASSUME TypeOK, NEW q \in Requests, NEW state \in RequestStates, Becomes(q, state)
  PROVE  /\ reqs' \in [Requests -> RequestStates] /\ reqs'[q] = state
         /\ \A p \in Requests \ {q} : reqs'[p] = reqs[p]
BY DEF TypeOK, Becomes

LEMMA GridOfIsTyped ==
  ASSUME TypeOK, NEW f \in Films
  PROVE  KindFor(f) \in Kinds /\ GridOf(f) \in [slug : Films, cell : Cell]
<1>1. KindFor(f) \in Kinds
  BY DEF KindFor, Kinds
<1>2. QED
  BY <1>1 DEF GridOf, Grid, Cell

LEMMA ForgottenStaysTyped ==
  ASSUME TypeOK, NEW f \in Films, NEW q \in Requests
  PROVE  /\ Forgotten(f, q) \in RequestStates
         /\ Forgotten(f, q).pc = reqs[q].pc
         /\ Forgotten(f, q) = reqs[q] \/
              /\ reqs[q].pc \in {"snapshot", "answer", "posted"}
              /\ Forgotten(f, q) = [reqs[q] EXCEPT !.result = "none"]
<1>1. reqs[q] \in RequestStates
  BY DEF TypeOK
<1>2. CASE reqs[q].pc = "snapshot"
  BY <1>1, <1>2, RequestPc, RequestKinds DEF Forgotten, SnapshotState, Results
<1>3. CASE reqs[q].pc = "answer"
  BY <1>1, <1>3, RequestPc, RequestKinds DEF Forgotten, AnswerState, Results
<1>4. CASE reqs[q].pc = "posted"
  BY <1>1, <1>4, RequestPc, RequestKinds DEF Forgotten, PostedState, Results
<1>5. QED
  BY <1>1, <1>2, <1>3, <1>4 DEF Forgotten

(***************************************************************************)
(* The grid and the requests of a step, by what changes.                   *)
(***************************************************************************)
GridType == [slug : Films \cup {NoFilm}, cell : Cell \cup {NoCell}]

LEMMA AnswerGridsAreGrids == AnswerGrids \subseteq GridType
BY DEF AnswerGrids, GridType, ErrorGrid, Grid

-----------------------------------------------------------------------------
\* The invariant as one condition on each request.
AnswerShows(state) ==
  viewer = "me" =>
    /\ state.result = "hold" =>
         state.grid.cell.kind \in {"your_hold", "confirmed"}
    /\ state.result = "checkout" => state.grid.cell.kind = "confirmed"

StateOK(state) ==
  /\ state.pc = "answer" => Matches(state.grid) /\ AnswerShows(state)
  /\ state.pc \in {"snapshot", "posted"} => ResultStands(state)
  /\ state.pc = "post" => state.film = state.clicked

PageInv ==
  /\ TypeOK /\ Matches(grid)
  /\ \A q \in Requests : StateOK(reqs[q])

LEMMA InvIsPageInv == Inv <=> PageInv
BY DEF Inv, PageInv, GridsMatch, ResultsStand, ClickIsForItsFilm,
       ActionIsShown, StateOK, AnswerShows

\* A step of one request that leaves the stores and the viewer.
LEMMA OneRequest ==
  ASSUME PageInv, NEW q \in Requests, NEW state \in RequestStates,
         Becomes(q, state), StateOK(state), UNCHANGED <<stores, viewer>>,
         signal' \in Films \cup {NoFilm}, hidden' \in Films \cup {NoFilm},
         grid' \in GridType, Matches(grid')
  PROVE  PageInv'
<1>1. TypeOK
  BY DEF PageInv
<1>2. /\ reqs' \in [Requests -> RequestStates] /\ reqs'[q] = state
      /\ \A p \in Requests \ {q} : reqs'[p] = reqs[p]
  BY <1>1, StateBecomes
<1>3. TypeOK'
  BY <1>1, <1>2 DEF TypeOK, stores, GridType
<1>4. ASSUME NEW x, StateOK(x) PROVE StateOK(x)'
  BY <1>4 DEF StateOK, AnswerShows, ResultStands, stores
<1>5. ASSUME NEW p \in Requests PROVE StateOK(reqs[p])'
  <2>1. PICK x : x = reqs'[p]
    OBVIOUS
  <2>2. StateOK(x)
    BY <1>2, <2>1 DEF PageInv
  <2>3. StateOK(x)'
    BY <1>4, <2>2
  <2>4. QED
    BY <2>1, <2>3 DEF StateOK, AnswerShows, ResultStands
<1>6. QED
  BY <1>3, <1>5 DEF PageInv

\* One that leaves the page too.
LEMMA OneRequestOnly ==
  ASSUME PageInv, NEW q \in Requests, NEW state \in RequestStates,
         Becomes(q, state), StateOK(state), UNCHANGED <<stores, page>>
  PROVE  PageInv'
BY OneRequest DEF PageInv, TypeOK, page, GridType

LEMMA NewPageOK == ASSUME PageInv, NewPage, UNCHANGED stores PROVE PageInv'
<1>1. \A q \in Requests : reqs'[q] = Idle
  BY DEF NewPage
<1>2. \A q \in Requests : StateOK(reqs[q])'
  BY <1>1 DEF StateOK, Idle
<1>3. TypeOK'
  BY RequestKinds DEF NewPage, PageInv, TypeOK, stores, ErrorGrid, Grid
<1>4. Matches(grid)'
  BY DEF NewPage, Matches, ErrorGrid, Grid, NoCell, Kinds
<1>5. QED
  BY <1>2, <1>3, <1>4 DEF PageInv

(***************************************************************************)
(* The seat of f changes hands: what was known of it is forgotten, and of  *)
(* the other films' seats it still holds.                                  *)
(***************************************************************************)
LEMMA ForgottenIsOK ==
  ASSUME PageInv, NEW f \in Films, NEW p \in Requests, UNCHANGED viewer,
         \A g \in Films \ {f} : holder'[g] = holder[g] /\ sold'[g] = sold[g],
         NEW x, x = Forgotten(f, p)
  PROVE  x \in RequestStates /\ StateOK(x)'
<1> DEFINE q == reqs[p]
<1>1. q \in RequestStates /\ StateOK(q) /\ x \in RequestStates
  BY ForgottenStaysTyped DEF PageInv, TypeOK
<1>2. CASE x = q
  <2>1. q.pc \in {"snapshot", "posted"} => q.film # f \/ q.result = "none"
    <3>1. ASSUME q.pc \in {"snapshot", "posted"}, q.film = f
          PROVE  q.result = "none"
      <4>1. q = [q EXCEPT !.result = "none"]
        BY <1>2, <3>1 DEF Forgotten
      <4>2. q \in SnapshotState \cup PostedState
        BY <1>1, <3>1, RequestPc
      <4>3. QED
        BY <4>1, <4>2 DEF SnapshotState, PostedState
    <3>2. QED
      BY <3>1
  <2>2. q.pc \in {"snapshot", "posted"} => q.film \in Films
    BY <1>1, RequestPc DEF SnapshotState, PostedState
  <2>3. QED
    BY <1>1, <1>2, <2>1, <2>2 DEF StateOK, AnswerShows, ResultStands
<1>3. CASE x # q
  <2>1. q.pc \in {"snapshot", "answer", "posted"} /\ x = [q EXCEPT !.result = "none"]
    BY <1>3, ForgottenStaysTyped DEF PageInv
  <2>2. /\ x.result = "none" /\ x.pc = q.pc
        /\ q.pc = "answer" => x.grid = q.grid
    BY <1>1, <2>1, RequestPc DEF SnapshotState, AnswerState, PostedState
  <2>3. QED
    BY <1>1, <2>1, <2>2 DEF StateOK, AnswerShows, ResultStands
<1>4. QED
  BY <1>1, <1>2, <1>3

\* Who can get the seat of f, and what is left as it was.
LEMMA SeatChanges ==
  ASSUME TypeOK, NEW f \in Films,
         \/ HoldSucceeds(f) \/ CheckoutSucceeds(f) \/ Elsewhere(f)
  PROVE  /\ holder' \in [Films -> {"nobody", "me", "other"}]
         /\ sold' \in [Films -> BOOLEAN]
         /\ \A g \in Films \ {f} : holder'[g] = holder[g] /\ sold'[g] = sold[g]
         /\ HoldSucceeds(f) => holder'[f] = "me"
         /\ CheckoutSucceeds(f) => sold'[f]
<1>1. /\ holder \in [Films -> {"nobody", "me", "other"}]
      /\ sold \in [Films -> BOOLEAN]
  BY DEF TypeOK
<1>2. \/ sold' = sold \/ sold' = [sold EXCEPT ![f] = TRUE]
  BY DEF HoldSucceeds, CheckoutSucceeds, Elsewhere
<1>3. \E h \in {"nobody", "me", "other"} : holder' = [holder EXCEPT ![f] = h]
  BY DEF HoldSucceeds, CheckoutSucceeds, Elsewhere
<1>4. QED
  BY <1>1, <1>2, <1>3 DEF HoldSucceeds, CheckoutSucceeds

LEMMA ElsewhereOK ==
  ASSUME PageInv, NEW f \in Films, Elsewhere(f) PROVE PageInv'
<1>1. TypeOK /\ UNCHANGED page
  BY DEF PageInv, Elsewhere
<1>2. /\ holder' \in [Films -> {"nobody", "me", "other"}]
      /\ sold' \in [Films -> BOOLEAN]
      /\ \A g \in Films \ {f} : holder'[g] = holder[g] /\ sold'[g] = sold[g]
  BY <1>1, SeatChanges
<1>3. reqs' = [q \in Requests |-> Forgotten(f, q)]
  BY DEF Elsewhere
<1>4. ASSUME NEW q \in Requests
      PROVE  reqs'[q] \in RequestStates /\ StateOK(reqs[q])'
  <2>1. PICK x : x = Forgotten(f, q) /\ x = reqs'[q]
    BY <1>3
  <2>2. x \in RequestStates /\ StateOK(x)'
    BY <1>1, <1>2, <2>1, ForgottenIsOK DEF page
  <2>3. QED
    BY <2>1, <2>2 DEF StateOK, AnswerShows, ResultStands
<1>5. TypeOK'
  BY <1>1, <1>2, <1>3, <1>4 DEF TypeOK, page
<1>6. QED
  BY <1>1, <1>4, <1>5 DEF PageInv, page

LEMMA ServePostOK ==
  ASSUME PageInv, NEW r \in Requests, ServePost(r) PROVE PageInv'
<1>1. PICK f \in Films, action \in Actions :
        /\ f = reqs[r].film /\ action = reqs[r].action
        /\ reqs[r].pc = "post"
  BY RequestPc DEF PageInv, TypeOK, ServePost, PostState
<1>2. TypeOK /\ UNCHANGED page
  BY DEF PageInv, ServePost
<1>3. IF action = "hold" THEN HoldSucceeds(f) ELSE CheckoutSucceeds(f)
  BY <1>1 DEF ServePost
<1>4. /\ holder' \in [Films -> {"nobody", "me", "other"}]
      /\ sold' \in [Films -> BOOLEAN]
      /\ \A g \in Films \ {f} : holder'[g] = holder[g] /\ sold'[g] = sold[g]
      /\ action = "hold" => holder'[f] = "me"
      /\ action = "checkout" => sold'[f]
  BY <1>2, <1>3, SeatChanges DEF Actions
<1> DEFINE posted == [pc |-> "posted", film |-> f, result |-> action, status |-> "ok"]
<1>5. posted \in RequestStates
  BY RequestKinds DEF PostedState, Results
<1>6. posted.pc = "posted" /\ posted.film = f /\ posted.result = action
  OBVIOUS
<1>7. reqs' = [p \in Requests |-> IF p = r THEN posted ELSE Forgotten(f, p)]
  BY <1>1 DEF ServePost
<1> HIDE DEF posted
<1>8. ASSUME NEW q \in Requests \ {r}
      PROVE  reqs'[q] \in RequestStates /\ StateOK(reqs[q])'
  <2>1. PICK x : x = Forgotten(f, q) /\ x = reqs'[q]
    BY <1>7
  <2>2. x \in RequestStates /\ StateOK(x)'
    BY <1>2, <1>4, <2>1, ForgottenIsOK DEF page
  <2>3. QED
    BY <2>1, <2>2 DEF StateOK, AnswerShows, ResultStands
<1>9. reqs'[r] = posted /\ StateOK(reqs[r])'
  BY <1>4, <1>6, <1>7 DEF StateOK, ResultStands
<1>10. reqs' \in [Requests -> RequestStates]
  BY <1>5, <1>7, <1>8, <1>9
<1>11. TypeOK'
  BY <1>2, <1>4, <1>10 DEF TypeOK, page
<1>12. QED
  BY <1>2, <1>8, <1>9, <1>11 DEF PageInv, page

-----------------------------------------------------------------------------
(***************************************************************************)
(* The rest: the page asks, the server answers, and answers arrive.        *)
(***************************************************************************)
LEMMA AskingOK ==
  ASSUME PageInv, NEW r \in Requests,
         \/ \E f \in Films : SelectFilm(r, f)
         \/ Poll(r) \/ Click(r)
  PROVE  PageInv'
<1>1. TypeOK
  BY DEF PageInv
<1>2. ASSUME NEW f \in Films
      PROVE  Snapshot(f, "none") \in RequestStates /\ StateOK(Snapshot(f, "none"))
  BY RequestKinds DEF Snapshot, SnapshotState, Results, StateOK, ResultStands
<1>3. ASSUME NEW f \in Films, SelectFilm(r, f) PROVE PageInv'
  <2>1. grid' \in GridType /\ Matches(grid')
    BY <1>1, <1>3 DEF SelectFilm, GridType, Grid, TypeOK, Matches, NoCell, Kinds
  <2>2. QED
    BY <1>2, <1>3, <2>1, OneRequest DEF SelectFilm
<1>4. CASE Poll(r)
  BY <1>1, <1>2, <1>4, OneRequestOnly DEF Poll, TypeOK
<1>5. CASE Click(r)
  <2> DEFINE action == IF grid.cell.kind = "available" THEN "hold" ELSE "checkout"
             post == [pc |-> "post", film |-> movieSlug,
                      clicked |-> grid.cell.film, action |-> action]
  <2>1. /\ grid \in GridType /\ grid.cell.kind \in {"available", "your_hold"}
        /\ movieSlug # NoFilm
    BY <1>1, <1>5 DEF Click, TypeOK, GridType
  <2>2. grid.cell \in Cell /\ grid.slug = grid.cell.film
    BY <2>1 DEF GridType, NoCell, PageInv, Matches, Kinds
  <2>3. movieSlug = grid.cell.film /\ grid.cell.film \in Films
    BY <2>1, <2>2, NoFilmAssumption DEF movieSlug, Cell
  <2>4. action \in Actions
    BY DEF Actions
  <2>5. Becomes(r, post) /\ UNCHANGED <<stores, page>>
    BY <1>5 DEF Click
  <2> HIDE DEF action
  <2>6. post \in RequestStates /\ StateOK(post)
    BY <2>3, <2>4, RequestKinds DEF PostState, StateOK
  <2>7. QED
    BY <2>5, <2>6, OneRequestOnly
<1>6. QED
  BY <1>3, <1>4, <1>5

\* A choice that throws leaves all but the signal.
LEMMA AnotherOK ==
  ASSUME PageInv, NEW f \in Films, SelectAnother(f) PROVE PageInv'
<1>1. UNCHANGED <<sold, holder, viewer, hidden, grid, reqs>> /\ signal' = f
  BY DEF SelectAnother, stores
<1>2. TypeOK'
  BY <1>1 DEF PageInv, TypeOK
<1>3. \A q \in Requests : StateOK(reqs[q])'
  BY <1>1 DEF PageInv, StateOK, AnswerShows, ResultStands, Matches
<1>4. QED
  BY <1>1, <1>2, <1>3 DEF PageInv, Matches

LEMMA ServingOK ==
  ASSUME PageInv, NEW r \in Requests, ServeGrid(r) \/ ServeError(r) \/ RefusePost(r)
  PROVE  PageInv'
<1>1. TypeOK /\ reqs[r] \in RequestStates /\ StateOK(reqs[r])
  BY DEF PageInv, TypeOK
<1>2. CASE ServeGrid(r)
  <2>1. PICK f \in Films, result \in Results :
          f = reqs[r].film /\ result = reqs[r].result
    BY <1>1, <1>2, RequestPc DEF ServeGrid, SnapshotState
  <2> DEFINE answer == [pc |-> "answer", film |-> f, result |-> result,
                        grid |-> GridOf(f)]
  <2>2. Becomes(r, answer) /\ UNCHANGED <<stores, page>>
    BY <1>2, <2>1 DEF ServeGrid
  <2>3. answer \in RequestStates
    BY <1>1, GridOfIsTyped, RequestKinds DEF AnswerState, AnswerGrids
  <2>4. /\ result = "hold" => holder[f] = "me" \/ sold[f]
        /\ result = "checkout" => sold[f]
    BY <1>1, <1>2, <2>1 DEF ServeGrid, StateOK, ResultStands
  <2>5. /\ GridOf(f).slug = f /\ GridOf(f).cell.film = f
        /\ GridOf(f).cell.kind = KindFor(f)
    BY DEF GridOf, Grid
  <2>6. StateOK(answer)
    BY <1>1, <2>4, <2>5 DEF StateOK, Matches, AnswerShows, KindFor, TypeOK
  <2>7. QED
    BY <2>2, <2>3, <2>6, OneRequestOnly
<1>3. CASE ServeError(r)
  <2>1. PICK f \in Films : f = reqs[r].film
    BY <1>1, <1>3, RequestPc DEF ServeError, SnapshotState
  <2> DEFINE answer == [pc |-> "answer", film |-> f, result |-> "none",
                        grid |-> ErrorGrid]
  <2>2. Becomes(r, answer) /\ UNCHANGED <<stores, page>>
    BY <1>3, <2>1 DEF ServeError
  <2>3. answer \in RequestStates
    BY RequestKinds DEF AnswerState, AnswerGrids, Results
  <2>4. StateOK(answer)
    BY DEF StateOK, Matches, AnswerShows, ErrorGrid, Grid, NoCell, Kinds
  <2>5. QED
    BY <2>2, <2>3, <2>4, OneRequestOnly
<1>4. CASE RefusePost(r)
  <2>1. PICK f \in Films, status \in {"refused", "unauthorized"} :
          /\ Becomes(r, [pc |-> "posted", film |-> f,
                         result |-> "none", status |-> status])
          /\ UNCHANGED <<stores, page>>
    BY <1>1, <1>4, RequestPc DEF RefusePost, PostState
  <2> DEFINE posted == [pc |-> "posted", film |-> f, result |-> "none",
                        status |-> status]
  <2>2. posted \in RequestStates /\ StateOK(posted)
    BY RequestKinds DEF PostedState, Results, StateOK, ResultStands
  <2>3. QED
    BY <2>1, <2>2, OneRequestOnly
<1>5. QED
  BY <1>2, <1>3, <1>4

LEMMA ArrivingOK ==
  ASSUME PageInv, NEW r \in Requests, DeliverPost(r) \/ DeliverGrid(r) \/ Lost(r)
  PROVE  PageInv'
<1>1. TypeOK /\ reqs[r] \in RequestStates /\ StateOK(reqs[r])
  BY DEF PageInv, TypeOK
<1>2. Idle \in RequestStates /\ StateOK(Idle)
  BY RequestKinds DEF StateOK, Idle
<1>3. CASE DeliverPost(r)
  <2>1. reqs[r] \in PostedState
    BY <1>1, <1>3, RequestPc DEF DeliverPost
  <2>2. CASE reqs[r].status = "ok"
    <3>1. PICK f \in Films, result \in Results :
            f = reqs[r].film /\ result = reqs[r].result
      BY <2>1 DEF PostedState
    <3>2. Snapshot(f, result) \in RequestStates /\ StateOK(Snapshot(f, result))
      BY <1>1, <1>3, <3>1, RequestKinds
         DEF DeliverPost, Snapshot, SnapshotState, StateOK, ResultStands
    <3>3. Becomes(r, Snapshot(f, result)) /\ UNCHANGED <<stores, page>>
      BY <1>3, <2>2, <3>1 DEF DeliverPost
    <3>4. QED
      BY <3>2, <3>3, OneRequestOnly
  <2>3. CASE reqs[r].status = "refused"
    BY <1>2, <1>3, <2>3, OneRequestOnly DEF DeliverPost
  <2>4. CASE reqs[r].status = "unauthorized"
    BY <1>3, <2>4, NewPageOK DEF DeliverPost
  <2>5. QED
    BY <2>1, <2>2, <2>3, <2>4 DEF PostedState
<1>4. CASE DeliverGrid(r)
  <2>1. /\ reqs[r] \in AnswerState /\ Matches(reqs[r].grid)
        /\ grid' = reqs[r].grid /\ Becomes(r, Idle)
        /\ UNCHANGED <<stores, viewer, signal, hidden>>
    BY <1>1, <1>4, RequestPc DEF DeliverGrid, StateOK
  <2>2. grid' \in GridType /\ Matches(grid')
    BY <2>1, AnswerGridsAreGrids DEF AnswerState, Matches
  <2>3. QED
    BY <1>1, <1>2, <2>1, <2>2, OneRequest DEF TypeOK
<1>5. CASE Lost(r)
  BY <1>2, <1>5, OneRequestOnly DEF Lost
<1>6. QED
  BY <1>3, <1>4, <1>5

-----------------------------------------------------------------------------
LEMMA InitOK == Init => Inv
<1> SUFFICES ASSUME Init PROVE PageInv
  BY InvIsPageInv
<1>1. TypeOK
  BY RequestKinds DEF Init, TypeOK, ErrorGrid, Grid
<1>2. Matches(grid)
  BY DEF Init, Matches, ErrorGrid, Grid, NoCell, Kinds
<1>3. \A q \in Requests : StateOK(reqs[q])
  BY DEF Init, StateOK, Idle
<1>4. QED
  BY <1>1, <1>2, <1>3 DEF PageInv

LEMMA StepOK == Inv /\ [Next]_vars => Inv'
<1> SUFFICES ASSUME Inv, [Next]_vars PROVE Inv'
  OBVIOUS
<1>1. PageInv
  BY InvIsPageInv
<1>2. PageInv'
  <2>1. CASE UNCHANGED vars
    BY <1>1, <2>1 DEF vars, stores, page, PageInv, TypeOK, Matches, StateOK,
                      AnswerShows, ResultStands
  <2>2. CASE Next
    BY <1>1, <2>2, AskingOK, AnotherOK, ServingOK, ArrivingOK, ServePostOK, ElsewhereOK,
       NewPageOK DEF Next, Routine, Disturbance, Reload
  <2>3. QED
    BY <2>1, <2>2
<1>3. QED
  BY <1>2 DEF Inv, PageInv, GridsMatch, ResultsStand, ClickIsForItsFilm,
              ActionIsShown, StateOK, AnswerShows

LEMMA SpecInv == Spec => []Inv
BY InitOK, StepOK, PTL DEF Spec

\* Every variable keeps its type.
THEOREM TypeCorrect == Spec => []TypeOK
<1>1. Inv => TypeOK
  BY DEF Inv
<1>2. QED
  BY <1>1, SpecInv, PTL

\* A click never holds or books a seat of a film that is not on display.
THEOREM ClickCorrect == Spec => []ClickIsForItsFilm
<1>1. Inv => ClickIsForItsFilm
  BY DEF Inv
<1>2. QED
  BY <1>1, SpecInv, PTL

(***************************************************************************)
(* The snapshot after a click shows what the click did, however many other *)
(* requests of the page are under way.                                     *)
(***************************************************************************)
THEOREM ActionCorrect == Spec => []ActionIsShown
<1>1. Inv => ActionIsShown
  BY DEF Inv
<1>2. QED
  BY <1>1, SpecInv, PTL

-----------------------------------------------------------------------------
(***************************************************************************)
(* Where a page comes to rest: no click is under way, and every request is *)
(* for the film chosen and, if it was answered, has the seat as it is.     *)
(***************************************************************************)
AtRest(state) ==
  /\ state.pc \notin {"post", "posted"}
  /\ state.pc = "snapshot" => state.film = signal
  /\ state.pc = "answer" => state.grid = GridOf(signal)

Settled ==
  signal # NoFilm =>
    grid = GridOf(signal) /\ \A q \in Requests : AtRest(reqs[q])

LEMMA RoutineRests == TypeOK /\ Settled /\ [Routine]_vars => Settled'
<1> SUFFICES ASSUME TypeOK, Settled, [Routine]_vars, (signal # NoFilm)'
             PROVE  (grid = GridOf(signal) /\ \A q \in Requests : AtRest(reqs[q]))'
  BY DEF Settled
<1>1. CASE UNCHANGED vars
  BY <1>1 DEF vars, stores, page, Settled, AtRest, GridOf, KindFor
<1>2. ASSUME NEW q \in Requests, ServePost(q) \/ DeliverPost(q)
      PROVE  FALSE
  <2>1. reqs[q].pc \in {"post", "posted"}
    BY <1>2 DEF ServePost, DeliverPost
  <2>2. signal' = signal \/ signal' = NoFilm
    <3>1. CASE ServePost(q)
      BY <3>1 DEF ServePost, page
    <3>2. CASE DeliverPost(q)
      <4>1. reqs[q] \in PostedState
        BY <3>2, RequestPc DEF DeliverPost, TypeOK
      <4>2. reqs[q].status \in {"ok", "refused", "unauthorized"}
        BY <4>1 DEF PostedState
      <4>3. QED
        BY <3>2, <4>2 DEF DeliverPost, NewPage, page
    <3>3. QED
      BY <1>2, <3>1, <3>2
  <2>3. QED
    BY <2>1, <2>2 DEF Settled, AtRest
<1> DEFINE Moves(q, state) ==
             /\ state \in RequestStates /\ Becomes(q, state) /\ AtRest(state)
             /\ UNCHANGED <<sold, holder, viewer, signal>>
             /\ grid' = GridOf(signal)
<1>3. ASSUME NEW q \in Requests, NEW state, Moves(q, state)
      PROVE  (grid = GridOf(signal) /\ \A p \in Requests : AtRest(reqs[p]))'
  <2>1. signal # NoFilm /\ GridOf(signal)' = GridOf(signal)
    BY <1>3 DEF GridOf, KindFor
  <2>2. ASSUME NEW p \in Requests PROVE AtRest(reqs[p])'
    <3>1. reqs'[p] = IF p = q THEN state ELSE reqs[p]
      BY <1>3, StateBecomes
    <3>2. AtRest(state) /\ AtRest(reqs[p])
      BY <1>3, <2>1 DEF Settled
    <3>3. QED
      BY <1>3, <2>1, <3>1, <3>2 DEF AtRest
  <2>3. QED
    BY <1>3, <2>1, <2>2
<1>4. CASE \E q \in Requests : Poll(q)
  <2>1. PICK q \in Requests : Poll(q)
    BY <1>4
  <2>2. Moves(q, Snapshot(signal, "none"))
    BY <2>1, RequestKinds DEF Poll, Snapshot, SnapshotState, Results, AtRest,
       Settled, stores, page, TypeOK
  <2>3. QED
    BY <1>3, <2>2
<1>5. CASE \E q \in Requests : ServeGrid(q)
  <2>1. PICK q \in Requests : ServeGrid(q)
    BY <1>5
  <2> DEFINE state == [pc |-> "answer", film |-> reqs[q].film,
                       result |-> reqs[q].result, grid |-> GridOf(reqs[q].film)]
  <2>2. /\ signal # NoFilm /\ UNCHANGED <<sold, holder, viewer, signal, grid>>
        /\ Becomes(q, state) /\ reqs[q].pc = "snapshot"
    BY <2>1 DEF ServeGrid, stores, page
  <2>3. reqs[q] \in SnapshotState /\ reqs[q].film = signal
    BY <2>2, RequestPc DEF TypeOK, Settled, AtRest
  <2>4. state \in RequestStates
    BY <2>3, GridOfIsTyped, RequestKinds DEF SnapshotState, AnswerState, AnswerGrids
  <2>5. Moves(q, state)
    BY <2>2, <2>3, <2>4 DEF AtRest, Settled
  <2>6. QED
    BY <1>3, <2>5
<1>6. CASE \E q \in Requests : DeliverGrid(q)
  <2>1. PICK q \in Requests : DeliverGrid(q)
    BY <1>6
  <2>2. /\ signal # NoFilm /\ UNCHANGED <<sold, holder, viewer, signal>>
        /\ Becomes(q, Idle) /\ reqs[q].pc = "answer" /\ grid' = reqs[q].grid
    BY <2>1 DEF DeliverGrid, stores
  <2>3. Moves(q, Idle)
    BY <2>2, RequestKinds DEF AtRest, Idle, Settled
  <2>4. QED
    BY <1>3, <2>3
<1>7. QED
  BY <1>1, <1>2, <1>4, <1>5, <1>6 DEF Routine

(***************************************************************************)
(* A page that has come to rest is right for as long as nothing disturbs   *)
(* it, however its timer, its requests and their answers overlap.          *)
(***************************************************************************)
THEOREM SettledStays ==
  Spec => [](Settled /\ [][Routine]_vars => []PageIsRight)
<1>1. Settled => PageIsRight
  BY DEF Settled, PageIsRight
<1>2. QED
  BY <1>1, RoutineRests, TypeCorrect, PTL

-----------------------------------------------------------------------------
(***************************************************************************)
(* The seats of the page: the layout.                                      *)
(***************************************************************************)

\* What / and % are.
LEMMA DivMod ==
  ASSUME NEW idx \in Nat, NEW m \in Nat \ {0}
  PROVE /\ idx \div m \in Nat
        /\ idx % m \in 0..(m - 1)
        /\ idx = m * (idx \div m) + (idx % m)
  OBVIOUS

\* A seat's row is one of the auditorium's.
LEMMA DivBound ==
  ASSUME NEW idx \in Nat, NEW m \in Nat \ {0}, NEW rows \in Nat, idx < rows * m
  PROVE idx \div m < rows
<1>1. idx = m * (idx \div m) + (idx % m) /\ idx \div m \in Nat /\ idx % m \in 0..(m-1)
  BY DivMod
<1>2. SUFFICES ASSUME idx \div m >= rows PROVE FALSE
  BY <1>1
<1>3. m * (idx \div m) >= m * rows
  BY <1>1, <1>2
<1> QED BY <1>1, <1>3

\* A place determines row and column.
LEMMA Unique ==
  ASSUME NEW m \in Nat \ {0}, NEW i \in Nat, NEW j \in 0..(m-1), NEW a \in Nat, NEW b \in 0..(m-1),
         i * m + j = a * m + b
  PROVE i = a /\ j = b
<1>1. ~ (i < a)
  <2>1. SUFFICES ASSUME i < a PROVE FALSE
    OBVIOUS
  <2>2. a * m >= (i + 1) * m
    BY <2>1
  <2> QED BY <2>2
<1>2. ~ (a < i)
  <2>1. SUFFICES ASSUME a < i PROVE FALSE
    OBVIOUS
  <2>2. i * m >= (a + 1) * m
    BY <2>1
  <2> QED BY <2>2
<1> QED BY <1>1, <1>2

(***************************************************************************)
(* flat_idx and from_flat_idx undo each other wherever there are seats     *)
(* (the formulas at the head of seat_layout.rs).                           *)
(***************************************************************************)
THEOREM RoundTrip ==
  ASSUME NEW m \in Nat \ {0}
  PROVE /\ \A idx \in Nat : LET cell == from_flat_idx(idx, m) IN flat_idx(cell[1], cell[2], m) = idx
        /\ \A i \in Nat, j \in 0..(m - 1) : from_flat_idx(flat_idx(i, j, m), m) = <<i, j>>
<1>1. ASSUME NEW idx \in Nat
      PROVE flat_idx(from_flat_idx(idx, m)[1], from_flat_idx(idx, m)[2], m) = idx
  <2>1. m # 0 /\ from_flat_idx(idx, m) = <<idx \div m, idx % m>>
    BY DEF from_flat_idx
  <2>2. idx \div m \in Nat /\ idx % m \in 0..(m - 1) /\ idx = m * (idx \div m) + (idx % m)
    BY DivMod
  <2> QED BY <2>1, <2>2 DEF flat_idx
<1>2. ASSUME NEW i \in Nat, NEW j \in 0..(m - 1)
      PROVE from_flat_idx(flat_idx(i, j, m), m) = <<i, j>>
  <2> DEFINE idx == i * m + j
  <2>1. idx \in Nat
    OBVIOUS
  <2>2. idx \div m \in Nat /\ idx % m \in 0..(m - 1) /\ idx = m * (idx \div m) + (idx % m)
    BY <2>1, DivMod
  <2>3. i * m + j = (idx \div m) * m + (idx % m)
    BY <2>2
  <2> HIDE DEF idx
  <2>4. i = idx \div m /\ j = idx % m
    BY <2>2, <2>3, Unique
  <2> QED BY <2>4 DEF from_flat_idx, flat_idx, idx
<1> QED BY <1>1, <1>2

(***************************************************************************)
(* The seats iter_layout_seats makes are in the auditorium, and no two     *)
(* have the same place or the same name, at any size and when the product  *)
(* saturates.                                                              *)
(***************************************************************************)
THEOREM PlacesAreDistinct ==
  ASSUME NEW row_count \in Int, NEW seats_per_row \in Int, NEW max \in Nat
  PROVE SeatsHavePlaces(row_count, seats_per_row, max)
<1> DEFINE rows == NonNegative(row_count)
           m == NonNegative(seats_per_row)
           N == saturating_mul(rows, m, max)
           seats == iter_layout_seats(row_count, seats_per_row, max)
<1>1. rows \in Nat /\ m \in Nat /\ N \in Nat
  BY DEF NonNegative, saturating_mul
<1>2. N <= rows * m
  BY <1>1 DEF saturating_mul
<1>3. seats = [k \in 1..N |-> LayoutSeat(k - 1, m)]
  BY DEF iter_layout_seats
<1>4. ASSUME NEW k \in 1..N
      PROVE /\ m \in Nat \ {0} /\ m = seats_per_row /\ rows = row_count
            /\ k - 1 \in Nat /\ k - 1 < rows * m
            /\ seats[k].seat = k
            /\ seats[k].row = ((k - 1) \div m) + 1
            /\ seats[k].col = ((k - 1) % m) + 1
  <2>1. k - 1 \in Nat /\ k - 1 < rows * m
    BY <1>1, <1>2
  <2>2. m # 0 /\ rows # 0
    <3>1. ASSUME m = 0 \/ rows = 0 PROVE rows * m = 0
      BY <1>1, <3>1
    <3> QED BY <2>1, <3>1
  <2>3. m = seats_per_row /\ rows = row_count
    BY <2>2 DEF NonNegative
  <2>4. seats[k] = LayoutSeat(k - 1, m)
    BY <1>3
  <2>5. from_flat_idx(k - 1, m) = <<(k - 1) \div m, (k - 1) % m>>
    BY <2>2 DEF from_flat_idx
  <2>6. seats[k] = [flat_idx |-> k - 1, seat |-> (k - 1) + 1,
                    row |-> ((k - 1) \div m) + 1, col |-> ((k - 1) % m) + 1]
    BY <2>4, <2>5 DEF LayoutSeat
  <2> HIDE DEF m, rows, seats
  <2>7. seats[k].seat = k
    BY <2>6, <1>1
  <2> QED BY <1>1, <2>1, <2>2, <2>3, <2>6, <2>7
<1> HIDE DEF rows, m, N
<1>5. DOMAIN seats = 1..N
  BY <1>3
<1> HIDE DEF seats
<1>6. ASSUME NEW k \in 1..N
      PROVE seats[k].row \in 1..row_count /\ seats[k].col \in 1..seats_per_row
  <2>1. /\ (k - 1) \div m \in Nat
        /\ (k - 1) % m \in 0..(m - 1)
    BY <1>4, DivMod
  <2>2. (k - 1) \div m < rows
    BY <1>1, <1>4, DivBound
  <2>3. seats[k].row = ((k - 1) \div m) + 1 /\ seats[k].col = ((k - 1) % m) + 1
        /\ m = seats_per_row /\ rows = row_count
    BY <1>4
  <2> DEFINE d == (k - 1) \div m
             e == (k - 1) % m
  <2>4. d \in Nat /\ d < rows /\ e \in 0..(m - 1) /\ seats[k].row = d + 1 /\ seats[k].col = e + 1
    BY <2>1, <2>2, <2>3
  <2> HIDE DEF d, e
  <2> QED BY <2>4, <2>3, <1>1
<1>7. ASSUME NEW k \in 1..N, NEW l \in 1..N,
             seats[k].row = seats[l].row /\ seats[k].col = seats[l].col
      PROVE k = l
  <2>1. /\ k - 1 = m * ((k - 1) \div m) + ((k - 1) % m)
        /\ l - 1 = m * ((l - 1) \div m) + ((l - 1) % m)
        /\ (k - 1) \div m \in Nat /\ (l - 1) \div m \in Nat
        /\ (k - 1) % m \in 0..(m - 1) /\ (l - 1) % m \in 0..(m - 1)
    BY <1>4, DivMod
  <2>2. /\ seats[k].row = ((k - 1) \div m) + 1 /\ seats[l].row = ((l - 1) \div m) + 1
        /\ seats[k].col = ((k - 1) % m) + 1 /\ seats[l].col = ((l - 1) % m) + 1
    BY <1>4
  <2> DEFINE d == (k - 1) \div m
             e == (k - 1) % m
             f == (l - 1) \div m
             g == (l - 1) % m
  <2>3. d \in Nat /\ f \in Nat /\ e \in 0..(m - 1) /\ g \in 0..(m - 1) /\ d + 1 = f + 1 /\ e + 1 = g + 1
        /\ k - 1 = m * d + e /\ l - 1 = m * f + g
    BY <2>1, <2>2, <1>7
  <2> HIDE DEF d, e, f, g
  <2>4. d = f /\ e = g
    BY <2>3, <1>1
  <2>5. k - 1 = l - 1
    BY <2>3, <2>4
  <2> QED BY <2>5, <1>1
<1>8. ASSUME NEW k \in 1..N, NEW l \in 1..N, seats[k].seat = seats[l].seat
      PROVE k = l
  BY <1>4, <1>8
<1> QED BY <1>5, <1>6, <1>7, <1>8 DEF SeatsHavePlaces, seats

\* Row and column within the auditorium give an index within it.
LEMMA FlatBound ==
  ASSUME NEW rows \in Nat, NEW m \in Nat, NEW i \in 0..(rows - 1), NEW j \in 0..(m - 1)
  PROVE i * m + j \in Nat /\ i * m + j < rows * m
<1>1. i + 1 <= rows
  OBVIOUS
<1>2. (i + 1) * m <= rows * m
  BY <1>1
<1>3. (i + 1) * m = i * m + m
  OBVIOUS
<1> QED BY <1>2, <1>3

(***************************************************************************)
(* iter_layout_seats makes a seat for every place of the auditorium.       *)
(***************************************************************************)
THEOREM PlacesAreFilled ==
  ASSUME NEW row_count \in Int, NEW seats_per_row \in Int, NEW max \in Nat
  PROVE PlacesHaveSeats(row_count, seats_per_row, max)
<1> DEFINE seats == iter_layout_seats(row_count, seats_per_row, max)
<1> SUFFICES ASSUME row_count * seats_per_row <= max,
                    NEW row \in 1..row_count, NEW col \in 1..seats_per_row
             PROVE \E k \in DOMAIN seats : seats[k].row = row /\ seats[k].col = col
  BY DEF PlacesHaveSeats
<1>1. row_count \in Nat \ {0} /\ seats_per_row \in Nat \ {0}
  OBVIOUS
<1>2. seats = [k \in 1..(row_count * seats_per_row) |-> LayoutSeat(k - 1, seats_per_row)]
  BY <1>1 DEF iter_layout_seats, NonNegative, saturating_mul
<1> DEFINE i == row - 1
           j == col - 1
           idx == i * seats_per_row + j
<1>3. i \in 0..(row_count - 1) /\ j \in 0..(seats_per_row - 1)
  BY <1>1
<1>4. idx \in Nat /\ idx < row_count * seats_per_row
  BY <1>1, <1>3, FlatBound
<1>5. from_flat_idx(idx, seats_per_row) = <<i, j>>
  <2> HIDE DEF i, j
  <2>1. from_flat_idx(flat_idx(i, j, seats_per_row), seats_per_row) = <<i, j>>
    BY <1>1, <1>3, RoundTrip
  <2> QED BY <2>1 DEF flat_idx
<1>6. idx + 1 \in 1..(row_count * seats_per_row) /\ (idx + 1) - 1 = idx
  <2> HIDE DEF idx
  <2>1. row_count * seats_per_row \in Nat
    BY <1>1
  <2> QED BY <1>4, <2>1
<1>7. seats[idx + 1] = LayoutSeat(idx, seats_per_row)
  <2> HIDE DEF idx, seats
  <2> QED BY <1>2, <1>6
<1>8. LayoutSeat(idx, seats_per_row).row = row /\ LayoutSeat(idx, seats_per_row).col = col
  BY <1>5 DEF LayoutSeat
<1>9. idx + 1 \in DOMAIN seats
  BY <1>2, <1>6
<1> QED BY <1>7, <1>8, <1>9
=============================================================================
