------------------------- MODULE MovieCatalogProofs -------------------------
(***************************************************************************)
(* Whatever titles, requests and number of ids there are, a slug is true   *)
(* to its row and never collides, and a booked movie keeps it.  Neither    *)
(* follows from a lock: update holds none between the statement that reads *)
(* an id and the one that uses it.                                         *)
(***************************************************************************)
EXTENDS MovieCatalog, WellFoundedInduction, TLAPS

-----------------------------------------------------------------------------
(***************************************************************************)
(* Slugs and ids.                                                          *)
(***************************************************************************)

\* A slug of a title is right, and says the stem and the id it was made of.
LEMMA SlugSaysBoth ==
  ASSUME NEW title \in Titles, NEW id \in Ids
  PROVE  /\ movie_slug(title, id) \in Slugs
         /\ movie_slug(title, id)[1] = slugify_title(title)
         /\ movie_slug(title, id)[2] = id
BY DEF movie_slug, slugify_title, Slugs, Titles

\* Every set of numbers has a least one.
LEMMA LeastNumber ==
  ASSUME NEW T \in SUBSET Nat, T # {}
  PROVE  \E n \in T : \A k \in T : n <= k
<1> DEFINE R == {pair \in Nat \X Nat : pair[1] < pair[2]}
<1>1. IsWellFoundedOn(R, Nat)
  BY NatLessThanWellFounded DEF OpToRel
<1>2. PICK n \in T : \A k \in T : <<k, n>> \notin R
  BY <1>1, WFMin
<1>3. ASSUME NEW k \in T PROVE n <= k
  <2>1. <<k, n>> \notin R /\ k \in Nat /\ n \in Nat
    BY <1>2
  <2>2. QED
    BY <2>1
<1>4. QED
  BY <1>3

\* SQLite's next id is larger than all there are, and not too large to name.
LEMMA NextIdIsLargest ==
  ASSUME TypeOK
  PROVE  NextId \in Nat /\ \A row \in rows : row.id < NextId
<1> DEFINE Bounds == {n \in Nat : \A row \in rows : row.id <= n}
           Largest(n) == /\ \A row \in rows : row.id <= n
                         /\ n = 0 \/ \E row \in rows : row.id = n
<1>1. \A row \in rows : row.id \in Nat \ {0} /\ row.id <= MaxId
  BY MaxIdAssumption DEF TypeOK, Row, Ids
<1>2. MaxId \in Bounds
  BY <1>1, MaxIdAssumption
<1>3. PICK n \in Bounds : \A k \in Bounds : n <= k
  BY <1>2, LeastNumber
<1>4. n <= MaxId /\ n \in 0..MaxId
  BY <1>2, <1>3, MaxIdAssumption
<1>5. n = 0 \/ \E row \in rows : row.id = n
  <2> SUFFICES ASSUME n # 0, \A row \in rows : row.id # n PROVE FALSE
    OBVIOUS
  <2>1. \A row \in rows : row.id <= n - 1
    BY <1>1
  <2>2. n - 1 \in Bounds
    BY <2>1
  <2>3. QED
    BY <1>3, <2>2
<1>6. Largest(n)
  BY <1>5
<1>7. PICK m \in 0..MaxId : m = (CHOOSE k \in 0..MaxId : Largest(k)) /\ Largest(m)
  BY <1>4, <1>6
<1>8. NextId = 1 + m
  BY <1>7 DEF NextId
<1>9. QED
  BY <1>1, <1>7, <1>8

-----------------------------------------------------------------------------
(***************************************************************************)
(* The invariant.                                                          *)
(***************************************************************************)
IdsAreDistinct == \A a, b \in rows : a.id = b.id => a = b

IsCreating(r) == reqs[r].pc \in {"inserted", "named"}

\* A create has the write lock from its INSERT on, and nobody else ever has it
\* from one step to the next.
LockIsCreators == \A r \in Requests : IsCreating(r) <=> lock = r

\* Under it, its id is still the largest.
NewIdIsLargest ==
  \A r \in Requests : IsCreating(r) => \A row \in rows : row.id < reqs[r].row.id

NewSlugNamesItsRow ==
  \A r \in Requests :
    reqs[r].pc = "named" => reqs[r].row.slug = movie_slug(reqs[r].row.title, reqs[r].row.id)

\* The id an update read is in the slug it was asked for, and stays so when the
\* row has long been another's: that is why it needs no transaction.
UpdateKeepsId ==
  \A r \in Requests :
    reqs[r].pc \in {"loaded", "written"} =>
      reqs[r].new_slug = movie_slug(reqs[r].title, reqs[r].slug[2])

RowsInv == SlugNamesItsRow /\ IdsAreDistinct /\ BookedMovieKeepsSlug
RequestsInv ==
  /\ LockIsCreators
  /\ NewIdIsLargest
  /\ NewSlugNamesItsRow
  /\ UpdateKeepsId
  /\ AnswerIsTheMovieAsked

Inv == TypeOK /\ RowsInv /\ RequestsInv

-----------------------------------------------------------------------------
(***************************************************************************)
(* What a request in each state carries.                                   *)
(***************************************************************************)
LEMMA Shapes ==
  ASSUME TypeOK, NEW r \in Requests
  PROVE  /\ reqs[r] \in RequestStates
         /\ reqs[r].pc \in {"idle", "inserted", "named", "loaded", "written", "answered"}
         /\ reqs[r].pc = "inserted" =>
              reqs[r] \in [pc : {"inserted"}, row : [id : Ids, title : Titles, time : Times]]
         /\ reqs[r].pc = "named" => reqs[r] \in [pc : {"named"}, row : Row]
         /\ reqs[r].pc \in {"loaded", "written"} =>
              reqs[r] \in [pc : {"loaded", "written"}, slug : Slugs, new_slug : Slugs,
                           title : Titles, time : Times]
         /\ reqs[r].pc = "answered" /\ reqs[r].status = "updated" =>
              reqs[r] \in [pc : {"answered"}, status : {"updated"},
                           slug : Slugs, title : Titles, row : Row]
<1>1. reqs[r] \in RequestStates
  BY DEF TypeOK
<1>2. QED
  BY <1>1 DEF RequestStates, Idle, Failed, NotFound

\* One request moves.
LEMMA Moved ==
  ASSUME TypeOK, NEW r \in Requests, NEW q, Becomes(r, q)
  PROVE  /\ reqs'[r] = q
         /\ \A t \in Requests \ {r} : reqs'[t] = reqs[t]
         /\ q \in RequestStates => reqs' \in [Requests -> RequestStates]
BY DEF TypeOK, Becomes

LEMMA EndStates ==
  /\ {Idle, Failed, NotFound} \subseteq RequestStates
  /\ \A q \in {Idle, Failed, NotFound} :
       q.pc \in {"idle", "answered"} /\ (q.pc = "answered" => q.status # "updated")
BY DEF RequestStates, Idle, Failed, NotFound

\* The slug a row has tells its id.
LEMMA RowOfSlug ==
  ASSUME TypeOK, SlugNamesItsRow, NEW slug, NEW row \in Named(slug)
  PROVE  /\ row \in rows /\ row.slug = slug /\ slug = movie_slug(row.title, row.id)
         /\ slug[1] = slugify_title(row.title) /\ slug[2] = row.id
<1>1. row \in rows /\ row.slug = slug /\ row.title \in Titles /\ row.id \in Ids
  BY DEF Named, TypeOK, Row
<1>2. slug = movie_slug(row.title, row.id)
  BY <1>1 DEF SlugNamesItsRow
<1>3. QED
  BY <1>1, <1>2, SlugSaysBoth

(***************************************************************************)
(* A request comes to an end that says nothing of a movie, with the lock   *)
(* given back if it was its own.                                           *)
(***************************************************************************)
LEMMA EndStep ==
  ASSUME Inv, NEW r \in Requests, NEW q \in {Idle, Failed, NotFound}, Becomes(r, q),
         rows' = rows, booked' = booked,
         lock' = IF lock = r THEN NoRequest ELSE lock
  PROVE  Inv'
<1>1. /\ reqs'[r] = q /\ reqs' \in [Requests -> RequestStates]
      /\ \A t \in Requests \ {r} : reqs'[t] = reqs[t]
      /\ q.pc \in {"idle", "answered"} /\ (q.pc = "answered" => q.status # "updated")
  BY Moved, EndStates DEF Inv
<1>2. TypeOK'
  BY <1>1 DEF Inv, TypeOK
<1>3. RowsInv'
  BY DEF Inv, RowsInv, SlugNamesItsRow, IdsAreDistinct, BookedMovieKeepsSlug, Named
<1>4. LockIsCreators'
  BY <1>1, NoRequestAssumption DEF Inv, RequestsInv, LockIsCreators, IsCreating
<1>5. NewIdIsLargest' /\ NewSlugNamesItsRow' /\ UpdateKeepsId' /\ AnswerIsTheMovieAsked'
  BY <1>1 DEF Inv, RequestsInv, IsCreating, NewIdIsLargest, NewSlugNamesItsRow,
              UpdateKeepsId, AnswerIsTheMovieAsked
<1>6. QED
  BY <1>2, <1>3, <1>4, <1>5 DEF Inv, RequestsInv

-----------------------------------------------------------------------------
(***************************************************************************)
(* create.                                                                 *)
(***************************************************************************)
LEMMA InsertStep ==
  ASSUME Inv, NEW r \in Requests, NEW title \in Titles, NEW time \in Times,
         CreateInsert(r, title, time)
  PROVE  Inv'
<1> DEFINE q == [pc |-> "inserted", row |-> [id |-> NextId, title |-> title, time |-> time]]
<1>1. Becomes(r, q) /\ NextId \in Ids /\ lock = NoRequest /\ lock' = r
  BY DEF CreateInsert
<1>2. q \in RequestStates
  BY <1>1 DEF RequestStates
<1>3. /\ reqs'[r] = q /\ reqs' \in [Requests -> RequestStates]
      /\ \A t \in Requests \ {r} : reqs'[t] = reqs[t]
  BY <1>1, <1>2, Moved DEF Inv
<1>4. TypeOK'
  BY <1>1, <1>3 DEF CreateInsert, Inv, TypeOK
<1>5. RowsInv'
  BY DEF CreateInsert, Inv, RowsInv, SlugNamesItsRow, IdsAreDistinct, BookedMovieKeepsSlug, Named
<1>6. \A t \in Requests : ~IsCreating(t)
  BY <1>1, NoRequestAssumption DEF Inv, RequestsInv, LockIsCreators
<1>7. LockIsCreators'
  BY <1>1, <1>3, <1>6 DEF LockIsCreators, IsCreating
<1>8. NewIdIsLargest'
  <2>1. \A row \in rows : row.id < q.row.id
    BY NextIdIsLargest DEF Inv
  <2>2. QED
    BY <1>3, <1>6, <2>1 DEF NewIdIsLargest, IsCreating, CreateInsert
<1>9. NewSlugNamesItsRow' /\ UpdateKeepsId' /\ AnswerIsTheMovieAsked'
  BY <1>3 DEF Inv, RequestsInv, NewSlugNamesItsRow, UpdateKeepsId, AnswerIsTheMovieAsked
<1>10. QED
  BY <1>4, <1>5, <1>7, <1>8, <1>9 DEF Inv, RequestsInv

LEMMA NameStep ==
  ASSUME Inv, NEW r \in Requests, CreateName(r)
  PROVE  Inv'
<1> DEFINE new == reqs[r].row
           q == [pc |-> "named", row |-> [id |-> new.id, slug |-> movie_slug(new.title, new.id),
                                          title |-> new.title, time |-> new.time]]
<1>1. Becomes(r, q) /\ reqs[r].pc = "inserted"
  BY DEF CreateName
<1>2. new.id \in Ids /\ new.title \in Titles /\ new.time \in Times
  BY <1>1, Shapes DEF Inv
<1>3. q \in RequestStates
  BY <1>2, SlugSaysBoth DEF RequestStates, Row
<1>4. /\ reqs'[r] = q /\ reqs' \in [Requests -> RequestStates]
      /\ \A t \in Requests \ {r} : reqs'[t] = reqs[t]
  BY <1>1, <1>3, Moved DEF Inv
<1>5. TypeOK'
  BY <1>4 DEF CreateName, Inv, TypeOK
<1>6. RowsInv'
  BY DEF CreateName, Inv, RowsInv, SlugNamesItsRow, IdsAreDistinct, BookedMovieKeepsSlug, Named
<1>7. LockIsCreators'
  BY <1>1, <1>4 DEF CreateName, Inv, RequestsInv, LockIsCreators, IsCreating
<1>8. NewIdIsLargest'
  BY <1>1, <1>4 DEF CreateName, Inv, RequestsInv, NewIdIsLargest, IsCreating
<1>9. NewSlugNamesItsRow' /\ UpdateKeepsId' /\ AnswerIsTheMovieAsked'
  BY <1>4 DEF Inv, RequestsInv, NewSlugNamesItsRow, UpdateKeepsId, AnswerIsTheMovieAsked
<1>10. QED
  BY <1>5, <1>6, <1>7, <1>8, <1>9 DEF Inv, RequestsInv

LEMMA CommitStep ==
  ASSUME Inv, NEW r \in Requests, CreateCommit(r)
  PROVE  Inv'
<1> DEFINE new == reqs[r].row
<1>1. reqs[r].pc = "named" /\ Becomes(r, Idle) /\ rows' = rows \cup {new} /\ lock' = NoRequest
  BY DEF CreateCommit
<1>2. new \in Row /\ new.slug = movie_slug(new.title, new.id)
  BY <1>1, Shapes DEF Inv, RequestsInv, NewSlugNamesItsRow
<1>3. \A row \in rows : row.id < new.id /\ row.id \in Ids
  BY <1>1 DEF Inv, TypeOK, Row, RequestsInv, NewIdIsLargest, IsCreating
<1>4. /\ reqs'[r] = Idle /\ reqs' \in [Requests -> RequestStates]
      /\ \A t \in Requests \ {r} : reqs'[t] = reqs[t]
  BY <1>1, Moved, EndStates DEF Inv
<1>5. TypeOK'
  BY <1>1, <1>2, <1>4 DEF CreateCommit, Inv, TypeOK
<1>6. RowsInv'
  <2>1. SlugNamesItsRow'
    BY <1>1, <1>2 DEF Inv, RowsInv, SlugNamesItsRow
  <2>2. IdsAreDistinct'
    BY <1>1, <1>2, <1>3 DEF Inv, RowsInv, IdsAreDistinct, Row, Ids
  <2>3. BookedMovieKeepsSlug'
    BY <1>1 DEF CreateCommit, Inv, RowsInv, BookedMovieKeepsSlug, Named
  <2>4. QED
    BY <2>1, <2>2, <2>3 DEF RowsInv
<1>7. \A t \in Requests : ~IsCreating(t)'
  BY <1>1, <1>4 DEF Inv, RequestsInv, LockIsCreators, IsCreating, Idle
<1>8. LockIsCreators' /\ NewIdIsLargest'
  BY <1>1, <1>7, NoRequestAssumption DEF LockIsCreators, NewIdIsLargest
<1>9. NewSlugNamesItsRow' /\ UpdateKeepsId' /\ AnswerIsTheMovieAsked'
  BY <1>4 DEF Inv, RequestsInv, NewSlugNamesItsRow, UpdateKeepsId, AnswerIsTheMovieAsked, Idle
<1>10. QED
  BY <1>5, <1>6, <1>8, <1>9 DEF Inv, RequestsInv

-----------------------------------------------------------------------------
(***************************************************************************)
(* update.                                                                 *)
(***************************************************************************)

\* A request moves that does not create, and the table stays.
LEMMA QuietStep ==
  ASSUME Inv, NEW r \in Requests, NEW q, Becomes(r, q), q \in RequestStates,
         ~IsCreating(r), q.pc \notin {"inserted", "named"},
         UNCHANGED <<rows, booked, lock>>,
         q.pc \in {"loaded", "written"} => q.new_slug = movie_slug(q.title, q.slug[2]),
         q.pc = "answered" /\ q.status = "updated" =>
           /\ q.row.id = q.slug[2]
           /\ slugify_title(q.row.title) = slugify_title(q.title)
  PROVE  Inv'
<1>1. /\ reqs'[r] = q /\ reqs' \in [Requests -> RequestStates]
      /\ \A t \in Requests \ {r} : reqs'[t] = reqs[t]
  BY Moved DEF Inv
<1>2. TypeOK'
  BY <1>1 DEF Inv, TypeOK
<1>3. RowsInv'
  BY DEF Inv, RowsInv, SlugNamesItsRow, IdsAreDistinct, BookedMovieKeepsSlug, Named
<1>4. LockIsCreators' /\ NewIdIsLargest' /\ NewSlugNamesItsRow'
  BY <1>1 DEF Inv, RequestsInv, LockIsCreators, IsCreating, NewIdIsLargest, NewSlugNamesItsRow
<1>5. UpdateKeepsId' /\ AnswerIsTheMovieAsked'
  BY <1>1 DEF Inv, RequestsInv, UpdateKeepsId, AnswerIsTheMovieAsked
<1>6. QED
  BY <1>2, <1>3, <1>4, <1>5 DEF Inv, RequestsInv

\* Whoever holds the lock is creating.
LEMMA NotCreating ==
  ASSUME Inv, NEW r \in Requests, Ready(r) \/ lock = NoRequest
  PROVE  ~IsCreating(r)
BY NoRequestAssumption DEF Inv, RequestsInv, LockIsCreators, IsCreating, Ready

LEMMA LoadStep ==
  ASSUME Inv, NEW r \in Requests, NEW slug \in Slugs, NEW title \in Titles, NEW time \in Times,
         UpdateLoad(r, slug, title, time)
  PROVE  Inv'
<1>1. ~IsCreating(r)
  BY NotCreating DEF UpdateLoad
<1>2. CASE Becomes(r, NotFound)
  BY <1>1, <1>2, QuietStep, EndStates DEF UpdateLoad, NotFound
<1>3. ASSUME NEW row \in Named(slug),
             Becomes(r, [pc |-> "loaded", slug |-> slug,
                         new_slug |-> movie_slug(title, row.id),
                         title |-> title, time |-> time])
      PROVE  Inv'
  <2> DEFINE q == [pc |-> "loaded", slug |-> slug, new_slug |-> movie_slug(title, row.id),
                   title |-> title, time |-> time]
  <2>1. row \in rows /\ row.id \in Ids /\ slug[2] = row.id
    BY RowOfSlug DEF Inv, RowsInv, TypeOK, Row
  <2>2. q \in RequestStates
    BY <2>1, SlugSaysBoth DEF RequestStates
  <2>3. q.new_slug = movie_slug(q.title, q.slug[2])
    BY <2>1
  <2>4. QED
    BY <1>1, <1>3, <2>2, <2>3, QuietStep DEF UpdateLoad
<1>4. QED
  BY <1>2, <1>3 DEF UpdateLoad

\* The rows that an UPDATE writes keep their ids, and their slug is the new one.
LEMMA WrittenRow ==
  ASSUME Inv, NEW r \in Requests, reqs[r].pc = "loaded", NEW row \in Named(reqs[r].slug)
  PROVE  /\ Rewritten(row, reqs[r]) \in Row
         /\ Rewritten(row, reqs[r]).id = row.id
         /\ Rewritten(row, reqs[r]).slug = reqs[r].new_slug
         /\ reqs[r].new_slug = movie_slug(reqs[r].title, row.id)
         /\ Rewritten(row, reqs[r]).title = reqs[r].title
<1>1. /\ reqs[r].new_slug \in Slugs /\ reqs[r].title \in Titles /\ reqs[r].time \in Times
  BY Shapes DEF Inv
<1>2. row \in Row /\ row.id \in Ids /\ reqs[r].slug[2] = row.id
  BY RowOfSlug DEF Inv, RowsInv, TypeOK, Row
<1>3. reqs[r].new_slug = movie_slug(reqs[r].title, row.id)
  BY <1>2 DEF Inv, RequestsInv, UpdateKeepsId
<1>4. QED
  BY <1>1, <1>2, <1>3 DEF Rewritten, Row

LEMMA WriteStep ==
  ASSUME Inv, NEW r \in Requests, UpdateWrite(r)
  PROVE  Inv'
<1> DEFINE q == reqs[r]
<1>1. q.pc = "loaded" /\ lock = NoRequest /\ booked' = booked /\ lock' = lock
  BY DEF UpdateWrite
<1>2. ~IsCreating(r)
  BY <1>1, NotCreating
<1>3. CASE rows' = rows /\ (Becomes(r, NotFound) \/ Becomes(r, Failed))
  <2>1. \A e \in {NotFound, Failed} :
          e \in RequestStates /\ e.pc = "answered" /\ e.status # "updated"
    BY EndStates DEF NotFound, Failed
  <2>2. QED
    BY <1>1, <1>2, <1>3, <2>1, QuietStep
<1>4. CASE /\ ~Refused(q.slug, q.new_slug)
           /\ rows' = (rows \ Named(q.slug)) \cup {Rewritten(row, q) : row \in Named(q.slug)}
           /\ Becomes(r, [q EXCEPT !.pc = "written"])
  <2> DEFINE w == [q EXCEPT !.pc = "written"]
  <2>1. /\ w \in RequestStates /\ w.pc = "written" /\ w.slug = q.slug
        /\ w.new_slug = q.new_slug /\ w.title = q.title
    BY <1>1, Shapes DEF Inv, RequestStates
  <2>2. /\ reqs'[r] = w /\ reqs' \in [Requests -> RequestStates]
        /\ \A t \in Requests \ {r} : reqs'[t] = reqs[t]
    BY <1>4, <2>1, Moved DEF Inv
  <2>3. \A new \in rows' :
          \/ new \in rows /\ new \notin Named(q.slug)
          \/ \E row \in rows : /\ row \in Named(q.slug) /\ new \in Row
                               /\ new.id = row.id /\ new.slug = q.new_slug
                               /\ new.slug = movie_slug(new.title, new.id)
                               /\ new = Rewritten(row, q)
    BY <1>1, <1>4, WrittenRow DEF Named
  <2>4. TypeOK'
    BY <1>1, <2>2, <2>3 DEF Inv, TypeOK
  <2>5. SlugNamesItsRow'
    BY <2>3 DEF Inv, RowsInv, SlugNamesItsRow
  <2>6. IdsAreDistinct'
    BY <2>3 DEF Inv, RowsInv, IdsAreDistinct
  <2>7. BookedMovieKeepsSlug'
    <3>1. ASSUME NEW slug \in booked PROVE \E new \in rows' : new.slug = slug
      <4>1. PICK row \in rows : row.slug = slug
        BY DEF Inv, RowsInv, BookedMovieKeepsSlug, Named
      <4>2. CASE slug # q.slug
        BY <1>4, <4>1, <4>2 DEF Named
      <4>3. CASE slug = q.slug
        <5>1. q.new_slug = slug
          BY <1>4, <4>3 DEF Refused
        <5>2. row \in Named(q.slug) /\ Rewritten(row, q) \in rows'
          BY <1>4, <4>1, <4>3 DEF Named
        <5>3. QED
          BY <1>1, <5>1, <5>2, WrittenRow
      <4>4. QED
        BY <4>2, <4>3
    <3>2. QED
      BY <1>1, <3>1 DEF BookedMovieKeepsSlug, Named
  <2>8. \A t \in Requests : ~IsCreating(t) /\ ~IsCreating(t)'
    BY <1>1, <2>1, <2>2, NotCreating DEF IsCreating
  <2>9. LockIsCreators' /\ NewIdIsLargest'
    BY <1>1, <2>8, NoRequestAssumption DEF LockIsCreators, NewIdIsLargest
  <2>10. NewSlugNamesItsRow' /\ UpdateKeepsId' /\ AnswerIsTheMovieAsked'
    <3> HIDE DEF w
    <3>1. NewSlugNamesItsRow' /\ AnswerIsTheMovieAsked'
      BY <2>1, <2>2 DEF Inv, RequestsInv, NewSlugNamesItsRow, AnswerIsTheMovieAsked
    <3>2. UpdateKeepsId'
      BY <1>1, <2>1, <2>2 DEF Inv, RequestsInv, UpdateKeepsId
    <3>3. QED
      BY <3>1, <3>2
  <2>11. QED
    BY <2>4, <2>5, <2>6, <2>7, <2>9, <2>10 DEF Inv, RowsInv, RequestsInv
<1>5. QED
  BY <1>3, <1>4 DEF UpdateWrite

LEMMA ReadStep ==
  ASSUME Inv, NEW r \in Requests, UpdateRead(r)
  PROVE  Inv'
<1>1. reqs[r].pc = "written" /\ ~IsCreating(r)
  BY DEF UpdateRead, IsCreating
<1>2. CASE Becomes(r, Failed)
  BY <1>1, <1>2, QuietStep, EndStates DEF UpdateRead, Failed
<1>3. ASSUME NEW row \in Named(reqs[r].new_slug),
             Becomes(r, [pc |-> "answered", status |-> "updated",
                         slug |-> reqs[r].slug, title |-> reqs[r].title, row |-> row])
      PROVE  Inv'
  <2> DEFINE q == [pc |-> "answered", status |-> "updated",
                   slug |-> reqs[r].slug, title |-> reqs[r].title, row |-> row]
  <2>1. /\ row \in Row /\ reqs[r].new_slug[1] = slugify_title(row.title)
        /\ reqs[r].new_slug[2] = row.id
    BY RowOfSlug DEF Inv, RowsInv, TypeOK
  <2>2. reqs[r].slug \in Slugs /\ reqs[r].title \in Titles /\ reqs[r].slug[2] \in Ids
    BY <1>1, Shapes DEF Inv, Slugs
  <2>3. reqs[r].new_slug = movie_slug(reqs[r].title, reqs[r].slug[2])
    BY <1>1 DEF Inv, RequestsInv, UpdateKeepsId
  <2>4. row.id = reqs[r].slug[2] /\ slugify_title(row.title) = slugify_title(reqs[r].title)
    BY <2>1, <2>2, <2>3, SlugSaysBoth
  <2>5. q \in RequestStates
    BY <2>1, <2>2 DEF RequestStates
  <2>6. QED
    BY <1>1, <1>3, <2>4, <2>5, QuietStep DEF UpdateRead
<1>4. QED
  BY <1>2, <1>3 DEF UpdateRead

-----------------------------------------------------------------------------
(***************************************************************************)
(* Deleting, failing and booking.                                          *)
(***************************************************************************)
LEMMA DeleteStep ==
  ASSUME Inv, NEW r \in Requests, NEW slug \in Slugs, Delete(r, slug)
  PROVE  Inv'
<1>1. Ready(r) /\ lock = NoRequest /\ booked' = booked /\ lock' = lock
  BY DEF Delete
<1>2. lock # r
  BY <1>1, NoRequestAssumption
<1>3. CASE rows' = rows /\ (Becomes(r, NotFound) \/ Becomes(r, Failed))
  BY <1>1, <1>2, <1>3, EndStep
<1>4. CASE slug \notin booked /\ Becomes(r, Idle) /\ rows' = rows \ Named(slug)
  <2>1. /\ reqs'[r] = Idle /\ reqs' \in [Requests -> RequestStates]
        /\ \A t \in Requests \ {r} : reqs'[t] = reqs[t]
    BY <1>4, Moved, EndStates DEF Inv
  <2>2. TypeOK'
    BY <1>1, <1>4, <2>1 DEF Inv, TypeOK
  <2>3. RowsInv'
    BY <1>1, <1>4
       DEF Inv, RowsInv, SlugNamesItsRow, IdsAreDistinct, BookedMovieKeepsSlug, Named
  <2>4. \A t \in Requests : ~IsCreating(t) /\ ~IsCreating(t)'
    BY <1>1, <2>1, NotCreating DEF IsCreating, Idle
  <2>5. LockIsCreators' /\ NewIdIsLargest'
    BY <1>1, <2>4, NoRequestAssumption DEF LockIsCreators, NewIdIsLargest
  <2>6. NewSlugNamesItsRow' /\ UpdateKeepsId' /\ AnswerIsTheMovieAsked'
    BY <2>1 DEF Inv, RequestsInv, NewSlugNamesItsRow, UpdateKeepsId, AnswerIsTheMovieAsked, Idle
  <2>7. QED
    BY <2>2, <2>3, <2>5, <2>6 DEF Inv, RequestsInv
<1>5. QED
  BY <1>3, <1>4 DEF Delete

LEMMA FailStep ==
  ASSUME Inv, NEW r \in Requests, Fail(r)
  PROVE  Inv'
BY EndStep DEF Fail

LEMMA BookStep ==
  ASSUME Inv, NEW slug \in Slugs, Book(slug)
  PROVE  Inv'
<1>1. TypeOK' /\ RequestsInv'
  BY DEF Book, Inv, TypeOK, RequestsInv, LockIsCreators, IsCreating, NewIdIsLargest,
         NewSlugNamesItsRow, UpdateKeepsId, AnswerIsTheMovieAsked
<1>2. RowsInv'
  BY DEF Book, Inv, RowsInv, SlugNamesItsRow, IdsAreDistinct, BookedMovieKeepsSlug, Named
<1>3. QED
  BY <1>1, <1>2 DEF Inv

-----------------------------------------------------------------------------
LEMMA InvInit == Init => Inv
<1> SUFFICES ASSUME Init PROVE Inv
  OBVIOUS
<1>1. TypeOK
  BY EndStates DEF Init, TypeOK
<1>2. RowsInv
  BY DEF Init, RowsInv, SlugNamesItsRow, IdsAreDistinct, BookedMovieKeepsSlug
<1>3. RequestsInv
  BY NoRequestAssumption
     DEF Init, RequestsInv, LockIsCreators, IsCreating, NewIdIsLargest, NewSlugNamesItsRow,
         UpdateKeepsId, AnswerIsTheMovieAsked, Idle
<1>4. QED
  BY <1>1, <1>2, <1>3 DEF Inv

LEMMA InvStep == Inv /\ [Next]_vars => Inv'
<1> SUFFICES ASSUME Inv, [Next]_vars PROVE Inv'
  OBVIOUS
<1>1. ASSUME NEW r \in Requests, NEW title \in Titles, NEW time \in Times,
             \/ CreateInsert(r, title, time)
             \/ \E slug \in Slugs : UpdateLoad(r, slug, title, time)
      PROVE  Inv'
  BY <1>1, InsertStep, LoadStep
<1>2. ASSUME NEW r \in Requests, CreateName(r) \/ CreateCommit(r) PROVE Inv'
  BY <1>2, NameStep, CommitStep
<1>3. ASSUME NEW r \in Requests, UpdateWrite(r) \/ UpdateRead(r) PROVE Inv'
  BY <1>3, WriteStep, ReadStep
<1>4. ASSUME NEW r \in Requests, Fail(r) \/ \E slug \in Slugs : Delete(r, slug) PROVE Inv'
  BY <1>4, FailStep, DeleteStep
<1>5. ASSUME NEW slug \in Slugs, Book(slug) PROVE Inv'
  BY <1>5, BookStep
<1>6. CASE UNCHANGED vars
  BY <1>6
     DEF vars, Inv, TypeOK, RowsInv, SlugNamesItsRow, IdsAreDistinct, BookedMovieKeepsSlug, Named,
         RequestsInv, LockIsCreators, IsCreating, NewIdIsLargest, NewSlugNamesItsRow,
         UpdateKeepsId, AnswerIsTheMovieAsked
<1>7. QED
  BY <1>1, <1>2, <1>3, <1>4, <1>5, <1>6 DEF Next

LEMMA SpecInv == Spec => []Inv
<1>1. QED
  BY InvInit, InvStep, PTL DEF Spec

(***************************************************************************)
(* The table and the requests keep their types.                            *)
(***************************************************************************)
THEOREM TypeCorrect == Spec => []TypeOK
<1>1. Inv => TypeOK
  BY DEF Inv
<1>2. QED
  BY <1>1, SpecInv, PTL

(***************************************************************************)
(* Every visible slug is made of its row's own title and id, although      *)
(* update makes it of an id it read before (movies.rs:194-206).            *)
(***************************************************************************)
THEOREM SlugsCorrect == Spec => []SlugNamesItsRow
<1>1. Inv => SlugNamesItsRow
  BY DEF Inv, RowsInv
<1>2. QED
  BY <1>1, SpecInv, PTL

(***************************************************************************)
(* No two movies share an id or a slug, whatever ids are handed out again. *)
(***************************************************************************)
THEOREM RowsCorrect == Spec => []RowsAreDistinct
<1>1. Inv => RowsAreDistinct
  <2> SUFFICES ASSUME Inv, NEW a \in rows, NEW b \in rows, a.id = b.id \/ a.slug = b.slug
               PROVE  a = b
    BY DEF RowsAreDistinct
  <2>1. a \in Named(a.slug) /\ b \in Named(b.slug)
    BY DEF Named
  <2>2. a.slug[2] = a.id /\ b.slug[2] = b.id
    BY <2>1, RowOfSlug DEF Inv, RowsInv
  <2>3. QED
    BY <2>2 DEF Inv, RowsInv, IdsAreDistinct
<1>2. QED
  BY <1>1, SpecInv, PTL

(***************************************************************************)
(* The UNIQUE constraint on slugs never fails a rename or a new movie.     *)
(***************************************************************************)
THEOREM CollisionFree == Spec => []SlugsNeverCollide
<1>1. Inv => SlugsNeverCollide
  <2> SUFFICES ASSUME Inv, NEW r \in Requests
               PROVE  /\ reqs[r].pc = "loaded" => ~Collides(reqs[r].slug, reqs[r].new_slug)
                      /\ reqs[r].pc = "inserted" =>
                           Named(movie_slug(reqs[r].row.title, reqs[r].row.id)) = {}
    BY DEF SlugsNeverCollide
  <2>1. ASSUME reqs[r].pc = "loaded", NEW a \in Named(reqs[r].slug),
               NEW b \in Named(reqs[r].new_slug)
        PROVE  b.slug = reqs[r].slug
    <3>1. a.id = reqs[r].slug[2] /\ b.id = reqs[r].new_slug[2] /\ a \in rows /\ b \in rows
      BY RowOfSlug DEF Inv, RowsInv
    <3>2. reqs[r].title \in Titles /\ a.id \in Ids
      BY <2>1, <3>1, Shapes DEF Inv, TypeOK, Row
    <3>3. reqs[r].new_slug = movie_slug(reqs[r].title, a.id)
      BY <2>1, WrittenRow
    <3>4. a = b
      BY <3>1, <3>2, <3>3, SlugSaysBoth DEF Inv, RowsInv, IdsAreDistinct
    <3>5. QED
      BY <3>4 DEF Named
  <2>2. ASSUME reqs[r].pc = "inserted",
               NEW row \in Named(movie_slug(reqs[r].row.title, reqs[r].row.id))
        PROVE  FALSE
    <3>1. reqs[r].row.title \in Titles /\ reqs[r].row.id \in Ids
      BY <2>2, Shapes DEF Inv
    <3>2. row.id = reqs[r].row.id /\ row \in rows
      BY <3>1, RowOfSlug, SlugSaysBoth DEF Inv, RowsInv
    <3>3. row.id < reqs[r].row.id
      BY <2>2, <3>2 DEF Inv, RequestsInv, NewIdIsLargest, IsCreating
    <3>4. QED
      BY <3>1, <3>2, <3>3 DEF Ids
  <2>3. QED
    BY <2>1, <2>2 DEF Collides
<1>2. QED
  BY <1>1, SpecInv, PTL

(***************************************************************************)
(* A movie with bookings stays under the slug they refer to, also through  *)
(* an update that was under way when the first of them was made.           *)
(***************************************************************************)
THEOREM BookedCorrect == Spec => []BookedMovieKeepsSlug
<1>1. Inv => BookedMovieKeepsSlug
  BY DEF Inv, RowsInv
<1>2. QED
  BY <1>1, SpecInv, PTL

(***************************************************************************)
(* The answer of an update is the movie it was for, read back by a slug    *)
(* that others may have renamed or deleted in between.                     *)
(***************************************************************************)
THEOREM AnswersCorrect == Spec => []AnswerIsTheMovieAsked
<1>1. Inv => AnswerIsTheMovieAsked
  BY DEF Inv, RequestsInv
<1>2. QED
  BY <1>1, SpecInv, PTL
=============================================================================
