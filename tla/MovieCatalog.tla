---------------------------- MODULE MovieCatalog ----------------------------
(***************************************************************************)
(* Table movies and the administrator's requests on it                     *)
(* (db/src/entities/movies.rs, web/src/controllers/movies.rs), which run   *)
(* concurrently.  A slug is computed from a title and the row's id, is     *)
(* what requests and bookings name a movie by, and changes with the title. *)
(*                                                                         *)
(* create is a transaction: from its INSERT to its COMMIT it has SQLite's  *)
(* write lock, and only it sees its row.  update is three statements with  *)
(* no transaction around them, so anything may happen between any two.     *)
(***************************************************************************)
EXTENDS Integers, FiniteSets

CONSTANTS
  Stems,      \* what slugify_title makes of a title
  Spellings,  \* what it drops: case and punctuation
  Times,      \* the columns a slug does not depend on
  MaxId,      \* bound: ids a run of the model may hand out
  Requests,   \* requests a server runs at once
  NoRequest   \* nobody has the write lock

VARIABLES
  rows,       \* committed rows of movies
  booked,     \* slugs that rows of bookings refer to
  lock,       \* the request with a write transaction open, or NoRequest
  reqs        \* reqs[r]: where request r is, or its answer

vars == <<rows, booked, lock, reqs>>

ASSUME MaxIdAssumption == MaxId \in Nat
ASSUME NoRequestAssumption == NoRequest \notin Requests

Titles == [stem : Stems, spelling : Spellings]
Ids == 1..MaxId

slugify_title(title) == title.stem
\* Mutants: the slug is made without the id, or without the title.
movie_slugNoId(title, id) == <<slugify_title(title), 1>>
movie_slugNoTitle(title, id) == <<CHOOSE stem \in Stems : TRUE, id>>

movie_slug(title, id) == <<slugify_title(title), id>>

Slugs == Stems \X Ids
Row == [id : Ids, slug : Slugs, title : Titles, time : Times]

Idle == [pc |-> "idle"]
Failed == [pc |-> "answered", status |-> "failed"]
NotFound == [pc |-> "answered", status |-> "not_found"]

RequestStates ==
  {Idle, Failed, NotFound}
    \cup [pc : {"inserted"}, row : [id : Ids, title : Titles, time : Times]]
    \cup [pc : {"named"}, row : Row]
    \cup [pc : {"loaded", "written"}, slug : Slugs, new_slug : Slugs,
          title : Titles, time : Times]
    \cup [pc : {"answered"}, status : {"updated"},
          slug : Slugs, title : Titles, row : Row]

TypeOK ==
  /\ rows \in SUBSET Row
  /\ booked \in SUBSET Slugs
  /\ lock \in Requests \cup {NoRequest}
  /\ reqs \in [Requests -> RequestStates]

Init ==
  /\ rows = {} /\ booked = {} /\ lock = NoRequest
  /\ reqs = [r \in Requests |-> Idle]

Ready(r) == reqs[r].pc \in {"idle", "answered"}
Becomes(r, state) == reqs' = [reqs EXCEPT ![r] = state]
Named(slug) == {row \in rows : row.slug = slug}

-----------------------------------------------------------------------------
(***************************************************************************)
(* create.  The id column has no AUTOINCREMENT: SQLite hands out one more  *)
(* than the largest id in the table, so the id of a deleted movie may come *)
(* back.  Until the UPDATE the row has a unique temporary slug.            *)
(***************************************************************************)
\* Mutant: rows are counted.
NextIdCounted == 1 + Cardinality(rows)

NextId == 1 + (CHOOSE n \in 0..MaxId :
                 /\ \A row \in rows : row.id <= n
                 /\ n = 0 \/ \E row \in rows : row.id = n)

CreateInsert(r, title, time) ==
  /\ Ready(r) /\ lock = NoRequest /\ NextId \in Ids
  /\ Becomes(r, [pc |-> "inserted",
                 row |-> [id |-> NextId, title |-> title, time |-> time]])
  /\ lock' = r
  /\ UNCHANGED <<rows, booked>>

CreateName(r) ==
  LET new == reqs[r].row IN
  /\ reqs[r].pc = "inserted" /\ Named(movie_slug(new.title, new.id)) = {}
  /\ Becomes(r, [pc |-> "named",
                 row |-> [id |-> new.id, slug |-> movie_slug(new.title, new.id),
                          title |-> new.title, time |-> new.time]])
  /\ UNCHANGED <<rows, booked, lock>>

CreateCommit(r) ==
  /\ reqs[r].pc = "named"
  /\ rows' = rows \cup {reqs[r].row}
  /\ Becomes(r, Idle)
  /\ lock' = NoRequest
  /\ UNCHANGED booked

-----------------------------------------------------------------------------
(***************************************************************************)
(* update: the id to build the new slug from is read by one statement and  *)
(* used by another, whose WHERE clause names the movie by slug again.      *)
(***************************************************************************)
UpdateLoad(r, slug, title, time) ==
  /\ Ready(r)
  /\ IF Named(slug) = {} THEN Becomes(r, NotFound)
     ELSE \E row \in Named(slug) :
            Becomes(r, [pc |-> "loaded", slug |-> slug,
                        new_slug |-> movie_slug(title, row.id),
                        title |-> title, time |-> time])
  /\ UNCHANGED <<rows, booked, lock>>

\* SQLite refuses a slug that is taken, and to rename a movie with bookings.
Collides(slug, new_slug) ==
  Named(slug) # {} /\ \E row \in Named(new_slug) : row.slug # slug

\* Mutant: foreign_keys is off.
RefusedIfTaken(slug, new_slug) == Collides(slug, new_slug)

Refused(slug, new_slug) ==
  Collides(slug, new_slug) \/ (slug \in booked /\ new_slug # slug)

\* Mutants: the row keeps its slug, or loses a column.
RewrittenInPlace(row, q) ==
  [id |-> row.id, slug |-> q.slug, title |-> q.title, time |-> q.time]
RewrittenShort(row, q) ==
  [id |-> row.id, slug |-> q.new_slug, title |-> q.title]

Rewritten(row, q) ==
  [id |-> row.id, slug |-> q.new_slug, title |-> q.title, time |-> q.time]

UpdateWrite(r) ==
  LET q == reqs[r] IN
  /\ q.pc = "loaded" /\ lock = NoRequest
  /\ IF Named(q.slug) = {}
       THEN Becomes(r, NotFound) /\ UNCHANGED rows
     ELSE IF Refused(q.slug, q.new_slug)
       THEN Becomes(r, Failed) /\ UNCHANGED rows
     ELSE /\ rows' = (rows \ Named(q.slug)) \cup
               {Rewritten(row, q) : row \in Named(q.slug)}
          /\ Becomes(r, [q EXCEPT !.pc = "written"])
  /\ UNCHANGED <<booked, lock>>

\* The SELECT after it goes by the new slug: 500 if the movie has moved on by then.
UpdateRead(r) ==
  LET q == reqs[r] IN
  /\ q.pc = "written"
  /\ IF Named(q.new_slug) = {} THEN Becomes(r, Failed)
     ELSE \E row \in Named(q.new_slug) :
            Becomes(r, [pc |-> "answered", status |-> "updated",
                        slug |-> q.slug, title |-> q.title, row |-> row])
  /\ UNCHANGED <<rows, booked, lock>>

-----------------------------------------------------------------------------
Delete(r, slug) ==
  /\ Ready(r) /\ lock = NoRequest
  /\ IF Named(slug) = {} THEN Becomes(r, NotFound) /\ UNCHANGED rows
     ELSE IF slug \in booked THEN Becomes(r, Failed) /\ UNCHANGED rows
     ELSE Becomes(r, Idle) /\ rows' = rows \ Named(slug)
  /\ UNCHANGED <<booked, lock>>

\* The write lock is not had in time, a statement fails or the task is dropped.
Fail(r) ==
  /\ ~Ready(r)
  /\ Becomes(r, Failed)
  /\ lock' = IF lock = r THEN NoRequest ELSE lock
  /\ UNCHANGED <<rows, booked>>

\* A checkout books a seat of the movie (module Checkout).
Book(slug) ==
  /\ lock = NoRequest /\ Named(slug) # {}
  /\ booked' = booked \cup {slug}
  /\ UNCHANGED <<rows, lock, reqs>>

Next ==
  \/ \E r \in Requests :
       \/ \E title \in Titles, time \in Times :
            \/ CreateInsert(r, title, time)
            \/ \E slug \in Slugs : UpdateLoad(r, slug, title, time)
       \/ CreateName(r) \/ CreateCommit(r)
       \/ UpdateWrite(r) \/ UpdateRead(r)
       \/ \E slug \in Slugs : Delete(r, slug)
       \/ Fail(r)
  \/ \E slug \in Slugs : Book(slug)

Spec == Init /\ [][Next]_vars

-----------------------------------------------------------------------------
(***************************************************************************)
(* A visible row's slug is made of its own title and id (movies.rs:31-41), *)
(* although update computes the slug from an id read earlier, and the row  *)
(* it then writes may have been renamed or deleted and made anew since.    *)
(***************************************************************************)
SlugNamesItsRow ==
  \A row \in rows : row.slug = movie_slug(row.title, row.id)

\* No two visible movies share an id or a slug, ids being handed out again.
RowsAreDistinct ==
  \A a, b \in rows : a.id = b.id \/ a.slug = b.slug => a = b

(***************************************************************************)
(* Neither a rename nor a new movie ever runs into the slug of another     *)
(* one, whatever was renamed, deleted or made since the id was read: the   *)
(* UNIQUE column is never what makes a request fail (movies.rs:31).        *)
(***************************************************************************)
SlugsNeverCollide ==
  \A r \in Requests :
    /\ reqs[r].pc = "loaded" => ~Collides(reqs[r].slug, reqs[r].new_slug)
    /\ reqs[r].pc = "inserted" =>
         Named(movie_slug(reqs[r].row.title, reqs[r].row.id)) = {}

\* A movie with bookings is there under the slug they refer to.
BookedMovieKeepsSlug == \A slug \in booked : Named(slug) # {}

(***************************************************************************)
(* The movie an update answers with is the one the request named, under    *)
(* the title it asked for up to spelling, even if the row has been written *)
(* again before it is read back.                                           *)
(***************************************************************************)
AnswerIsTheMovieAsked ==
  \A r \in Requests :
    reqs[r].pc = "answered" /\ reqs[r].status = "updated" =>
      /\ reqs[r].row.id = reqs[r].slug[2]
      /\ slugify_title(reqs[r].row.title) = slugify_title(reqs[r].title)
=============================================================================
