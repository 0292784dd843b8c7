# The cinema booking server in TLA+

This directory is a verification project for the cinema booking application in
`src/`: TLA+ modules translated from its source, TLC runs that check them on
small instances, and TLAPS proofs of the results that matter most for every
size of cinema, number of users, length of hold and lifetime of session.

Paths below are relative to `src/`.

## 1. The system

One Rust web server (axum) sells cinema seats.  It keeps its records in SQLite
and its *seat holds* in Redis.  A user holds a seat (a Redis key with a TTL),
and later checks out: the hold is consumed and a row of `bookings` is written.
No transaction spans the two stores.

| component | state | operations | code |
|---|---|---|---|
| Redis seat-hold store | `seat:m:s` (a session, with TTL), `userhold:m:u` (a seat, with TTL) | `hold`, `confirm` (one Lua script each), `list_held_sessions_for_movie` (SCAN + GETs) | `crates/store-adapter-redis/src/redis_store.rs` |
| seat-hold port | none (traits) | the promises the store is to keep | `crates/store-port/src/booking.rs` |
| booking controllers | local variables of a request | `hold`, `checkout` (three awaits), `list_by_movie` | `web/src/controllers/bookings.rs` |
| booking and user tables | `bookings`, `users`, foreign keys to `movies.slug` and `users.uuid` | `create`, `upsert_for_auth_subject`, `list_by_movie_slug` | `db/src/entities/{bookings,users}.rs`, `db/migrations` |
| seat map | none of its own: a merge of two reads | `seat_map_grid_html`, `merge_movie_seats` | `web/src/seat_states.rs`, `web/src/views/mod.rs` |
| seat-booking page | the grid a browser shows | click, poll, snapshot after a click | `web/static/seat-booking.js`, `web/templates/cinema.html` |
| movie catalog | `movies` (id, slug, title, ...) | `create` (a transaction), `update` (three statements), `delete` | `db/src/entities/movies.rs`, `web/src/controllers/movies.rs` |
| tasks | `tasks` | `create`, `create_batch` (a transaction), `update`, `delete` | `db/src/entities/tasks.rs`, `web/src/controllers/tasks.rs` |
| SQLite access, errors | pool, transactions, `db::Error` | `transaction`, `connect_pool` | `db/src/lib.rs`, `web/src/error.rs` |
| database CLI | the database file, `_sqlx_migrations` | `drop`, `create`, `migrate`, `reset`, `seed`, `prepare` | `cli/src/bin/db.rs` |
| login, signup, logout | none on the server; the browser's HttpOnly cookie holds a signed token | `login_post` (three awaits), `signup_post`, `logout_post` | `web/src/views/mod.rs`, `crates/auth`, `crates/auth-adapter-trailbase` |
| auth and admin middlewares | the verifier, chosen once at the start | `auth`, `extract_optional_principal`, `require_movie_admin` | `web/src/middlewares/{auth,movie_admin}.rs` |
| configuration | none: environment, files and variables of a starting server | `get_env`, `load_config`, `build_access_token_verifier` | `config/src/lib.rs`, `web/src/state.rs` |
| seat layout | none | `from_flat_idx`, `flat_idx`, `iter_layout_seats` | `web/src/seat_layout.rs` |
| code generator | the project's files and the module lists in them | eight commands | `cli/src/bin/generate.rs` |
| seat-map stream, test support | none that matters outside of them | see section 5 | `web/src/views/mod.rs`, `macros`, `*/test_helpers` |

**Interactions.** Handlers run concurrently on tokio; each `.await` on a store is a
point where anything else may happen.  The controllers call the port's trait,
whose one implementation speaks to Redis.  The views and the page only read; the
page decides what a click asks for, so a stale page turns into a write.  The CLI
works on the database file while a server may have it open.  Accounts are in an identity
server (Trailbase) that the web server asks at login and signup only; every later request is
judged by the token in it, with the key the server read when it started.

**What is hard here.** (1) Two stores and no transaction between them.  (2) Holds that
expire, are replaced, or vanish with Redis while a checkout is under way.  (3) A
second Redis key, the index of a user's hold, that must agree with the seat key
although both age by themselves.  (4) A seat map read in many steps.  (5) Movies
whose name, the slug, is a foreign key and changes with the title, written by
statements without a transaction.  (6) A batch that fails half way.  (7) Tokens that nobody can take back, checked by
a server that may not have the current key, for a page that was rendered with another.
(8) Commands that write several files and may end between any two.
`PROJECT.json` lists every such hazard at its line with the property that is
about it.

**What makes each component right.** Store: one winner per seat, one hold per user and
movie, only the holder can consume, nothing outlives its TTL.  Checkout: a hold is spent
at most once and the booking is for what was held.  Seat map: right about every
seat that did not change while it was read.  Catalog: a slug is true to its row,
never collides, and never leaves a booking without its movie.  Tasks: all or none.
Sessions: a login that succeeds is accepted, a click acts for whom its page shows or for who signed in
beside it, rights end with the token.  Generator: success means complete, and what a failure left can be made good.

## 2. The modules

```
RedisHolds            the keyspace, the two Lua scripts, expiry, loss
     implements SeatHoldPort      what the trait promises
  SeatHoldStore       the store as concurrent callers drive it
  Checkout            requests, Redis and SQLite together
    SeatMap           one film's pages and the snapshots behind them
SeatLayout            the seats of an auditorium, as arithmetic
SeatPage              one page's requests, and the answers that come late
DatabaseAdmin         the database file, its migrations, CLI and servers
MovieCatalog          table movies, statement by statement
TaskTable             table tasks, statement by statement
Configuration         what a starting server makes of its settings
  SessionGate         login, cookie, middlewares and the page they serve
Generator             the project's files under the generator's commands

RedisHoldsProofs      lemmas about the keyspace, cited by the next two
  SeatHoldStoreProofs SeatHoldStore, and that it implements the port
  BookingProofs       Checkout, and SeatMap as a client of it
MovieCatalogProofs, TaskTableProofs, SessionGateProofs
SeatPageProofs        SeatPage and SeatLayout
CliProofs             DatabaseAdmin and Generator
```

Each `MC*.tla` extends one of them, with the symmetry sets its configurations use, if any.

**RedisHolds.**  `seatKey[<<m, s>>]` and `userHold[<<m, u>>]` are the two kinds of key, each
a value with its remaining time, or `NoKey`.  Redis runs a script alone, so
`HoldScript` and `ConfirmScript` are one step each.  `Expiry` ages every key by
one unit; `LoseKeyspace` is a Redis that restarts empty (nothing in the repository asks
for persistence; a server that reloads an RDB snapshot is not modelled).

**SeatHoldPort / SeatHoldStore.**  The port is the abstract specification: per movie a set
of holds, `[seat, user, left]`.  `RedisHolds` maps its live seat keys to it (`HoldsOf`), and
`ImplementsPort` says that whatever uses the keyspace implements the port; the index key is what the
refinement hides.  `SeatHoldStore` is the store with nothing but its callers.

**Checkout.**  `reqs[r]` is a checkout request between its awaits: `idle`, `upserted`
(the user's row is there), `confirmed` (it has the only copy of the session).
`CheckoutDropped` is any end without an answer: a failed call, a client that hangs
up, a server that stops; a server restart is every task dropped in turn.
`ConfirmReplyLost` is the script having run and the reply not arriving.
`MovieCreate`, `MovieDelete` and `MovieRename` are the catalog as foreign keys see it.
`granted` and `origin` are history: which sessions were ever stored, and which
one a booking came from.

**SeatMap.**  A snapshot reads bookings, SCANs, GETs, and then replaces the page.  `ScanSlot` is
Redis's promise for SCAN and nothing more: a key present throughout is returned, any other
may be.  A click (`ClickAvailable`, `ClickYourHold`) asks only for what the page offers;
users outside `Viewers` call the API as they like.  `steady` and `pageSteady` are
history, and exist to say what a torn read still guarantees.

**SeatLayout.**  `iter_layout_seats` as a function from positions to seats; the largest `usize` is a parameter,
so saturation is one case among others.  It has no state: `MCSeatMap`, whose seats these are, assumes
`LayoutHolds` and TLC evaluates that.

**MovieCatalog.**  `create` is a transaction and holds the write lock from its INSERT;
`update` is SELECT, UPDATE, SELECT with no transaction.  A slug is `<<stem, id>>`: `movie_slug`
writes the id after the last hyphen, so two different pairs never make the same
text.  Titles have a stem (what slugifying keeps) and a spelling (what it drops).
Ids are `max + 1`, SQLite's rule for a column without AUTOINCREMENT.

**TaskTable.**  `create_batch` validates and inserts in turn under one transaction; `update` is
UPDATE, then SELECT with no transaction.

**SeatPage.**  `reqs[q]` is one request of the page, from the `fetch` or `@get` that starts it to
the answer that replaces the grid or starts the next request.  `signal` is `$movie_slug`, which the
poll asks for, `hidden` the field `#cinemaMovieSlug`, which a click falls back to, and `grid.slug` the grid's
`data-movie-slug`.  The first film choice (`SelectFilm`) is the whole handler: both are set, the grid is cleared and a snapshot
asked for.  It also overwrites `#checkoutArea` and with it `#bookingFeedback`, so every later choice (`SelectAnother`) throws where
it clears that element: only the signal is new, and the old grid stays, and can be clicked, until a poll
replaces it.  `viewer` is written into the page when it is rendered
and the POST acts for the user of the cookie, so a page may be somebody else's.  A seat is
one record per film here: SeatMap has the snapshot's reads, Checkout the stores.
`film` in a cell, `clicked` and `result` in a request are history.

**DatabaseAdmin.**  `path` is the inode the configured path names; `db[f]` what inode f contains and
records in `_sqlx_migrations`; `procs[p]` a command or a server between its steps.  A server is
a migrator that serves afterwards and whose pool opens connections by path.  `Apply` is one
migration with its record (one transaction in sqlx); a migration somebody else applied after the list was
read fails, as its CREATE TABLE does, and the process ends.  The pool opens connections by path and closes any of
them, the one that ran the migrations included, so after a drop a server may be left with nothing but the file now in place.
`drop` removes the file (`DropFile`), its `-wal` (`DropWal`) and its `-shm` (`DropShm`), alone or as the start of `reset`.
A file made between two of these steps may have its live log removed, or come to share the log that lies `beside` the path
with those who still use the removed file: such files are `torn` (history), and what they contain is left to SQLite (`ApplyTorn`).
`hurt` is history: files a stopped migrator has left.

**Configuration.**  Four layers, `Over` each other in the order of `load_config`: process variables, `.env`, the
environment's toml, `app.toml`.  The files are the repository's, the variables the operator's.
`Boots` is every way a server can come up; what lets it come up and whom it then
believes are the only settings modelled.

**SessionGate.**  A token is its claims, the key it is signed with and the time it has `left`, so no clock
is needed.  `reqs[r]` is a request: a login between its awaits (`LoginPost` calls the
identity server, `IdentityAccepts` is its answer, `LoginVerify` the server's own check of the token, `LoginFinish` the upsert and the
answer), an answer with a `Set-Cookie` on its way, or a handler behind the middlewares.  One browser has
the cookie jar and a page; what other cookies it sends in front of the session's, one without a name (a part without `=`) among
them, is chosen anew for every request.  An answer arrives in the page's tab or beside it, and a page stays open when the server stops.
API clients send the headers in `ClientHeaders`, among them a token of another type; of the browser's tokens they have the
present one only, so an admin's token that somebody keeps after the browser has a newer one is not followed.  `account`, `signing` and what `SignupPost`, `Promote`, `Demote` and
`RotateKey` do to them are the identity server's, external.  `server` is the running server's
verifier and settings, from `Boots`.  `since`, `signedIn`, `joined` and `settled` are history: how long ago a user
was an admin, whether the cookie was set by the server now running, who else was signed in since the page was asked for, and
whether a guest's page is of the server now running and was asked for with cookies that all have names.

**Generator.**  `files[t][n]` is the file for target t and name n: absent, created and not written (`partial`),
or whole from one of two templates.  `declared[t]` is the list of modules in `mod.rs`.  `run` is the command under way:
per file `CreateFile`, `WriteFile` and `Declare`, in the order `cli` gives them, with `Fail` in every state.

## 3. The runs

| run | question | instance | states |
|---|---|---|---|
| `seat_hold_store` | do the scripts keep the port's promise, and does every hold end? | 2 movies, 3 seats, 2 users, TTL 3 | 5,329 |
| `checkout` | is a hold spent at most once, on what was granted, with no dangling row? | 2 movies, 2 seats, 2 users, 2 requests, 3 sessions, 2 bookings, TTL 2 | 128,795 (up to symmetry) |
| `lost_booking` (violated) | does a consumed hold always become a booking? | 1 movie, 1 seat, 2 users | |
| `seat_map` | is a page right about what did not change? | 1 film, 2 seats, 1 viewer and 1 API user, 1 snapshot, TTL 2 | 117,006 (up to symmetry) |
| `double_booking` (violated) | is a seat sold once, if clients do what their page offers? | 1 seat, 2 viewers | |
| `movie_catalog` | slugs true, distinct, never colliding, kept while booked? | 2 stems, 2 spellings, ids up to 2, 2 requests | 21,620 (up to symmetry) |
| `task_table` | all or none, and deleted for good? | 3 uuids, 2 texts, batches of 2, 2 requests | 7,947 (up to symmetry) |
| `task_race` (violated) | can an update end in RowNotFound? | 1 uuid, 2 requests | |
| `seat_page` | does a click mean what was clicked, and does the page come right? | 2 films, 2 requests of the page at once | 851,544 |
| `database_admin` | are migrations applied once, in order, by someone? | 3 migrations, 2 files, 2 processes | 820,736 |
| `session_gate` | is a login accepted, a click the reader's, an admin's right at an end with the token? | 2 users (1 may be admin), 2 keys, 1 request besides the page, life 1, leeway 1 | 835,084 |
| `generator` | does success mean complete, and does a rerun make good? | 1 name, 1 module in place, 6 of the 8 commands | 14,679 |

**Why the bounds are enough to be interesting.**  Three seats and two users let a chain of
replaced holds leave a seat behind for somebody else and come back to it; two movies show
that holds in one do not touch another.  TTL 2 or 3 lets a hold be young, be old and be gone
between any two awaits.  Two checkout requests are the smallest race for one session; three
sessions let a seat be held, lost, held by another and held again.  In the catalog two ids are
enough for an id to be handed out again while an update that read it still runs.  Two seats
let a SCAN pass one, then the other.  Two films and two requests are the smallest page on which an
answer can be for another film than the one chosen, or older than the one before it.  Two files are the
one in place and a removed one that a process still has open; three migrations have a first, a last and
one between.  Two processes are two migrators that race, or one and a drop; both at once, for which it takes three,
are left to the theorems, which have any number.  Two users are one who loses admin rights and one to be mistaken for; two keys are the one a
server has read and the one tokens are signed with now; life 1 and leeway 1 let a token be valid, within the leeway and
beyond it.  A page click and a login need no second request, since the page and the jar are state of their own.
Of the generator, `middleware` and `entity_test_helper` are left out of the instance because they have the form of
`entity`: one file, one declaration; commands for different names share nothing but the list, where a module in place
stands for the others.  The bounds are `SessionIds`, `BookingIds`, `MaxId`, `MaxBatch`, `Requests`
(of the page, the controllers and the session gate), `Files`, `Procs` and `Commands`; they only stop the models from going on.  Symmetry is used in no
run that checks liveness, and only over sets whose members no configuration tells apart.

Deadlock is checked in every run.

**Fairness.**  No user is ever assumed to do anything.  What is assumed:

- `SeatHoldStore`: `WF(Expiry)`, time passes.  `EveryHoldEnds` follows because HOLD_SCRIPT never renews a
  key; the mutant that renews breaks it.
- `SeatPage`: the two-second timer of an open page goes on firing; a handler that is running
  answers, with a grid or an error; an answer that is not lost arrives.  `PageSettles` is about what
  comes after the last disturbance (`<>[][Routine]_vars`): while answers are lost, stores fail, or seats change hands
  nothing is claimed.  Datastar may cancel an element's earlier request when a later one starts; that is `Lost`,
  and the claim supposes that answers arrive within the poll's interval.
- `DatabaseAdmin`: a migrator that is not stopped takes its next step.  Between lists and migrations it waits for
  nobody: a lock it does not get within five seconds is an error and ends it (`Stop`).
- `SessionGate`: `WF(Tick)`, time passes.  `EverySessionEnds` supposes only that the browser is given no
  further token; a server that is never restarted, a user who never logs out and a key that never changes are all allowed.
- `Generator`: a started command takes its next step or ends in an error.  `RerunCompletes` is about a developer who
  keeps repeating a command with `--override` once nothing fails but for files in place (`Refused`).

### What the violated runs show

- `double_booking`: nothing on the server stands between a booked seat and a second booking.
  `hold` asks Redis, where a sold seat has no key, and `bookings` has no UNIQUE
  (movie_slug, seat_uuid).  The page normally hides it, but a snapshot that reads the bookings before
  the INSERT and the keys after the confirm script shows the sold seat as available, and a
  click then sells it again.
- `lost_booking`: the hold is consumed before the row is written.  If the movie was
  renamed (foreign key), the write lock was not had, or the request was dropped, the
  hold is gone and there is no booking.
- `task_race`: an update whose task is deleted between its two statements ends in
  `DbError(RowNotFound)`, which the crate documents as a bug.

More disagreements, and steps with an outcome nobody can have meant, were met on the way.  No run is about them: the code and
its documents promise nothing that they break, or a property would compare constants or restate a library.  The models have
the steps, except the last, and the properties say where they stop.

- `while let Some(key) = iter.next_item().await` (`redis_store.rs:262`) takes a failed cursor
  request for the end of the SCAN, so "all active holds" may be some of them.  `ScanBreaks` of SeatMap is that
  step, and `SteadySeatsAreShown` leaves the pages behind it out.
- `config/environments/development.toml:4` says a PEM variable replaces the key
  file; a path wins over a PEM wherever either comes from (`web/src/state.rs:115`), and that file sets a path.
- From the second film choice on, the handler in `cinema.html:111` throws at `#bookingFeedback`, after setting `$movie_slug`: the
  seats of the film before stay on the page until the next poll.  `ClickIsForItsFilm` holds all the same, since a click reads
  its film from the seat's grid.
- A cookie without a name in front of the session's ends the search for it (`?` at `auth.rs:82`): a user who is signed in is
  shown a guest's page and gets a 401.  `LoginMeansSignedIn` is about cookies with names.
- `cargo db drop` or `reset` under a running server leaves it, once the older connections are closed, with a file it has not
  migrated; `ServingIsMigrated` says nothing of connections made after the removal.  The three removals of `drop` are no one step: a file
  made between them may lose its log.
- The version of a generated migration is the unix time in seconds (`generate.rs:260`), ten digits; those in place are
  dates of fourteen, and sqlx sorts versions as numbers: a generated migration comes first.

## 4. The proofs

Every invariant and action property that a passing run checks is proved, for every value of the constants that
meets their assumptions, and so is the refinement of the port.  Only the liveness properties stay with TLC.

**From which assumptions.**  Of the sets of movies, seats, users, requests, sessions, snapshots, titles, texts, files, names:
nothing, not even that they are finite.  Of the others, what each module states and TLC evaluates:

| module | assumption | because |
|---|---|---|
| RedisHolds | `TTL` is a positive number | `RedisSeatHoldStore::new` refuses zero |
| SeatMap | `Film` is a movie | it is the film whose pages are looked at |
| MovieCatalog, TaskTable | `MaxId`, `MaxBatch` are numbers | bounds of the models, of any size |
| DatabaseAdmin | `Last` is a number | how many migrations the binary embeds |
| SessionGate | `Life`, `Leeway` are numbers; admins are users | lifetimes; who is an account |
| Generator | the modules in place have other names; the commands are the eight | `Names` and `Present` divide them; `enum Command` |
| these, SeatPage | the value for "nothing" (`NoRequest`, `Empty`, `NoFile`, `NoToken`, `Guest`, `NoPage`, `NoFilm`) is nothing real | the `Option`s and empty strings of the code |

**RedisHoldsProofs.**  The invariant of the keyspace is `Sound(S)`: the keys have their types and the
index matches the seats (`IndexMatchesSeats`: a seat key owned by u and u's index key exist
together, name each other and have the same time left).  Whoever uses the store takes a `StoreStep(S)`: HOLD_SCRIPT
for a session in S, CONFIRM_SCRIPT, expiry, loss, or none.  Such a step keeps `Sound` (`StepKeepsSound`),
hands no hold over (`StepTakesNothingOver`) and is a step of the port or leaves the holds as they are (`StepRefines`, from
`HoldRefines`, `ConfirmRefines`, `ExpiryRefines`).  Without the index
neither "one hold per user" nor the refinement is inductive: HOLD_SCRIPT releases only the
seat the index names.  Equal times are part of it because otherwise
one of the keys could go a step before the other.

**SeatHoldStoreProofs.**  Every step is a `StoreStep`; `TypeCorrect`, `IndexCorrect`, `OneHoldPerUser`,
`NoTakeoverCorrect` and `Refinement` follow.

**BookingProofs.**  *Checkout.*  `IInv` is types, `IndexMatchesSeats` and two groups.
*Places*: `SessionIsInOnePlace`, `OneBookingPerSession`, `BookingMatchesGrant`, strengthened by: every
live or consumed session was granted, and a session uuid names one granted session.  The
strengthening is what makes a *fresh* uuid fresh: it is not in Redis, not with a task and not
behind a booking because all of those are granted.  *Rows*: `ReferentialIntegrity`, `ConsumerIsKnown`,
and that a request past its upsert has its user in the table, which is why the user column never
makes the insert fail.  Expiry, loss and a consumed hold only take keys away
(`KeysOnlyGo`), so one argument covers the three.  Every step is also a `StoreStep`, so the whole system, with checkouts that
are dropped or get no reply, keeps the port's promises: `OneHoldPerUser`, `NoTakeoverCorrect` and
`Refinement` again, now of `Checkout`.

*SeatMap.*  `MapImplementsCheckout`: a page does nothing to the stores that Checkout does not describe, so all of this holds
while pages are open.  What they show rests on `SnapshotRight`, about the reads done so far: for each seat that has not changed since
the first read, the bookings read say whether it is sold; once the SCAN has passed it, its key is listed if and only if it is held (unless it
is sold); once its key was read, the merge gives its kind.  A seat sold between two reads is not steady, which is exactly the hole
`double_booking` goes through.  `ConfirmedIsSold` needs of this only that bookings are never taken back (`SalesStay`).  The run has one
snapshot at a time; the theorems have any number at once.

**MovieCatalogProofs.**  Two different reasons keep slugs in order, and neither is a lock around `update`.  A *create* has the write
lock from its INSERT (`LockIsCreators`), so its id is still the largest when it writes the slug (`NewIdIsLargest`, from
`NextIdIsLargest`: SQLite's max + 1).  An *update* holds nothing between its statements, but the id it read is the one in the slug it
was asked for (`UpdateKeepsId`), and a row is found by slug, so whichever row it finds has that id even if the one it read is long gone and its id
was handed out again.  From these `SlugsCorrect`, `RowsCorrect`, `CollisionFree`, `BookedCorrect` and `AnswersCorrect`.

**TaskTableProofs.**  `BatchIsWhole` needs that every row's uuid has been seen (`RowsAreSeen`) and that the uuids of a batch under
way are nobody else's (`BatchesAreApart`): otherwise another request's commit would show part of it.  `DeletedCorrect`
follows step by step: rows are added with uuids never seen, or written where they are.

**SeatPageProofs.**  `ClickIsForItsFilm` rests on `GridsMatch`: a grid and the seat in it are of one film wherever the grid is, on
the page or in an answer still travelling.  `ActionIsShown` rests on `ResultsStand`: what a POST achieved for a film is still so as
long as the request counts on it.  Both for any number of films and of overlapping requests.  `SettledStays`: from a state where the
grid is right, no click is under way and no request is for another film or carries an older answer (`Settled`), the page's own polls
keep it right for ever; a stale answer still travelling is all that could spoil it.  *SeatLayout*: division
gives index, row and column back (`RoundTrip`); from that `PlacesAreDistinct` and
`PlacesAreFilled`, for auditoriums of any size and any largest number.

**CliProofs.**  *DatabaseAdmin.*  The inductive invariant is types, `WrittenInOrder`, `MigratorsGoForward` and
`ServingIsMigrated`: of every file that is not torn, the migrations are there in order (`WrittenInOrder`), a migrator has
behind it every migration before its next one, and a server's file is complete.  They rest on the inode: a file that
somebody has open, or a server remembers, is never made anew, so it only gains migrations and, once removed, is never at the path again (`FilesOnlyGrow`,
`RemovedStaysRemoved`, `NewFileIsSafe`): a step needs to be checked for its own process only (`StepOfOne`); a torn file stays torn until it is made anew.
`SomeoneAlwaysLeads`: of the
migrators on a file that is not torn and of which none was stopped, one has behind it or on its list all that was made, so no CREATE TABLE of its way
fails.  Whoever makes a migration leads from then on, since by `AppliedInOrder` nothing above it is made; whoever gives up did not lead.
*Generator.*  `SuccessIsComplete` and `DeclaredFilesExist` need that the command under way is at a step of one of its own files
(`RunIsInPlace`), that the files before it are whole, and that what it is about to declare is written (`WrittenSoFar`).  That a later file of a
command does not overwrite an earlier one is a fact about its list of writes, proved for each command (`StepsOf`): the targets differ.

**SessionGateProofs.**  `AdminRightsEnd`, `LoginMeansSignedIn` and `ActsAsShown` each need a fact about tokens that
are nowhere near a handler yet.  *Claims*: an admin token's time left and the time since its user was an
admin add up to at most `Life`, for the token in the jar, in a login under way and in an answer still
travelling; ticks keep the sum, a promotion lowers it.  *Checked*: what `LoginVerify` let through has the running server's key, and so has
an answer of this server until it stops.  *PageIsOfJar*: the jar's user is the one the page names or is among `joined`, since only an answer gives the jar
a user; a guest's page that is `settled` has a jar which this server does not accept, or whose user joined, since tokens only age and a
server keeps its key.  `ActsAsShown` is an action property, proved of every step from that (`ClickIsOfReader`).  The parsing of headers is two lemmas (`AuthOfBrowser`, `AuthOfClient`): whatever stands
before it, the token found is the jar's or none, and the jar's if what stands before it has a name.  `SessionsRunOut`: the time left of the jar's token falls with every tick and never rises but by
a new token, and with none left nothing is admitted.

**Only model-checked.**  `EveryHoldEnds`, `PageSettles`, `RacingMigrationsFinish`, `EverySessionEnds` and `RerunCompletes`:
liveness under fairness is beyond the prover, so these hold of the instances of section 3.  Of three of them the safety they rest on is
proved: `SettledStays`, `SomeoneAlwaysLeads`, `SessionsRunOut`.  The refinement is proved for safety, which is all the port
states.  The prover has no induction with an operator as parameter; where an argument over numbers is needed (the
largest id of the catalog) it goes through the least-number principle for sets (`LeastNumber`).  No module here
declares an operator RECURSIVE.

## 5. What is abstracted

- Key names are pairs, not text.  The real names join a slug and a seat, or a slug and a user, with colons.
  A slug made by `slugify_title` (letters, digits, hyphens) and a seat of the layout have none, so the pair can be
  read back; `hold` takes any text, but `list_held_sessions_for_movie` compares the slug inside the
  session, not the key's, and a checkout needs a movie of that very slug.
- `Session.expires_at` and `status` are left out: no code compares them.
- Reading the movie and reading its bookings is one step of a snapshot: holds on a film
  do not depend on the row, and the first read only decides whether there is a page.
- Reads (list, load) that change nothing and feed no write are left out of the table modules.
- The write lock of SQLite is modelled per table module; a request that waits too long is `Fail`.
- In SeatMap one snapshot is under way at a time; requests that overlap are SeatPage's.
- A token is its claims and the time left, and a header its parts: the search for the cookie, its order and
  the part that ends it are modelled, splitting text at `;` and `=` is not.  The fixed tokens of the test verifier are never sent.
- SessionGate has one browser: what another user's browser does is an API client's request.  A login answers MFA, a wrong password and an
  unreachable identity server alike (`LoginFails`).
- The generator's templates, the spelling of names and its console output (`cli/src/util/ui.rs`) are left out, as are two commands
  running at once and module definitions inside comments.

**Not modelled.**

- `ds_seat_map`, the seat-map stream: it repeats the snapshot of SeatMap up to `max_ticks` times; no page of
  the repository opens it.  `ds_hello_world` is a demonstration.
- `bookings::{load, load_all, update, delete}` and `users::load_with_token`: called by no
  route.  The `BookingStore` trait: nothing implements it.
- `seed` (one transaction of a fixed script) and `prepare` (runs `cargo sqlx`) of the CLI.
- The integration tests' support (per-test databases, key prefixes, request builders): no part of the running system.
- Static files, HTTP wording and status codes, logging, pool sizes.

## 6. The plan

Done, in this order: RedisHolds, SeatHoldStore with its port, Checkout, SeatMap, MovieCatalog,
TaskTable, and the proofs of the first three; SeatPage and DatabaseAdmin with its proofs;
SeatLayout with its proofs, Configuration and SessionGate with its proofs, Generator; then the proofs of SeatMap,
MovieCatalog, TaskTable, SeatPage and Generator, and of the port's promises for the whole booking system.

Every component with state of its own is modelled, the safety the runs check is proved, and of the liveness properties `PageSettles`,
`RacingMigrationsFinish` and `EverySessionEnds` the safety they rest on.  What is worth doing next:

1. Generator: each step of a command repeated with `--override` is refused by nothing and takes the command nearer to its end.
2. SeatPage: an answer that is not disturbed takes the page nearer to `Settled`; DatabaseAdmin: so does a leader's step to the end of its list.
3. RedisHolds: a hold's time left falls with every expiry and never rises until it ends, as one action property.
