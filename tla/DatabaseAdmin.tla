--------------------------- MODULE DatabaseAdmin ----------------------------
(***************************************************************************)
(* The database file and the processes that make, migrate and remove it:   *)
(* the commands of cli/src/bin/db.rs, and servers, which migrate when they *)
(* start (web/src/lib.rs, db/src/lib.rs).  Nothing keeps them apart: each  *)
(* migrator lists what is applied, then applies the rest one by one, and   *)
(* SQLite knows no lock for the whole of it.  A removed file lives on for  *)
(* the connections that have it open, as an inode without a name.          *)
(*                                                                         *)
(* Its log is two more files beside it, -wal and -shm, which drop removes  *)
(* one after the other.  If somebody makes a new database file in between, *)
(* the log removed is the new file's, or the new file comes to use that of *)
(* the old one.  A file whose log was mixed up like this is torn: what its *)
(* connections find in it is anything, and it is not followed any further. *)
(***************************************************************************)
EXTENDS Naturals

CONSTANTS
  Last,        \* migrations are numbered 1..Last, in the order of their files
  Files,       \* bound: inodes in use at once
  NoFile,      \* the path names no file
  Procs        \* bound: processes running at once

VARIABLES
  path,        \* the inode the configured path names, or NoFile
  db,          \* db[f]: which migrations file f has, and which it records
  beside,      \* the files whose log may be the one beside the path
  procs,       \* procs[p]: where process p is
  torn,        \* history: files whose log was removed or shared
  hurt         \* history: files a migrator of which was stopped since the
               \* last one began

database == <<path, db, beside, torn>>
vars == <<database, procs, hurt>>

ASSUME LastAssumption == Last \in Nat
ASSUME NoFileAssumption == NoFile \notin Files

Versions == 1..Last
Empty == [made |-> {}, recorded |-> {}]

Idle == [pc |-> "idle"]
Roles == {"migrate", "reset", "server"}
Removers == {"drop", "reset"}

\* A serving process has the connections of its pool, to conns; file is
\* history, the one it ran the migrations on.
ProcessStates ==
  {Idle}
    \cup [pc : {"wal", "shm"}, role : Removers]
    \cup [pc : {"create", "connect"}]
    \cup [pc : {"list"}, role : Roles, file : Files]
    \cup [pc : {"apply"}, role : Roles, file : Files,
          known : SUBSET Versions, next : 1..(Last + 1)]
    \cup [pc : {"serving"}, file : Files, conns : SUBSET Files]

TypeOK ==
  /\ path \in Files \cup {NoFile}
  /\ db \in [Files -> [made : SUBSET Versions, recorded : SUBSET Versions]]
  /\ beside \subseteq Files
  /\ procs \in [Procs -> ProcessStates]
  /\ torn \subseteq Files
  /\ hurt \in SUBSET Files

Init ==
  /\ path = NoFile
  /\ db = [f \in Files |-> Empty]
  /\ beside = {}
  /\ procs = [p \in Procs |-> Idle]
  /\ torn = {}
  /\ hurt = {}

Becomes(p, state) == procs' = [procs EXCEPT ![p] = state]
Migrating(p) == procs[p].pc \in {"list", "apply"}
Opened(p) ==
  IF Migrating(p) THEN {procs[p].file}
  ELSE IF procs[p].pc = "serving" THEN procs[p].conns ELSE {}
InUse(f) == \E p \in Procs : f \in Opened(p)
Remembered(f) == \E p \in Procs : procs[p].pc = "serving" /\ procs[p].file = f
Complete(f) == db[f].recorded = Versions

-----------------------------------------------------------------------------
\* A new file at the path, which may come to share what log lies there with
\* the connections that use it.
NewFile(f) ==
  /\ ~InUse(f) /\ ~Remembered(f)
  /\ path' = f
  /\ db' = [db EXCEPT ![f] = Empty]
  /\ hurt' = hurt \ {f}
  /\ \/ beside' = {f} /\ torn' = torn \ {f}
     \/ /\ \E g \in beside : InUse(g)
        /\ beside' = beside \cup {f} /\ torn' = torn \cup beside'

\* Opening the path with mode=rwc or create_if_missing.
Open(f) ==
  IF path = NoFile THEN NewFile(f) ELSE f = path /\ UNCHANGED <<database, hurt>>

\* drop, of cargo db drop and of cargo db reset; it holds nothing open.
DropFile(p, role) ==
  /\ procs[p] = Idle
  /\ path' = NoFile
  /\ Becomes(p, [pc |-> "wal", role |-> role])
  /\ UNCHANGED <<db, beside, torn, hurt>>

\* A log that is removed is that of the file now in place, if there is one.
\* It may have none, and an error is ignored.
Unlogged == {torn} \cup {torn \cup {f} : f \in {path} \cap Files}

DropWal(p) ==
  /\ procs[p].pc = "wal"
  /\ torn' \in Unlogged
  /\ Becomes(p, [procs[p] EXCEPT !.pc = "shm"])
  /\ UNCHANGED <<path, db, beside, hurt>>

DropShm(p) ==
  /\ procs[p].pc = "shm"
  /\ torn' \in Unlogged
  /\ beside' \in IF path = NoFile THEN {beside, {}} ELSE {beside}
  /\ Becomes(p, IF procs[p].role = "reset" THEN [pc |-> "create"] ELSE Idle)
  /\ UNCHANGED <<path, db, hurt>>

\* cargo db create.
Create == \E f \in Files : Open(f) /\ UNCHANGED procs

\* cargo db reset is a drop, a create whose connection is closed again, and
\* a migrate.
ResetCreate(p) ==
  /\ procs[p].pc = "create"
  /\ \E f \in Files : Open(f)
  /\ Becomes(p, [pc |-> "connect"])

\* The connection migrations are run on: of cargo db migrate, of a reset
\* under way, or the first one in a starting server's pool.
Connect(p, role) ==
  /\ IF role = "reset" THEN procs[p].pc = "connect" ELSE procs[p] = Idle
  /\ \E f \in Files :
       Open(f) /\ Becomes(p, [pc |-> "list", role |-> role, file |-> f])

\* Mutant: what was applied before is not found.
ListedNone(f) == {}

Listed(f) == db[f].recorded

\* ensure_migrations_table and list_applied_migrations.
List(p) ==
  LET f == procs[p].file IN
  /\ procs[p].pc = "list"
  /\ Becomes(p, [pc |-> "apply", role |-> procs[p].role, file |-> f,
                 known |-> Listed(f), next |-> 1])
  /\ hurt' = hurt \ {f}
  /\ UNCHANGED database

\* Mutants: versions count from zero; a command goes through them backwards.
VersionOfFromZero(q) == q.next - 1
VersionOfBackwards(q) ==
  IF q.role = "server" THEN q.next ELSE Last + 1 - q.next

VersionOf(q) == q.next

Applied(d, v) == [made |-> d.made \cup {v}, recorded |-> d.recorded \cup {v}]

(***************************************************************************)
(* A migration that was not on the list is applied, in a transaction with  *)
(* its record.  CREATE TABLE fails if another process was faster, and the  *)
(* process gives up: a command with an error, a server without serving.    *)
(***************************************************************************)
Apply(p) ==
  LET q == procs[p]
      v == VersionOf(q) IN
  /\ q.pc = "apply" /\ q.next <= Last
  /\ q.file \notin torn
  /\ IF v \notin q.known /\ v \in db[q.file].made
     THEN Becomes(p, Idle) /\ UNCHANGED db
     ELSE /\ Becomes(p, [q EXCEPT !.next = @ + 1])
          /\ db' = IF v \in q.known THEN db
                   ELSE [db EXCEPT ![q.file] = Applied(@, v)]
  /\ UNCHANGED <<path, beside, torn, hurt>>

\* On a torn file it goes well, as here, or fails, as in Stop.
ApplyTorn(p) ==
  LET q == procs[p] IN
  /\ q.pc = "apply" /\ q.next <= Last
  /\ q.file \in torn
  /\ Becomes(p, [q EXCEPT !.next = @ + 1])
  /\ UNCHANGED <<database, hurt>>

\* Mutant: the server does not wait for the migrations.
AllDoneAtOnce(q) == q.role = "server" \/ q.next > Last

AllDone(q) == q.next > Last

Finish(p) ==
  LET q == procs[p] IN
  /\ q.pc = "apply" /\ AllDone(q)
  /\ Becomes(p, IF q.role = "server"
                THEN [pc |-> "serving", file |-> q.file, conns |-> {q.file}]
                ELSE Idle)
  /\ UNCHANGED <<database, hurt>>

\* The pool of a running server opens connections, by path, and closes any
\* that is idle or has lived long enough, the first one included.
OpenConnection(p) ==
  /\ procs[p].pc = "serving"
  /\ \E f \in Files :
       Open(f) /\ Becomes(p, [procs[p] EXCEPT !.conns = @ \cup {f}])

CloseConnection(p) ==
  /\ procs[p].pc = "serving"
  /\ \E f \in procs[p].conns :
       Becomes(p, [procs[p] EXCEPT !.conns = @ \ {f}])
  /\ UNCHANGED <<database, hurt>>

\* A statement fails (the write lock is not had within five seconds), or the
\* process is stopped: what it applied stays.
Stop(p) ==
  /\ procs[p] # Idle
  /\ Becomes(p, Idle)
  /\ hurt' = IF Migrating(p) THEN hurt \cup {procs[p].file} ELSE hurt
  /\ UNCHANGED database

Step(p) == List(p) \/ Apply(p) \/ ApplyTorn(p) \/ Finish(p)

Next ==
  \/ Create
  \/ \E p \in Procs :
       \/ \E role \in Removers : DropFile(p, role)
       \/ DropWal(p) \/ DropShm(p)
       \/ ResetCreate(p)
       \/ \E role \in Roles : Connect(p, role)
       \/ Step(p)
       \/ OpenConnection(p) \/ CloseConnection(p)
       \/ Stop(p)

\* A migrator that is not stopped gets on with it.
Spec == Init /\ [][Next]_vars /\ \A p \in Procs : WF_vars(Step(p))

-----------------------------------------------------------------------------
(***************************************************************************)
(* Whoever migrates a file, together with whom and however often it is cut *)
(* short: the file records exactly what it has, and it has the migrations  *)
(* up to some point with none left out, so the next run can go on.  Only   *)
(* when a drop and a creation overlap is there no telling (torn).          *)
(***************************************************************************)
AppliedInOrder ==
  \A f \in Files \ torn :
    /\ db[f].recorded = db[f].made
    /\ \A v \in db[f].made : 1..v \subseteq db[f].made

(***************************************************************************)
(* A server that serves has seen every migration onto its file, although   *)
(* others may have applied, or failed to apply, some of them; nobody takes *)
(* that back unless the file is torn; and until the file is removed its    *)
(* pool has no connection to any other.  Of connections made after that    *)
(* nothing is said: they go to what is at the path then, migrated or not,  *)
(* and once the older ones are closed the server has only those.           *)
(***************************************************************************)
ServingIsMigrated ==
  \A p \in Procs :
    procs[p].pc = "serving" =>
      /\ procs[p].file \notin torn => Complete(procs[p].file)
      /\ path = procs[p].file => procs[p].conns \subseteq {procs[p].file}

(***************************************************************************)
(* Migrators that meet do not all give up on account of each other, or of  *)
(* what one that was stopped has left: unless one is stopped again or the  *)
(* file is removed or torn, one gets through to the end.                   *)
(***************************************************************************)
RacingMigrationsFinish ==
  \A f \in Files :
    path = f /\ (\E p \in Procs : Migrating(p) /\ procs[p].file = f)
      ~> Complete(f) \/ path # f \/ f \in hurt \cup torn
=============================================================================
