------------------------------ MODULE TaskTable ------------------------------
(***************************************************************************)
(* Table tasks and the requests on it (db/src/entities/tasks.rs,           *)
(* web/src/controllers/tasks.rs).  create_batch is the one handler with a  *)
(* transaction of the caller's making: tasks::create validates and inserts *)
(* each task in turn, so a batch can fail after some of its rows are in.   *)
(* update is two statements with no transaction around them.               *)
(***************************************************************************)
EXTENDS Sequences, SequencesExt

CONSTANTS
  Uuids,       \* task uuids
  Texts,       \* descriptions that pass validation
  Empty,       \* the one that does not
  MaxBatch,    \* bound: tasks in a batch
  Requests,    \* requests a server runs at once
  NoRequest    \* nobody has the write lock

VARIABLES
  rows,        \* committed rows of tasks
  lock,        \* the request whose transaction has written, or NoRequest
  reqs,        \* reqs[r]: where request r is, or its answer
  seen         \* history: uuids of all rows that were ever committed

vars == <<rows, lock, reqs, seen>>

ASSUME BatchAssumption == MaxBatch \in Nat
ASSUME RequestAssumption == NoRequest \notin Requests
ASSUME EmptyAssumption == Empty \notin Texts

Task == [uuid : Uuids, text : Texts]
Descriptions == Texts \cup {Empty}
Batches == BoundedSeq(Descriptions, MaxBatch)

Idle == [pc |-> "idle"]
Answer(status, made) == [pc |-> "answered", status |-> status, made |-> made]
Statuses ==
  {"created", "invalid", "not_found", "updated", "deleted", "failed",
   "row_not_found"}

RequestStates ==
  {Idle}
    \cup [pc : {"batch"}, todo : Batches, made : SUBSET Task]
    \cup [pc : {"written"}, uuid : Uuids]
    \cup [pc : {"answered"}, status : Statuses, made : SUBSET Task]

TypeOK ==
  /\ rows \in SUBSET Task
  /\ lock \in Requests \cup {NoRequest}
  /\ reqs \in [Requests -> RequestStates]
  /\ seen \in SUBSET Uuids

Init ==
  /\ rows = {} /\ lock = NoRequest /\ seen = {}
  /\ reqs = [r \in Requests |-> Idle]

Ready(r) == reqs[r].pc \in {"idle", "answered"}
Becomes(r, state) == reqs' = [reqs EXCEPT ![r] = state]
Found(uuid) == {t \in rows : t.uuid = uuid}
UuidsOf(tasks) == {t.uuid : t \in tasks}
\* Mutant: validate() is not called.
NotValidated(text) == TRUE

IsValid(text) == text # Empty

\* The rows a batch has made, whether or not they were committed.
Made(r) == IF reqs[r].pc \in {"batch", "answered"} THEN reqs[r].made ELSE {}

\* Uuid::new_v4 never repeats itself.
\* (Mutant: one made from what the table holds does.)
UnusedUuids == Uuids \ UuidsOf(rows)

FreshUuids == Uuids \ (seen \cup UNION {UuidsOf(Made(r)) : r \in Requests})

Commit(tasks) ==
  /\ rows' = rows \cup tasks
  /\ seen' = seen \cup UuidsOf(tasks)

Unlocked(r) == IF lock = r THEN NoRequest ELSE lock

-----------------------------------------------------------------------------
\* create, outside of a transaction: its row is committed at once.
Create(r, text) ==
  /\ Ready(r)
  /\ IF ~IsValid(text)
     THEN Becomes(r, Answer("invalid", {})) /\ UNCHANGED <<rows, lock, seen>>
     ELSE /\ lock = NoRequest
          /\ \E uuid \in FreshUuids :
               LET made == {[uuid |-> uuid, text |-> text]} IN
               Commit(made) /\ Becomes(r, Answer("created", made))
          /\ UNCHANGED lock

(***************************************************************************)
(* create_batch.  BEGIN takes no lock, the first INSERT does and keeps it. *)
(* An error returned from the loop drops the transaction, which rolls it   *)
(* back.                                                                   *)
(***************************************************************************)
BatchBegin(r, texts) ==
  /\ Ready(r)
  /\ Becomes(r, [pc |-> "batch", todo |-> texts, made |-> {}])
  /\ UNCHANGED <<rows, lock, seen>>

InBatch(r) == reqs[r].pc = "batch"
HasMore(r) == InBatch(r) /\ reqs[r].todo # <<>>

BatchInsert(r) ==
  /\ HasMore(r) /\ lock \in {NoRequest, r}
  /\ IsValid(Head(reqs[r].todo))
  /\ \E uuid \in FreshUuids :
       Becomes(r, [reqs[r] EXCEPT
         !.made = @ \cup {[uuid |-> uuid, text |-> Head(reqs[r].todo)]},
         !.todo = Tail(@)])
  /\ lock' = r
  /\ UNCHANGED <<rows, seen>>

\* Mutant: the rows made so far are kept.
BatchInvalidCommits(r) ==
  /\ HasMore(r) /\ ~IsValid(Head(reqs[r].todo))
  /\ Becomes(r, Answer("invalid", reqs[r].made))
  /\ Commit(reqs[r].made)
  /\ lock' = Unlocked(r)

BatchInvalid(r) ==
  /\ HasMore(r) /\ ~IsValid(Head(reqs[r].todo))
  /\ Becomes(r, Answer("invalid", reqs[r].made))
  /\ lock' = Unlocked(r)
  /\ UNCHANGED <<rows, seen>>

\* The commit may have happened and the answer not, when the task is dropped.
BatchCommit(r) ==
  /\ InBatch(r) /\ ~HasMore(r)
  /\ Commit(reqs[r].made)
  /\ \E status \in {"created", "failed"} :
       Becomes(r, Answer(status, reqs[r].made))
  /\ lock' = Unlocked(r)

-----------------------------------------------------------------------------
\* update: UPDATE and, without a transaction, SELECT (fetch_one).
UpdateWrite(r, uuid, text) ==
  /\ Ready(r) /\ lock = NoRequest
  /\ IF ~IsValid(text)
       THEN Becomes(r, Answer("invalid", {})) /\ UNCHANGED rows
     ELSE IF Found(uuid) = {}
       THEN Becomes(r, Answer("not_found", {})) /\ UNCHANGED rows
     ELSE /\ rows' = (rows \ Found(uuid)) \cup {[uuid |-> uuid, text |-> text]}
          /\ Becomes(r, [pc |-> "written", uuid |-> uuid])
  /\ UNCHANGED <<lock, seen>>

UpdateRead(r) ==
  /\ reqs[r].pc = "written"
  /\ Becomes(r, IF Found(reqs[r].uuid) = {} THEN Answer("row_not_found", {})
                ELSE Answer("updated", {}))
  /\ UNCHANGED <<rows, lock, seen>>

Delete(r, uuid) ==
  /\ Ready(r) /\ lock = NoRequest
  /\ Becomes(r, Answer(IF Found(uuid) = {} THEN "not_found" ELSE "deleted", {}))
  /\ rows' = rows \ Found(uuid)
  /\ UNCHANGED <<lock, seen>>

\* The write lock is not had in time, a statement fails or the task is dropped.
Fail(r) ==
  /\ ~Ready(r)
  /\ Becomes(r, Answer("failed", IF InBatch(r) THEN reqs[r].made ELSE {}))
  /\ lock' = Unlocked(r)
  /\ UNCHANGED <<rows, seen>>

Next ==
  \E r \in Requests :
    \/ \E text \in Descriptions :
         \/ Create(r, text)
         \/ \E uuid \in Uuids : UpdateWrite(r, uuid, text)
    \/ \E texts \in Batches : BatchBegin(r, texts)
    \/ BatchInsert(r) \/ BatchInvalid(r) \/ BatchCommit(r)
    \/ UpdateRead(r)
    \/ \E uuid \in Uuids : Delete(r, uuid)
    \/ Fail(r)

Spec == Init /\ [][Next]_vars

-----------------------------------------------------------------------------
(***************************************************************************)
(* "Either all are created successfully or none is" (controllers/tasks.rs  *)
(* :23): a batch answered with 201 was committed whole, a batch with an    *)
(* invalid task not at all however many came before it, one still under    *)
(* way shows nothing, and one whose answer was lost is one of the two.     *)
(***************************************************************************)
BatchIsWhole ==
  \A r \in Requests :
    LET made == UuidsOf(Made(r))
        whole == made \subseteq seen
        none == made \cap seen = {}
    IN
    /\ InBatch(r) => none
    /\ reqs[r].pc = "answered" =>
         CASE reqs[r].status = "created" -> whole
           [] reqs[r].status = "invalid" -> none
           [] OTHER -> whole \/ none

(***************************************************************************)
(* A deleted task never comes back: not by an update that was on its way   *)
(* when it was deleted, and not by the commit of a batch.                  *)
(***************************************************************************)
DeletedStaysDeleted ==
  [][\A uuid \in seen : Found(uuid) = {} => Found(uuid)' = {}]_vars

(***************************************************************************)
(* DbError(RowNotFound) "indicates a bug" (db/src/lib.rs:73-75), a missing *)
(* record being NoRecordFound: no request ends that way.  An update whose  *)
(* task is deleted between its two statements does.                        *)
(***************************************************************************)
RowNotFoundNeverHappens ==
  \A r \in Requests :
    reqs[r].pc = "answered" => reqs[r].status # "row_not_found"
=============================================================================
