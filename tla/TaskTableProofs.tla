--------------------------- MODULE TaskTableProofs ---------------------------
(***************************************************************************)
(* The tasks for any number of requests, tasks and batches of any length:  *)
(* a batch is there whole or not at all, and what was deleted stays away.  *)
(***************************************************************************)
EXTENDS TaskTable, SequenceTheorems, TLAPS

-----------------------------------------------------------------------------
(***************************************************************************)
(* The strengthening: a row's uuid has been seen, and while a batch is     *)
(* under way no other request has made a task with one of its uuids, so    *)
(* that nobody else's commit makes part of it seen.                        *)
(***************************************************************************)
RowsAreSeen == UuidsOf(rows) \subseteq seen

BatchesAreApart ==
  \A q, r \in Requests :
    q # r /\ InBatch(r) => UuidsOf(Made(q)) \cap UuidsOf(Made(r)) = {}

Inv == TypeOK /\ RowsAreSeen /\ BatchesAreApart /\ BatchIsWhole

-----------------------------------------------------------------------------
\* Batches are the sequences of descriptions that are not too long.
LEMMA BatchTail ==
  ASSUME NEW b \in Batches, b # <<>>
  PROVE  Head(b) \in Descriptions /\ Tail(b) \in Batches
<1>1. PICK m \in 0..MaxBatch : b \in [1..m -> Descriptions]
  BY DEF Batches, BoundedSeq, SeqOf
<1>2. m \in Nat /\ b \in Seq(Descriptions) /\ Len(b) = m
  BY <1>1, BatchAssumption
<1>3. m # 0
  BY <1>1, <1>2
<1>4. m - 1 \in 0..MaxBatch /\ Tail(b) \in [1..(m - 1) -> Descriptions]
  <2>1. m - 1 \in 0..MaxBatch
    BY <1>2, <1>3, BatchAssumption
  <2>2. Tail(b) \in Seq(Descriptions) /\ Len(Tail(b)) = m - 1
    BY <1>2, HeadTailProperties
  <2>3. QED
    BY <2>1, <2>2, LenProperties
<1>5. Head(b) \in Descriptions
  BY <1>1, <1>2, <1>3
<1>6. QED
  BY <1>4, <1>5 DEF Batches, BoundedSeq, SeqOf

LEMMA MadeIsTyped ==
  ASSUME TypeOK, NEW r \in Requests
  PROVE  Made(r) \in SUBSET Task
BY DEF TypeOK, RequestStates, Idle, Made

LEMMA UuidsAreTyped ==
  ASSUME NEW tasks \in SUBSET Task
  PROVE  UuidsOf(tasks) \in SUBSET Uuids
BY DEF UuidsOf, Task

LEMMA TypeStays == ASSUME TypeOK, [Next]_vars PROVE TypeOK'
<1> USE DEF TypeOK
<1>1. CASE UNCHANGED vars
  BY <1>1 DEF vars
<1>2. ASSUME NEW r \in Requests, NEW state \in RequestStates, Becomes(r, state)
      PROVE  reqs' \in [Requests -> RequestStates]
  BY <1>2 DEF Becomes
<1>3. ASSUME NEW status \in Statuses, NEW made \in SUBSET Task
      PROVE  Answer(status, made) \in RequestStates
  BY DEF Answer, RequestStates
<1>4. {} \in SUBSET Task /\ Idle \in RequestStates
  BY DEF RequestStates
<1>5. \A r \in Requests : Unlocked(r) \in Requests \cup {NoRequest}
  BY DEF Unlocked
<1>6. ASSUME NEW tasks \in SUBSET Task, Commit(tasks)
      PROVE  rows' \in SUBSET Task /\ seen' \in SUBSET Uuids
  BY <1>6, UuidsAreTyped DEF Commit
<1> USE DEF Statuses
<1>7. ASSUME NEW r \in Requests, NEW text \in Descriptions, Create(r, text)
      PROVE  TypeOK'
  <2>1. CASE ~IsValid(text)
    BY <1>2, <1>3, <1>7, <2>1 DEF Create
  <2>2. CASE IsValid(text)
    <3>1. PICK uuid \in FreshUuids :
            /\ Commit({[uuid |-> uuid, text |-> text]})
            /\ Becomes(r, Answer("created", {[uuid |-> uuid, text |-> text]}))
      BY <1>7, <2>2 DEF Create
    <3>2. {[uuid |-> uuid, text |-> text]} \in SUBSET Task
      BY <2>2 DEF FreshUuids, Task, Descriptions, IsValid
    <3>3. UNCHANGED lock
      BY <1>7, <2>2 DEF Create
    <3>4. QED
      BY <1>2, <1>3, <1>6, <3>1, <3>2, <3>3
  <2>3. QED
    BY <2>1, <2>2
<1>8. ASSUME NEW r \in Requests, NEW texts \in Batches, BatchBegin(r, texts)
      PROVE  TypeOK'
  <2>1. [pc |-> "batch", todo |-> texts, made |-> {}] \in RequestStates
    BY <1>4 DEF RequestStates
  <2>2. QED
    BY <1>2, <1>8, <2>1 DEF BatchBegin
<1>9. ASSUME NEW r \in Requests, BatchInsert(r)
      PROVE  TypeOK'
  <2> DEFINE q == reqs[r]
             text == Head(q.todo)
             rest == Tail(q.todo)
  <2>1. q \in [pc : {"batch"}, todo : Batches, made : SUBSET Task]
    BY <1>9 DEF BatchInsert, HasMore, InBatch, RequestStates, Idle
  <2>2. text \in Texts /\ rest \in Batches
    BY <1>9, <2>1, BatchTail DEF BatchInsert, HasMore, IsValid, Descriptions
  <2>3. PICK uuid \in FreshUuids :
          Becomes(r, [q EXCEPT !.made = @ \cup {[uuid |-> uuid, text |-> text]},
                               !.todo = Tail(@)])
    BY <1>9 DEF BatchInsert
  <2> DEFINE made == q.made \cup {[uuid |-> uuid, text |-> text]}
  <2>4. made \in SUBSET Task
    BY <2>1, <2>2 DEF FreshUuids, Task
  <2>5. Becomes(r, [q EXCEPT !.made = made, !.todo = rest])
    BY <2>1, <2>3
  <2> HIDE DEF made, rest
  <2>6. [q EXCEPT !.made = made, !.todo = rest]
          \in [pc : {"batch"}, todo : Batches, made : SUBSET Task]
    BY <2>1, <2>2, <2>4
  <2>7. UNCHANGED <<rows, seen>> /\ lock' = r
    BY <1>9 DEF BatchInsert
  <2> HIDE DEF q
  <2>8. QED
    BY <1>2, <2>5, <2>6, <2>7 DEF RequestStates
<1>10. ASSUME NEW r \in Requests, BatchInvalid(r) \/ BatchCommit(r) \/ Fail(r)
       PROVE  TypeOK'
  <2>1. InBatch(r) => reqs[r].made \in SUBSET Task
    BY MadeIsTyped DEF Made, InBatch
  <2>2. CASE BatchInvalid(r)
    BY <1>2, <1>3, <1>5, <2>1, <2>2 DEF BatchInvalid, HasMore
  <2>3. CASE BatchCommit(r)
    BY <1>2, <1>3, <1>5, <1>6, <2>1, <2>3 DEF BatchCommit
  <2>4. CASE Fail(r)
    BY <1>2, <1>3, <1>4, <1>5, <2>1, <2>4 DEF Fail
  <2>5. QED
    BY <1>10, <2>2, <2>3, <2>4
<1>11. ASSUME NEW r \in Requests, NEW uuid \in Uuids, NEW text \in Descriptions,
              UpdateWrite(r, uuid, text)
       PROVE  TypeOK'
  <2>1. [pc |-> "written", uuid |-> uuid] \in RequestStates
    BY DEF RequestStates
  <2>2. IsValid(text) => [uuid |-> uuid, text |-> text] \in Task
    BY DEF Task, IsValid, Descriptions
  <2>3. QED
    BY <1>2, <1>3, <1>4, <1>11, <2>1, <2>2 DEF UpdateWrite
<1>12. ASSUME NEW r \in Requests,
              UpdateRead(r) \/ \E uuid \in Uuids : Delete(r, uuid)
       PROVE  TypeOK'
  BY <1>2, <1>3, <1>4, <1>12 DEF UpdateRead, Delete
<1>13. QED
  BY <1>1, <1>7, <1>8, <1>9, <1>10, <1>11, <1>12 DEF Next

-----------------------------------------------------------------------------
(***************************************************************************)
(* What a step may do to the table and to the tasks a request has made:    *)
(* uuids are only added to seen, and those a batch is making are no other  *)
(* request's.                                                              *)
(***************************************************************************)
LEMMA OthersKeep ==
  ASSUME TypeOK, NEW r \in Requests, NEW state, Becomes(r, state),
         NEW q \in Requests, q # r
  PROVE  reqs'[q] = reqs[q]
BY DEF TypeOK, Becomes

LEMMA OneBecomes ==
  ASSUME TypeOK, NEW r \in Requests, NEW state, Becomes(r, state)
  PROVE  reqs'[r] = state
BY DEF TypeOK, Becomes

LEMMA FreshIsNew ==
  ASSUME NEW uuid \in FreshUuids
  PROVE  /\ uuid \in Uuids /\ uuid \notin seen
         /\ \A r \in Requests : uuid \notin UuidsOf(Made(r))
BY DEF FreshUuids

LEMMA UuidsOfOneMore ==
  ASSUME NEW tasks, NEW uuid, NEW text
  PROVE  /\ UuidsOf(tasks \cup {[uuid |-> uuid, text |-> text]})
              = UuidsOf(tasks) \cup {uuid}
         /\ UuidsOf({[uuid |-> uuid, text |-> text]}) = {uuid}
         /\ UuidsOf({}) = {}
<1> DEFINE t == [uuid |-> uuid, text |-> text]
<1>1. t.uuid = uuid
  OBVIOUS
<1> HIDE DEF t
<1>2. QED
  BY <1>1 DEF UuidsOf

\* BatchIsWhole for one request.
WholeOrNone(r) ==
  LET made == UuidsOf(Made(r))
      whole == made \subseteq seen
      none == made \cap seen = {}
  IN
  /\ InBatch(r) => none
  /\ reqs[r].pc = "answered" =>
       CASE reqs[r].status = "created" -> whole
         [] reqs[r].status = "invalid" -> none
         [] OTHER -> whole \/ none

Apart(q, r) == InBatch(r) => UuidsOf(Made(q)) \cap UuidsOf(Made(r)) = {}

LEMMA InvForEach ==
  Inv <=> /\ TypeOK /\ RowsAreSeen
          /\ \A r \in Requests : WholeOrNone(r)
          /\ \A q, r \in Requests : q # r => Apart(q, r)
BY DEF Inv, BatchIsWhole, WholeOrNone, BatchesAreApart, Apart

\* A request that is left alone stays as it is when nothing it made is seen.
LEMMA OthersStayWhole ==
  ASSUME NEW q \in Requests, WholeOrNone(q), reqs'[q] = reqs[q],
         seen \subseteq seen', UuidsOf(Made(q)) \cap (seen' \ seen) = {}
  PROVE  WholeOrNone(q)'
<1> DEFINE made == UuidsOf(Made(q))
<1>1. made' = made /\ InBatch(q)' = InBatch(q)
  BY DEF Made, UuidsOf, InBatch
<1> HIDE DEF made
<1>2. made \cap (seen' \ seen) = {}
  BY DEF made
<1>3. QED
  BY <1>1, <1>2 DEF WholeOrNone, made

(***************************************************************************)
(* The steps of a request, by what they make: nothing, one more uuid that  *)
(* is new, or an end of its batch.                                         *)
(***************************************************************************)
MakesNothing(r) ==
  /\ Made(r)' = {} /\ seen' = seen /\ UuidsOf(rows') \subseteq UuidsOf(rows)
  /\ reqs'[r].pc # "answered" \/ reqs'[r].status # "created"

Creates(r) ==
  \E uuid \in FreshUuids :
    /\ reqs'[r].pc = "answered" /\ reqs'[r].status = "created"
    /\ UuidsOf(Made(r)') = {uuid}
    /\ seen' = seen \cup {uuid} /\ UuidsOf(rows') = UuidsOf(rows) \cup {uuid}

Inserts(r) ==
  \E uuid \in FreshUuids :
    /\ InBatch(r) /\ InBatch(r)'
    /\ UuidsOf(Made(r)') = UuidsOf(Made(r)) \cup {uuid}
    /\ UNCHANGED <<rows, seen>>

EndsBatch(r) ==
  /\ InBatch(r) /\ reqs'[r].pc = "answered" /\ Made(r)' = Made(r)
  /\ \/ /\ reqs'[r].status \in {"invalid", "failed"} /\ UNCHANGED <<rows, seen>>
     \/ /\ reqs'[r].status \in {"created", "failed"}
        /\ seen' = seen \cup UuidsOf(Made(r))
        /\ rows' = rows \cup Made(r)

LEMMA StepKinds ==
  ASSUME TypeOK, Next
  PROVE  \E r \in Requests :
           /\ \A q \in Requests \ {r} : reqs'[q] = reqs[q]
           /\ MakesNothing(r) \/ Creates(r) \/ Inserts(r) \/ EndsBatch(r)
<1> DEFINE Goal(r) == /\ \A q \in Requests \ {r} : reqs'[q] = reqs[q]
                      /\ MakesNothing(r) \/ Creates(r) \/ Inserts(r) \/ EndsBatch(r)
<1>1. ASSUME NEW r \in Requests, NEW status \in Statuses \ {"created"},
             Becomes(r, Answer(status, {})), seen' = seen,
             UuidsOf(rows') \subseteq UuidsOf(rows)
      PROVE  Goal(r)
  BY <1>1, OneBecomes, OthersKeep DEF MakesNothing, Answer, Made
<1>2. ASSUME NEW r \in Requests, NEW text \in Descriptions, Create(r, text)
      PROVE  Goal(r)
  <2>1. CASE ~IsValid(text)
    BY <1>1, <1>2, <2>1 DEF Create, Statuses
  <2>2. CASE IsValid(text)
    <3>1. PICK uuid \in FreshUuids :
            /\ Commit({[uuid |-> uuid, text |-> text]})
            /\ Becomes(r, Answer("created", {[uuid |-> uuid, text |-> text]}))
      BY <1>2, <2>2 DEF Create
    <3>2. /\ reqs'[r] = Answer("created", {[uuid |-> uuid, text |-> text]})
          /\ \A q \in Requests \ {r} : reqs'[q] = reqs[q]
      BY <3>1, OneBecomes, OthersKeep
    <3>3. /\ reqs'[r].pc = "answered" /\ reqs'[r].status = "created"
          /\ Made(r)' = {[uuid |-> uuid, text |-> text]}
      BY <3>2 DEF Answer, Made
    <3>4. UuidsOf(Made(r)') = {uuid} /\ seen' = seen \cup {uuid}
      BY <3>1, <3>3, UuidsOfOneMore DEF Commit
    <3>5. UuidsOf(rows') = UuidsOf(rows) \cup {uuid}
      BY <3>1, UuidsOfOneMore DEF Commit
    <3>6. Creates(r)
      BY <3>3, <3>4, <3>5 DEF Creates
    <3>7. QED
      BY <3>2, <3>6
  <2>3. QED
    BY <2>1, <2>2
<1>3. ASSUME NEW r \in Requests, NEW texts \in Batches, BatchBegin(r, texts)
      PROVE  Goal(r)
  BY <1>3, OneBecomes, OthersKeep DEF BatchBegin, MakesNothing, Made
<1>4. ASSUME NEW r \in Requests, BatchInsert(r)
      PROVE  Goal(r)
  <2> DEFINE q == reqs[r]
             text == Head(q.todo)
             rest == Tail(q.todo)
  <2>1. q \in [pc : {"batch"}, todo : Batches, made : SUBSET Task]
    BY <1>4 DEF BatchInsert, HasMore, InBatch, TypeOK, RequestStates, Idle
  <2>2. PICK uuid \in FreshUuids :
          Becomes(r, [q EXCEPT !.made = @ \cup {[uuid |-> uuid, text |-> text]},
                               !.todo = Tail(@)])
    BY <1>4 DEF BatchInsert
  <2> DEFINE made == q.made \cup {[uuid |-> uuid, text |-> text]}
  <2>3. Becomes(r, [q EXCEPT !.made = made, !.todo = rest])
    BY <2>1, <2>2
  <2> HIDE DEF made, rest
  <2>4. /\ reqs'[r].pc = "batch" /\ reqs'[r].made = made
        /\ \A p \in Requests \ {r} : reqs'[p] = reqs[p]
    BY <2>1, <2>3, OneBecomes, OthersKeep
  <2>5. UuidsOf(made) = UuidsOf(q.made) \cup {uuid}
    BY UuidsOfOneMore DEF made
  <2>6. Made(r) = q.made /\ Made(r)' = made /\ InBatch(r) /\ InBatch(r)'
    BY <2>1, <2>4 DEF Made, InBatch
  <2>7. UNCHANGED <<rows, seen>>
    BY <1>4 DEF BatchInsert
  <2> HIDE DEF q
  <2>8. QED
    BY <2>4, <2>5, <2>6, <2>7 DEF Inserts
<1>5. ASSUME NEW r \in Requests, NEW status \in Statuses, InBatch(r),
             Becomes(r, Answer(status, reqs[r].made)),
             \/ status \in {"invalid", "failed"} /\ UNCHANGED <<rows, seen>>
             \/ status \in {"created", "failed"} /\ Commit(reqs[r].made)
      PROVE  Goal(r)
  <2>1. /\ reqs'[r] = Answer(status, reqs[r].made)
        /\ \A q \in Requests \ {r} : reqs'[q] = reqs[q]
    BY <1>5, OneBecomes, OthersKeep
  <2>2. /\ reqs'[r].pc = "answered" /\ reqs'[r].status = status
        /\ Made(r)' = Made(r) /\ Made(r) = reqs[r].made
    BY <1>5, <2>1 DEF Answer, Made, InBatch
  <2>3. QED
    BY <1>5, <2>1, <2>2 DEF EndsBatch, Commit
<1>6. ASSUME NEW r \in Requests, BatchInvalid(r) \/ BatchCommit(r)
      PROVE  Goal(r)
  BY <1>5, <1>6 DEF BatchInvalid, BatchCommit, HasMore, Statuses
<1>7. ASSUME NEW r \in Requests, Fail(r)
      PROVE  Goal(r)
  <2>1. CASE InBatch(r)
    BY <1>5, <1>7, <2>1 DEF Fail, Statuses
  <2>2. CASE ~InBatch(r)
    BY <1>1, <1>7, <2>2 DEF Fail, Statuses
  <2>3. QED
    BY <2>1, <2>2
<1>8. ASSUME NEW r \in Requests, NEW uuid \in Uuids, NEW text \in Descriptions,
             UpdateWrite(r, uuid, text)
      PROVE  Goal(r)
  <2>1. CASE ~IsValid(text) \/ Found(uuid) = {}
    BY <1>1, <1>8, <2>1 DEF UpdateWrite, Statuses
  <2>2. CASE IsValid(text) /\ Found(uuid) # {}
    <3>1. /\ rows' = (rows \ Found(uuid)) \cup {[uuid |-> uuid, text |-> text]}
          /\ Becomes(r, [pc |-> "written", uuid |-> uuid]) /\ seen' = seen
      BY <1>8, <2>2 DEF UpdateWrite
    <3>2. uuid \in UuidsOf(rows)
      BY <2>2 DEF Found, UuidsOf
    <3>3. UuidsOf(rows') \subseteq UuidsOf(rows)
      BY <3>1, <3>2, UuidsOfOneMore DEF UuidsOf
    <3>4. reqs'[r].pc = "written" /\ \A q \in Requests \ {r} : reqs'[q] = reqs[q]
      <4> DEFINE state == [pc |-> "written", uuid |-> uuid]
      <4>1. state.pc = "written" /\ Becomes(r, state)
        BY <3>1
      <4> HIDE DEF state
      <4>2. QED
        BY <4>1, OneBecomes, OthersKeep
    <3>5. MakesNothing(r)
      BY <3>1, <3>3, <3>4 DEF MakesNothing, Made
    <3>6. QED
      BY <3>4, <3>5
  <2>3. QED
    BY <2>1, <2>2
<1>9. ASSUME NEW r \in Requests, UpdateRead(r)
      PROVE  Goal(r)
  BY <1>1, <1>9 DEF UpdateRead, Statuses
<1>10. ASSUME NEW r \in Requests, NEW uuid \in Uuids, Delete(r, uuid)
       PROVE  Goal(r)
  <2>1. UuidsOf(rows') \subseteq UuidsOf(rows)
    BY <1>10 DEF Delete, UuidsOf
  <2>2. QED
    BY <1>1, <1>10, <2>1 DEF Delete, Statuses
<1> HIDE DEF Goal
<1>11. \E r \in Requests : Goal(r)
  BY <1>2, <1>3, <1>4, <1>6, <1>7, <1>8, <1>9, <1>10 DEF Next
<1>12. QED
  BY <1>11 DEF Goal

-----------------------------------------------------------------------------
LEMMA InitOK == Init => Inv
<1> SUFFICES ASSUME Init PROVE Inv
  OBVIOUS
<1>1. \A r \in Requests : reqs[r].pc = "idle" /\ Made(r) = {} /\ ~InBatch(r)
  BY DEF Init, Idle, Made, InBatch
<1>2. TypeOK
  BY DEF Init, TypeOK, RequestStates
<1>3. RowsAreSeen
  BY UuidsOfOneMore DEF Init, RowsAreSeen
<1>4. QED
  BY <1>1, <1>2, <1>3, InvForEach DEF WholeOrNone, Apart

LEMMA NextOK == ASSUME Inv, Next PROVE Inv'
<1>1. /\ TypeOK /\ RowsAreSeen
      /\ \A q \in Requests : WholeOrNone(q)
      /\ \A p, q \in Requests : p # q => Apart(p, q)
  BY InvForEach
<1>2. PICK r \in Requests :
        /\ \A q \in Requests \ {r} : reqs'[q] = reqs[q]
        /\ MakesNothing(r) \/ Creates(r) \/ Inserts(r) \/ EndsBatch(r)
  BY <1>1, StepKinds
<1>3. TypeOK'
  BY <1>1, TypeStays
<1>4. \A q \in Requests \ {r} : /\ UuidsOf(Made(q)') = UuidsOf(Made(q))
                                /\ InBatch(q)' = InBatch(q)
  BY <1>2 DEF Made, InBatch
<1>5. RowsAreSeen'
  <2>1. CASE EndsBatch(r)
    <3>1. UuidsOf(rows \cup Made(r)) = UuidsOf(rows) \cup UuidsOf(Made(r))
      BY DEF UuidsOf
    <3>2. QED
      BY <1>1, <2>1, <3>1 DEF EndsBatch, RowsAreSeen
  <2>2. QED
    BY <1>1, <1>2, <2>1 DEF MakesNothing, Creates, Inserts, RowsAreSeen
<1>6. UuidsOf({}) = {}
  BY UuidsOfOneMore
<1>7. \A q \in Requests \ {r} :
        /\ seen \subseteq seen' /\ UuidsOf(Made(q)) \cap (seen' \ seen) = {}
  <2>1. ASSUME EndsBatch(r), NEW q \in Requests \ {r}
        PROVE  UuidsOf(Made(q)) \cap UuidsOf(Made(r)) = {}
    BY <1>1, <2>1 DEF EndsBatch, Apart
  <2>2. QED
    BY <1>2, <2>1, FreshIsNew DEF MakesNothing, Creates, Inserts, EndsBatch
<1>8. \A q \in Requests \ {r} : WholeOrNone(q)'
  BY <1>1, <1>2, <1>7, OthersStayWhole
<1>9. WholeOrNone(r)'
  <2>1. CASE MakesNothing(r)
    BY <1>6, <2>1 DEF MakesNothing, WholeOrNone
  <2>2. CASE Creates(r)
    BY <2>2 DEF Creates, WholeOrNone, InBatch
  <2>3. CASE Inserts(r)
    BY <1>1, <2>3, FreshIsNew DEF Inserts, WholeOrNone, InBatch
  <2>4. CASE EndsBatch(r)
    BY <1>1, <2>4 DEF EndsBatch, WholeOrNone, InBatch
  <2>5. QED
    BY <1>2, <2>1, <2>2, <2>3, <2>4
<1>10. ASSUME NEW p \in Requests, NEW q \in Requests, p # q
       PROVE  Apart(p, q)'
  <2>1. Apart(p, q)
    BY <1>1, <1>10
  <2>2. CASE MakesNothing(r)
    BY <1>4, <1>6, <2>1, <2>2 DEF MakesNothing, Apart
  <2>3. CASE Creates(r)
    BY <1>4, <2>1, <2>3, FreshIsNew DEF Creates, Apart, InBatch
  <2>4. CASE Inserts(r)
    BY <1>4, <2>1, <2>4, FreshIsNew, <1>10 DEF Inserts, Apart
  <2>5. CASE EndsBatch(r)
    BY <1>4, <2>1, <2>5 DEF EndsBatch, Apart, InBatch
  <2>6. QED
    BY <1>2, <2>2, <2>3, <2>4, <2>5
<1>11. \A q \in Requests : WholeOrNone(q)'
  BY <1>8, <1>9
<1>12. BatchIsWhole'
  BY <1>11 DEF BatchIsWhole, WholeOrNone
<1>13. BatchesAreApart'
  BY <1>10 DEF BatchesAreApart, Apart
<1>14. QED
  BY <1>3, <1>5, <1>12, <1>13 DEF Inv

LEMMA StutterOK == ASSUME Inv, UNCHANGED vars PROVE Inv'
BY DEF Inv, vars, TypeOK, RowsAreSeen, BatchesAreApart, BatchIsWhole,
       InBatch, Made

LEMMA SpecInv == Spec => []Inv
<1>1. Inv /\ [Next]_vars => Inv'
  BY NextOK, StutterOK
<1>2. QED
  BY InitOK, <1>1, PTL DEF Spec

\* Every variable keeps its type.
THEOREM TypeCorrect == Spec => []TypeOK
<1>1. Inv => TypeOK
  BY DEF Inv
<1>2. QED
  BY <1>1, SpecInv, PTL

(***************************************************************************)
(* A batch is committed whole or not at all, next to any other requests.   *)
(***************************************************************************)
THEOREM BatchCorrect == Spec => []BatchIsWhole
<1>1. Inv => BatchIsWhole
  BY DEF Inv
<1>2. QED
  BY <1>1, SpecInv, PTL

\* A step adds rows with uuids never seen, or changes the texts of rows in place.
LEMMA NoneComesBack ==
  ASSUME Inv, [Next]_vars, NEW uuid \in seen, Found(uuid) = {}
  PROVE  Found(uuid)' = {}
<1>1. uuid \notin UuidsOf(rows)
  BY DEF Found, UuidsOf
<1>2. SUFFICES uuid \notin UuidsOf(rows')
  BY DEF Found, UuidsOf
<1>3. CASE UNCHANGED vars
  BY <1>1, <1>3 DEF vars
<1>4. CASE Next
  <2>1. PICK r \in Requests :
          MakesNothing(r) \/ Creates(r) \/ Inserts(r) \/ EndsBatch(r)
    BY <1>4, StepKinds DEF Inv
  <2>2. CASE MakesNothing(r) \/ Creates(r) \/ Inserts(r)
    BY <1>1, <2>2, FreshIsNew DEF MakesNothing, Creates, Inserts
  <2>3. CASE EndsBatch(r)
    <3>1. UuidsOf(Made(r)) \cap seen = {}
      BY <2>3 DEF EndsBatch, Inv, BatchIsWhole
    <3>2. UuidsOf(rows \cup Made(r)) = UuidsOf(rows) \cup UuidsOf(Made(r))
      BY DEF UuidsOf
    <3>3. QED
      BY <1>1, <2>3, <3>1, <3>2 DEF EndsBatch
  <2>4. QED
    BY <2>1, <2>2, <2>3
<1>5. QED
  BY <1>3, <1>4

(***************************************************************************)
(* A deleted task stays deleted: rows are added with uuids never seen, and *)
(* an update puts back only a row that is there.                           *)
(***************************************************************************)
THEOREM DeletedCorrect == Spec => DeletedStaysDeleted
<1>1. Inv /\ [Next]_vars =>
        [\A uuid \in seen : Found(uuid) = {} => Found(uuid)' = {}]_vars
  BY NoneComesBack
<1>2. QED
  BY <1>1, SpecInv, PTL DEF Spec, DeletedStaysDeleted
=============================================================================
