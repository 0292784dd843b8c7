------------------------------ MODULE CliProofs ------------------------------
(***************************************************************************)
(* The command line: cargo db (DatabaseAdmin) and cargo generate           *)
(* (Generator).  For any number of migrations, processes and files,        *)
(* migrations are applied in order and recorded, and a server serves a     *)
(* migrated file; for any set of names and commands, what the generator    *)
(* says is done is done, and it leaves no module declared without its file.*)
(***************************************************************************)
EXTENDS DatabaseAdmin, Generator, TLAPS

-----------------------------------------------------------------------------
(***************************************************************************)
(* The strengthening.  A migrator has behind it every migration before its *)
(* next one, whoever applied it, and what it was told is applied still is, *)
(* because a file somebody has open is never made anew: all this as long   *)
(* as the file is not torn.                                                *)
(***************************************************************************)
MigratorsGoForward ==
  \A p \in Procs : procs[p].pc = "apply" /\ procs[p].file \notin torn =>
    /\ procs[p].known \subseteq db[procs[p].file].made
    /\ \A v \in Versions : v < procs[p].next => v \in db[procs[p].file].made

\* What is written down of a torn file is how it was when it was torn.
WrittenInOrder ==
  \A f \in Files :
    /\ db[f].recorded = db[f].made
    /\ \A v \in db[f].made : 1..v \subseteq db[f].made

IInv == TypeOK /\ WrittenInOrder /\ MigratorsGoForward /\ ServingIsMigrated

LEMMA IInvImplies == IInv => AppliedInOrder /\ ServingIsMigrated
BY DEF IInv, WrittenInOrder, AppliedInOrder

-----------------------------------------------------------------------------
\* What a process in each of its states has.
LEMMA ProcessFields ==
  ASSUME NEW q \in ProcessStates
  PROVE  /\ q.pc = "list" => /\ q.file \in Files /\ q.role \in Roles
                             /\ q = [pc |-> "list", role |-> q.role, file |-> q.file]
         /\ q.pc = "apply" => /\ q.file \in Files /\ q.role \in Roles
                              /\ q.known \subseteq Versions
                              /\ q.next \in 1..(Last + 1)
                              /\ q = [pc |-> "apply", role |-> q.role,
                                      file |-> q.file, known |-> q.known,
                                      next |-> q.next]
         /\ q.pc = "serving" => /\ q.file \in Files /\ q.conns \subseteq Files
                                /\ q = [pc |-> "serving", file |-> q.file,
                                        conns |-> q.conns]
BY DEF ProcessStates, Idle

LEMMA InitOK == Init => IInv
<1> SUFFICES ASSUME Init PROVE IInv
  OBVIOUS
<1>1. \A p \in Procs : procs[p].pc = "idle" /\ procs[p] \in ProcessStates
  BY DEF Init, Idle, ProcessStates
<1>2. \A f \in Files : db[f].made = {} /\ db[f].recorded = {}
  BY DEF Init, Empty
<1>3. TypeOK
  BY <1>1 DEF Init, TypeOK, Empty
<1>4. QED
  BY <1>1, <1>2, <1>3 DEF IInv, WrittenInOrder, MigratorsGoForward,
                          ServingIsMigrated

-----------------------------------------------------------------------------
(***************************************************************************)
(* What happens to the files: nothing a process has open, or served from   *)
(* the start, loses a migration or is whole again once it is torn, and the *)
(* path comes to name no such file.                                        *)
(***************************************************************************)
Keeps(p) ==
  Opened(p) \cup IF procs[p].pc = "serving" THEN {procs[p].file} ELSE {}

FilesOnlyGrow ==
  \A p \in Procs : \A f \in Keeps(p) :
    /\ db[f].made \subseteq db'[f].made
    /\ db[f].recorded \subseteq db'[f].recorded
    /\ f \in torn => f \in torn'

RemovedStaysRemoved ==
  \A p \in Procs : \A f \in Keeps(p) : path' = f => path = f

FilesOK ==
  /\ path \in Files \cup {NoFile}
  /\ db \in [Files -> [made : SUBSET Versions, recorded : SUBSET Versions]]
  /\ beside \subseteq Files
  /\ torn \subseteq Files
  /\ hurt \in SUBSET Files
  /\ WrittenInOrder

FilesStep == FilesOK' /\ FilesOnlyGrow /\ RemovedStaysRemoved

LEMMA KeptAreFiles ==
  ASSUME IInv PROVE \A p \in Procs : Keeps(p) \subseteq Files
BY ProcessFields DEF IInv, TypeOK, Keeps, Opened, Migrating

LEMMA NewFileIsSafe ==
  ASSUME IInv, NEW f \in Files, NewFile(f)
  PROVE  FilesStep /\ path' = f
<1>1. /\ path' = f /\ db' = [db EXCEPT ![f] = Empty] /\ hurt' = hurt \ {f}
      /\ \A p \in Procs : f \notin Keeps(p)
  BY DEF NewFile, InUse, Remembered, Keeps
<1>2. Empty \in [made : SUBSET Versions, recorded : SUBSET Versions]
  BY DEF Empty
<1>3. /\ db' \in [Files -> [made : SUBSET Versions, recorded : SUBSET Versions]]
      /\ db'[f] = Empty /\ \A g \in Files \ {f} : db'[g] = db[g]
  BY <1>1, <1>2 DEF IInv, TypeOK
<1>4. WrittenInOrder'
  BY <1>3 DEF IInv, WrittenInOrder, Empty
<1>5. /\ beside' \subseteq Files /\ torn' \subseteq Files
      /\ torn \ {f} \subseteq torn'
  BY DEF NewFile, IInv, TypeOK
<1>6. FilesOnlyGrow /\ RemovedStaysRemoved
  BY <1>1, <1>3, <1>5, KeptAreFiles DEF FilesOnlyGrow, RemovedStaysRemoved
<1>7. QED
  BY <1>1, <1>3, <1>4, <1>5, <1>6 DEF FilesStep, FilesOK, IInv, TypeOK

LEMMA OpenIsSafe ==
  ASSUME IInv, NEW f \in Files, Open(f)
  PROVE  FilesStep /\ path' = f
<1>1. CASE path # NoFile
  BY <1>1 DEF IInv, TypeOK, Open, database, FilesStep, FilesOK, FilesOnlyGrow,
              RemovedStaysRemoved, WrittenInOrder
<1>2. CASE path = NoFile
  BY <1>2, NewFileIsSafe DEF Open
<1>3. QED
  BY <1>1, <1>2

LEMMA LeavingFilesIsSafe ==
  ASSUME IInv, path' \in {path, NoFile}, db' = db, beside' \subseteq Files,
         torn \subseteq torn', torn' \subseteq Files, hurt' \in SUBSET Files
  PROVE  FilesStep
BY KeptAreFiles, NoFileAssumption
   DEF IInv, TypeOK, FilesStep, FilesOK, FilesOnlyGrow, RemovedStaysRemoved,
       WrittenInOrder

\* What is true of process p.
ProcOK(p) ==
  /\ procs[p] \in ProcessStates
  /\ procs[p].pc = "apply" /\ procs[p].file \notin torn =>
       /\ procs[p].known \subseteq db[procs[p].file].made
       /\ \A v \in Versions : v < procs[p].next => v \in db[procs[p].file].made
  /\ procs[p].pc = "serving" =>
       /\ procs[p].file \notin torn => Complete(procs[p].file)
       /\ path = procs[p].file => procs[p].conns \subseteq {procs[p].file}

LEMMA InvariantByParts ==
  IInv <=> /\ FilesOK /\ procs \in [Procs -> ProcessStates]
           /\ \A p \in Procs : ProcOK(p)
BY DEF IInv, TypeOK, FilesOK, MigratorsGoForward, ServingIsMigrated, ProcOK

LEMMA NextInvariantByParts ==
  ASSUME FilesOK', (procs \in [Procs -> ProcessStates])',
         \A p \in Procs : ProcOK(p)'
  PROVE  IInv'
BY DEF IInv, TypeOK, FilesOK, MigratorsGoForward, ServingIsMigrated, ProcOK

\* The file of a server stays complete, and in place or away.
LEMMA ServedStaysComplete ==
  ASSUME IInv, FilesStep, NEW p \in Procs, procs[p].pc = "serving"
  PROVE  /\ procs[p].file \notin torn' => db'[procs[p].file].recorded = Versions
         /\ path' = procs[p].file => path = procs[p].file
<1> DEFINE f == procs[p].file
<1>1. ProcOK(p) /\ procs[p] \in ProcessStates
  BY InvariantByParts
<1>2. f \in Files /\ f \in Keeps(p)
  BY <1>1, ProcessFields DEF Keeps
<1>3. ASSUME f \notin torn' PROVE db'[f].recorded = Versions
  <2>1. f \notin torn
    BY <1>2, <1>3 DEF FilesStep, FilesOnlyGrow
  <2>2. db[f].recorded = Versions /\ db[f].recorded \subseteq db'[f].recorded
    BY <1>1, <1>2, <2>1 DEF ProcOK, Complete, FilesStep, FilesOnlyGrow
  <2>3. db'[f].recorded \subseteq Versions
    BY <1>2 DEF FilesStep, FilesOK
  <2>4. QED
    BY <2>2, <2>3
<1>4. QED
  BY <1>2, <1>3 DEF FilesStep, RemovedStaysRemoved

\* A process that does nothing is not disturbed by what happens to the files.
LEMMA OthersStayOK ==
  ASSUME IInv, FilesStep, NEW p \in Procs, procs'[p] = procs[p]
  PROVE  ProcOK(p)'
<1>1. ProcOK(p)
  BY InvariantByParts
<1>2. CASE procs[p].pc = "apply"
  <2>1. procs[p].file \in Keeps(p)
    BY <1>2 DEF Keeps, Opened, Migrating
  <2>2. QED
    BY <1>1, <1>2, <2>1 DEF ProcOK, FilesStep, FilesOnlyGrow
<1>3. CASE procs[p].pc = "serving"
  BY <1>1, <1>3, ServedStaysComplete DEF ProcOK, Complete
<1>4. QED
  BY <1>1, <1>2, <1>3 DEF ProcOK

\* So a step is safe if it is safe for the files and for the process it is of.
LEMMA StepOfOne ==
  ASSUME IInv, FilesStep, NEW p \in Procs, NEW state \in ProcessStates,
         Becomes(p, state), ProcOK(p)'
  PROVE  IInv'
<1>1. procs' = [procs EXCEPT ![p] = state] /\ procs \in [Procs -> ProcessStates]
  BY DEF Becomes, IInv, TypeOK
<1>2. \A q \in Procs \ {p} : ProcOK(q)'
  BY <1>1, OthersStayOK
<1>3. QED
  BY <1>1, <1>2, NextInvariantByParts DEF FilesStep

LEMMA StepOfNone == ASSUME IInv, FilesStep, procs' = procs PROVE IInv'
<1>1. \A q \in Procs : ProcOK(q)'
  BY OthersStayOK
<1>2. QED
  BY <1>1, NextInvariantByParts DEF FilesStep, IInv, TypeOK

\* A process that is neither applying nor serving owes nothing.
LEMMA Unburdened ==
  ASSUME NEW p \in Procs, (procs[p])' \in ProcessStates,
         (procs[p])'.pc \notin {"apply", "serving"}
  PROVE  ProcOK(p)'
BY DEF ProcOK
-----------------------------------------------------------------------------
LEMMA StepOK == IInv /\ [Next]_vars => IInv'
<1> SUFFICES ASSUME IInv, [Next]_vars PROVE IInv'
  OBVIOUS
<1> USE DEF IInv
<1>1. CASE UNCHANGED vars
  <2>1. FilesStep
    BY <1>1, LeavingFilesIsSafe DEF vars, database, TypeOK
  <2>2. QED
    BY <1>1, <2>1, StepOfNone DEF vars
<1>2. ASSUME NEW p \in Procs, NEW role \in Removers, DropFile(p, role)
      PROVE  IInv'
  <2>1. FilesStep
    BY <1>2, LeavingFilesIsSafe DEF DropFile, TypeOK
  <2> DEFINE state == [pc |-> "wal", role |-> role]
  <2>2. state \in ProcessStates /\ Becomes(p, state)
    BY <1>2 DEF DropFile, ProcessStates
  <2>3. procs'[p] = state
    BY <2>2 DEF Becomes, TypeOK
  <2>4. QED
    BY <2>1, <2>2, <2>3, Unburdened, StepOfOne
<1>3. CASE Create
  BY <1>3, OpenIsSafe, StepOfNone DEF Create
<1>4. ASSUME NEW p \in Procs, DropWal(p) \/ DropShm(p) PROVE IInv'
  <2>1. torn \subseteq torn' /\ torn' \subseteq Files
    BY <1>4 DEF DropWal, DropShm, Unlogged, TypeOK
  <2>2. FilesStep
    BY <1>4, <2>1, LeavingFilesIsSafe DEF DropWal, DropShm, TypeOK
  <2>3. /\ procs[p] \in ProcessStates /\ procs[p].role \in Removers
        /\ procs[p] = [pc |-> procs[p].pc, role |-> procs[p].role]
    BY <1>4 DEF DropWal, DropShm, TypeOK, ProcessStates, Idle
  <2>4. PICK state \in ProcessStates :
          Becomes(p, state) /\ state.pc \notin {"apply", "serving"}
    <3>1. CASE DropWal(p)
      <4> DEFINE state == [pc |-> "shm", role |-> procs[p].role]
      <4>1. [procs[p] EXCEPT !.pc = "shm"] = state
        BY <2>3
      <4>2. state \in ProcessStates /\ state.pc \notin {"apply", "serving"}
        BY <2>3 DEF ProcessStates
      <4>3. QED
        BY <3>1, <4>1, <4>2 DEF DropWal
    <3>2. CASE DropShm(p)
      <4>1. /\ [pc |-> "create"] \in ProcessStates /\ Idle \in ProcessStates
            /\ Idle.pc = "idle"
        BY DEF ProcessStates, Idle
      <4>2. \/ Becomes(p, [pc |-> "create"])
            \/ Becomes(p, Idle)
        BY <3>2 DEF DropShm
      <4>3. QED
        BY <4>1, <4>2
    <3>3. QED
      BY <1>4, <3>1, <3>2
  <2>5. procs'[p] = state
    BY <2>4 DEF Becomes, TypeOK
  <2>6. QED
    BY <2>2, <2>4, <2>5, Unburdened, StepOfOne
<1>5. ASSUME NEW p \in Procs, ResetCreate(p) PROVE IInv'
  <2>1. FilesStep
    BY <1>5, OpenIsSafe DEF ResetCreate
  <2> DEFINE state == [pc |-> "connect"]
  <2>2. state \in ProcessStates /\ Becomes(p, state)
    BY <1>5 DEF ResetCreate, ProcessStates
  <2>3. procs'[p] = state
    BY <2>2 DEF Becomes, TypeOK
  <2>4. QED
    BY <2>1, <2>2, <2>3, Unburdened, StepOfOne
<1>6. ASSUME NEW p \in Procs, NEW role \in Roles, Connect(p, role) PROVE IInv'
  <2>1. PICK f \in Files :
          Open(f) /\ Becomes(p, [pc |-> "list", role |-> role, file |-> f])
    BY <1>6 DEF Connect
  <2>2. FilesStep
    BY <2>1, OpenIsSafe
  <2> DEFINE state == [pc |-> "list", role |-> role, file |-> f]
  <2>3. state \in ProcessStates /\ Becomes(p, state)
    BY <2>1 DEF ProcessStates
  <2>4. procs'[p] = state
    BY <2>3 DEF Becomes, TypeOK
  <2>5. QED
    BY <2>2, <2>3, <2>4, Unburdened, StepOfOne
<1>7. ASSUME NEW p \in Procs, List(p) PROVE IInv'
  <2> DEFINE f == procs[p].file
             state == [pc |-> "apply", role |-> procs[p].role, file |-> f,
                       known |-> Listed(f), next |-> 1]
  <2>1. procs[p].role \in Roles /\ f \in Files
    BY <1>7, ProcessFields DEF List, TypeOK
  <2>2. Listed(f) \subseteq Versions /\ Listed(f) = db[f].made
    BY <2>1 DEF Listed, TypeOK, WrittenInOrder
  <2>3. Becomes(p, state) /\ UNCHANGED database
    BY <1>7 DEF List
  <2>4. state \in ProcessStates
    BY <2>1, <2>2, LastAssumption DEF ProcessStates
  <2>5. procs'[p] = state
    BY <2>3 DEF Becomes, TypeOK
  <2>6. FilesStep
    BY <1>7, <2>3, LeavingFilesIsSafe DEF List, database, TypeOK
  <2>7. ProcOK(p)'
    <3>1. \A v \in Versions : ~(v < 1)
      BY DEF Versions
    <3>2. QED
      BY <2>2, <2>3, <2>4, <2>5, <3>1 DEF ProcOK, database
  <2>8. QED
    BY <2>3, <2>4, <2>6, <2>7, StepOfOne
<1>8. ASSUME NEW p \in Procs, Apply(p) PROVE IInv'
  <2> DEFINE q == procs[p]
             f == q.file
             state == [q EXCEPT !.next = @ + 1]
  <2>1. /\ q.pc = "apply" /\ q.next <= Last /\ f \in Files /\ q.role \in Roles
        /\ q.known \subseteq Versions /\ q.next \in 1..(Last + 1)
        /\ q = [pc |-> "apply", role |-> q.role, file |-> f,
                known |-> q.known, next |-> q.next]
    BY <1>8, ProcessFields DEF Apply, TypeOK
  <2>2. /\ q.next \in Versions /\ f \notin torn
        /\ UNCHANGED <<path, beside, torn, hurt>>
    BY <1>8, <2>1, LastAssumption DEF Apply, Versions
  <2>3. /\ q.known \subseteq db[f].made
        /\ \A v \in Versions : v < q.next => v \in db[f].made
    BY <2>1, <2>2 DEF MigratorsGoForward
  <2>4. state = [pc |-> "apply", role |-> q.role, file |-> f,
                 known |-> q.known, next |-> q.next + 1]
    BY <2>1
  <2>5. state \in ProcessStates
    BY <2>1, <2>4, LastAssumption DEF ProcessStates
  <2>6. CASE q.next \notin q.known /\ q.next \in db[f].made
    <3>1. Becomes(p, Idle) /\ db' = db
      BY <1>8, <2>6 DEF Apply, VersionOf
    <3>2. FilesStep
      BY <2>2, <3>1, LeavingFilesIsSafe DEF TypeOK
    <3>3. procs'[p] = Idle /\ Idle \in ProcessStates /\ Idle.pc = "idle"
      BY <3>1 DEF Becomes, TypeOK, ProcessStates, Idle
    <3>4. QED
      BY <3>1, <3>2, <3>3, Unburdened, StepOfOne
  <2>7. CASE q.next \in q.known
    <3>1. Becomes(p, state) /\ db' = db
      BY <1>8, <2>7 DEF Apply, VersionOf
    <3>2. FilesStep
      BY <2>2, <3>1, LeavingFilesIsSafe DEF TypeOK
    <3>3. procs'[p] = state
      BY <3>1 DEF Becomes, TypeOK
    <3>4. \A v \in Versions : v < q.next + 1 => v \in db[f].made
      BY <2>1, <2>3, <2>7, LastAssumption DEF Versions
    <3>5. ProcOK(p)'
      BY <2>3, <2>4, <2>5, <3>1, <3>3, <3>4 DEF ProcOK
    <3>6. QED
      BY <2>5, <3>1, <3>2, <3>5, StepOfOne
  <2>8. CASE q.next \notin q.known /\ q.next \notin db[f].made
    <3>1. Becomes(p, state) /\ db' = [db EXCEPT ![f] = Applied(@, q.next)]
      BY <1>8, <2>8 DEF Apply, VersionOf
    <3>2. /\ db'[f].made = db[f].made \cup {q.next}
          /\ db'[f].recorded = db[f].recorded \cup {q.next}
          /\ \A g \in Files \ {f} : db'[g] = db[g]
          /\ db' \in [Files -> [made : SUBSET Versions, recorded : SUBSET Versions]]
      BY <2>1, <2>2, <3>1 DEF Applied, TypeOK
    <3>3. WrittenInOrder'
      <4>1. SUFFICES ASSUME NEW g \in Files
                     PROVE  /\ db'[g].recorded = db'[g].made
                            /\ \A v \in db'[g].made : 1..v \subseteq db'[g].made
        BY DEF WrittenInOrder
      <4>2. CASE g # f
        BY <3>2, <4>2 DEF WrittenInOrder
      <4>3. CASE g = f
        <5>1. 1..q.next \subseteq db[f].made \cup {q.next}
          BY <2>1, <2>2, <2>3, LastAssumption DEF Versions
        <5>2. QED
          BY <2>1, <3>2, <4>3, <5>1 DEF WrittenInOrder
      <4>4. QED
        BY <4>2, <4>3
    <3>4. \A r \in Procs : Keeps(r) \subseteq Files
      BY KeptAreFiles
    <3>5. FilesOnlyGrow
      BY <2>2, <3>2, <3>4 DEF FilesOnlyGrow
    <3>6. FilesStep
      BY <2>2, <3>2, <3>3, <3>5
         DEF FilesStep, FilesOK, RemovedStaysRemoved, TypeOK
    <3>7. procs'[p] = state
      BY <3>1 DEF Becomes, TypeOK
    <3>8. \A v \in Versions : v < q.next + 1 => v \in db'[f].made
      BY <2>1, <2>3, <3>2, LastAssumption DEF Versions
    <3>9. ProcOK(p)'
      BY <2>3, <2>4, <2>5, <3>2, <3>7, <3>8 DEF ProcOK
    <3>10. QED
      BY <2>5, <3>1, <3>6, <3>9, StepOfOne
  <2>9. QED
    BY <2>6, <2>7, <2>8
<1>9. ASSUME NEW p \in Procs, Finish(p) PROVE IInv'
  <2> DEFINE q == procs[p]
             f == q.file
             state == [pc |-> "serving", file |-> f, conns |-> {f}]
  <2>1. /\ q.pc = "apply" /\ q.next > Last /\ f \in Files
        /\ q.next \in 1..(Last + 1)
        /\ UNCHANGED <<database, hurt>>
    BY <1>9, ProcessFields DEF Finish, AllDone, TypeOK
  <2>2. FilesStep
    BY <2>1, LeavingFilesIsSafe DEF database, TypeOK
  <2>3. ASSUME f \notin torn PROVE db[f].recorded = Versions
    <3>1. Versions \subseteq db[f].made
      BY <2>1, <2>3, LastAssumption DEF MigratorsGoForward, Versions
    <3>2. QED
      BY <2>1, <3>1 DEF WrittenInOrder, TypeOK
  <2>4. CASE q.role = "server"
    <3>1. Becomes(p, state)
      BY <1>9, <2>4 DEF Finish
    <3>2. state \in ProcessStates
      BY <2>1 DEF ProcessStates
    <3>3. procs'[p] = state
      BY <3>1 DEF Becomes, TypeOK
    <3>4. ProcOK(p)'
      BY <2>1, <2>3, <3>2, <3>3 DEF ProcOK, Complete, database
    <3>5. QED
      BY <2>2, <3>1, <3>2, <3>4, StepOfOne
  <2>5. CASE q.role # "server"
    <3>1. Becomes(p, Idle)
      BY <1>9, <2>5 DEF Finish
    <3>2. procs'[p] = Idle /\ Idle \in ProcessStates /\ Idle.pc = "idle"
      BY <3>1 DEF Becomes, TypeOK, ProcessStates, Idle
    <3>3. QED
      BY <2>2, <3>1, <3>2, Unburdened, StepOfOne
  <2>6. QED
    BY <2>4, <2>5
<1>10. ASSUME NEW p \in Procs, OpenConnection(p) PROVE IInv'
  <2>1. PICK f \in Files :
          Open(f) /\ Becomes(p, [procs[p] EXCEPT !.conns = @ \cup {f}])
    BY <1>10 DEF OpenConnection
  <2>2. FilesStep /\ path' = f
    BY <2>1, OpenIsSafe
  <2> DEFINE q == procs[p]
             state == [q EXCEPT !.conns = @ \cup {f}]
  <2>3. /\ q.pc = "serving" /\ q.file \in Files /\ q.conns \subseteq Files
        /\ q = [pc |-> "serving", file |-> q.file, conns |-> q.conns]
    BY <1>10, ProcessFields DEF OpenConnection, TypeOK
  <2>4. state = [pc |-> "serving", file |-> q.file, conns |-> q.conns \cup {f}]
    BY <2>3
  <2>5. state \in ProcessStates
    BY <2>3, <2>4 DEF ProcessStates
  <2>6. procs'[p] = state
    BY <2>1 DEF Becomes, TypeOK
  <2>7. ProcOK(p)'
    BY <2>2, <2>3, <2>4, <2>5, <2>6, ServedStaysComplete
       DEF ProcOK, Complete, ServingIsMigrated
  <2>8. QED
    BY <2>1, <2>2, <2>5, <2>7, StepOfOne
<1>11. ASSUME NEW p \in Procs, CloseConnection(p) PROVE IInv'
  <2> DEFINE q == procs[p]
  <2>1. PICK f \in q.conns : Becomes(p, [q EXCEPT !.conns = @ \ {f}])
    BY <1>11 DEF CloseConnection
  <2>2. FilesStep /\ UNCHANGED database
    BY <1>11, LeavingFilesIsSafe DEF CloseConnection, database, TypeOK
  <2> DEFINE state == [q EXCEPT !.conns = @ \ {f}]
  <2>3. /\ q.pc = "serving" /\ q.file \in Files /\ q.conns \subseteq Files
        /\ q = [pc |-> "serving", file |-> q.file, conns |-> q.conns]
    BY <1>11, ProcessFields DEF CloseConnection, TypeOK
  <2>4. state = [pc |-> "serving", file |-> q.file, conns |-> q.conns \ {f}]
    BY <2>3
  <2>5. state \in ProcessStates
    BY <2>3, <2>4 DEF ProcessStates
  <2>6. procs'[p] = state
    BY <2>1 DEF Becomes, TypeOK
  <2>7. ProcOK(p)'
    BY <2>2, <2>3, <2>4, <2>5, <2>6
       DEF ProcOK, Complete, ServingIsMigrated, database
  <2>8. QED
    BY <2>1, <2>2, <2>5, <2>7, StepOfOne
<1>12. ASSUME NEW p \in Procs, Stop(p) PROVE IInv'
  <2>1. Migrating(p) => procs[p].file \in Files
    BY <1>12, ProcessFields DEF Migrating, TypeOK
  <2>2. FilesStep
    BY <1>12, <2>1, LeavingFilesIsSafe DEF Stop, database, TypeOK
  <2>3. procs'[p] = Idle /\ Idle \in ProcessStates /\ Idle.pc = "idle"
    BY <1>12 DEF Stop, Becomes, TypeOK, ProcessStates, Idle
  <2>4. QED
    BY <1>12, <2>2, <2>3, Unburdened, StepOfOne DEF Stop
<1>13. ASSUME NEW p \in Procs, ApplyTorn(p) PROVE IInv'
  <2> DEFINE q == procs[p]
             state == [pc |-> "apply", role |-> q.role, file |-> q.file,
                       known |-> q.known, next |-> q.next + 1]
  <2>1. /\ q.next <= Last /\ q.file \in torn /\ q.file \in Files
        /\ q.role \in Roles /\ q.known \subseteq Versions
        /\ q.next \in 1..(Last + 1) /\ UNCHANGED <<database, hurt>>
        /\ [q EXCEPT !.next = @ + 1] = state
    BY <1>13, ProcessFields DEF ApplyTorn, TypeOK
  <2>2. state \in ProcessStates
    BY <2>1, LastAssumption DEF ProcessStates
  <2>3. Becomes(p, state)
    BY <1>13, <2>1 DEF ApplyTorn
  <2>4. procs'[p] = state
    BY <2>3 DEF Becomes, TypeOK
  <2>5. ProcOK(p)'
    BY <2>1, <2>2, <2>4 DEF ProcOK, database
  <2>6. FilesStep
    BY <2>1, LeavingFilesIsSafe DEF database, TypeOK
  <2>7. QED
    BY <2>2, <2>3, <2>5, <2>6, StepOfOne
<1>14. QED
  BY <1>1, <1>2, <1>3, <1>4, <1>5, <1>6, <1>7, <1>8, <1>9, <1>10, <1>11, <1>12,
     <1>13 DEF Next, Step

-----------------------------------------------------------------------------
LEMMA Inductive == Spec => []IInv
<1>1. Init => IInv
  BY InitOK
<1>2. IInv /\ [Next]_vars => IInv'
  BY StepOK
<1>3. QED
  BY <1>1, <1>2, PTL DEF Spec

\* The path, the files and the processes keep their types.
THEOREM TypeCorrect == Spec => []TypeOK
<1>1. IInv => TypeOK
  BY DEF IInv
<1>2. QED
  BY <1>1, Inductive, PTL

\* Any number of migrators, cut short anywhere, leave every file that is not
\* torn with the migrations up to some point, each of them recorded
\* (cli/src/bin/db.rs, migrate and reset; db/src/lib.rs, run_migrations).
THEOREM MigrationsCorrect == Spec => []AppliedInOrder
BY IInvImplies, Inductive, PTL

(***************************************************************************)
(* A server that serves has every migration in the file it ran them on,    *)
(* unless that is torn, and no other file open until it is removed; what   *)
(* it has open afterwards may be another file, without any                 *)
(* (web/src/lib.rs, run; db/src/lib.rs, connect_pool).                     *)
(***************************************************************************)
THEOREM ServersCorrect == Spec => []ServingIsMigrated
BY IInvImplies, Inductive, PTL

-----------------------------------------------------------------------------
(***************************************************************************)
(* Migrators that meet.  One of them leads: what has been made since it    *)
(* took its list is behind it, so its next CREATE TABLE will not meet an   *)
(* existing table.  This is the safety in RacingMigrationsFinish.          *)
(***************************************************************************)
IsOn(p, f) == Migrating(p) /\ procs[p].file = f

Leads(p, f) ==
  /\ IsOn(p, f)
  /\ procs[p].pc = "apply" =>
       \A v \in db[f].made : v < procs[p].next \/ v \in procs[p].known

IsLed(f) ==
  f \notin hurt \cup torn /\ (db[f].made # {} \/ \E p \in Procs : IsOn(p, f)) =>
    Complete(f) \/ \E p \in Procs : Leads(p, f)

SomeoneLeads == \A f \in Files : IsLed(f)

\* What comes and goes elsewhere does not matter to a file.
LEMMA ElsewhereLeavesLed ==
  ASSUME NEW f \in Files, IsLed(f), db'[f] = db[f],
         f \in hurt \cup torn => f \in hurt' \cup torn',
         \A p \in Procs : procs'[p] = procs[p] \/ (~IsOn(p, f) /\ ~IsOn(p, f)')
  PROVE  IsLed(f)'
<1>1. \A p \in Procs : IsOn(p, f)' <=> IsOn(p, f)
  BY DEF IsOn, Migrating
<1>2. \A p \in Procs : Leads(p, f) => Leads(p, f)'
  BY <1>1 DEF Leads, IsOn
<1>3. QED
  BY <1>1, <1>2 DEF IsLed, Complete

LEMMA OpenLeavesLed ==
  ASSUME IInv, NEW g \in Files, Open(g), NEW f \in Files, IsLed(f),
         \A p \in Procs : procs'[p] = procs[p] \/ (~IsOn(p, f) /\ ~IsOn(p, f)')
  PROVE  IsLed(f)'
<1>1. CASE path # NoFile
  BY <1>1, ElsewhereLeavesLed DEF Open, database
<1>2. CASE path = NoFile /\ f # g
  BY <1>2, ElsewhereLeavesLed DEF Open, NewFile, IInv, TypeOK
<1>3. CASE path = NoFile /\ f = g
  <2>1. db'[f].made = {}
    BY <1>3 DEF Open, NewFile, Empty, IInv, TypeOK
  <2>2. \A p \in Procs : ~IsOn(p, f)'
    BY <1>3 DEF Open, NewFile, InUse, Opened, IsOn, Migrating
  <2>3. QED
    BY <2>1, <2>2 DEF IsLed
<1>4. QED
  BY <1>1, <1>2, <1>3

\* A step of one process, seen from a file it is not migrating.
LEMMA OthersAreElsewhere ==
  ASSUME IInv, NEW p \in Procs, NEW state, Becomes(p, state), NEW f \in Files,
         ~IsOn(p, f), state.pc \notin {"list", "apply"} \/ state.file # f
  PROVE  \A q \in Procs : procs'[q] = procs[q] \/ (~IsOn(q, f) /\ ~IsOn(q, f)')
BY DEF IInv, TypeOK, Becomes, IsOn, Migrating

LEMMA ConnectLeads ==
  ASSUME IInv, NEW f \in Files, IsLed(f),
         NEW p \in Procs, NEW role \in Roles, Connect(p, role)
  PROVE  IsLed(f)'
<1>1. PICK g \in Files :
        Open(g) /\ Becomes(p, [pc |-> "list", role |-> role, file |-> g])
  BY DEF Connect
<1>2. CASE g = f
  <2>1. procs'[p] = [pc |-> "list", role |-> role, file |-> f]
    BY <1>1, <1>2 DEF Becomes, IInv, TypeOK
  <2>2. Leads(p, f)'
    BY <2>1 DEF Leads, IsOn, Migrating
  <2>3. QED
    BY <2>2 DEF IsLed
<1>3. CASE g # f
  <2>1. ~IsOn(p, f)
    BY DEF Connect, IsOn, Migrating, Idle
  <2>2. QED
    BY <1>1, <1>3, <2>1, OthersAreElsewhere, OpenLeavesLed
<1>4. QED
  BY <1>2, <1>3

LEMMA ListLeads ==
  ASSUME IInv, NEW f \in Files, IsLed(f), NEW p \in Procs, List(p)
  PROVE  IsLed(f)'
<1> DEFINE g == procs[p].file
           state == [pc |-> "apply", role |-> procs[p].role, file |-> g,
                     known |-> Listed(g), next |-> 1]
<1>1. Becomes(p, state) /\ db' = db /\ torn' = torn /\ hurt' = hurt \ {g}
  BY DEF List, database
<1>2. CASE g = f
  <2>1. procs'[p] = state
    BY <1>1 DEF Becomes, IInv, TypeOK
  <2>2. db'[f].made = Listed(g)
    BY <1>1, <1>2 DEF Listed, IInv, WrittenInOrder
  <2>3. Leads(p, f)'
    BY <1>2, <2>1, <2>2 DEF Leads, IsOn, Migrating
  <2>4. QED
    BY <2>3 DEF IsLed
<1>3. CASE g # f
  <2>1. ~IsOn(p, f) /\ state.file # f
    BY <1>3 DEF IsOn
  <2>2. QED
    BY <1>1, <1>3, <2>1, OthersAreElsewhere, ElsewhereLeavesLed
<1>4. QED
  BY <1>2, <1>3

\* A migrator that gives up did not lead, and one that makes a migration leads
\* from then on: there was none above it.
LEMMA ApplyLeads ==
  ASSUME IInv, NEW f \in Files, IsLed(f), NEW p \in Procs, Apply(p)
  PROVE  IsLed(f)'
<1> DEFINE q == procs[p]
           g == q.file
           state == [q EXCEPT !.next = @ + 1]
<1>1. /\ q.pc = "apply" /\ g \in Files /\ q.next \in Versions
      /\ hurt' = hurt /\ torn' = torn
      /\ q = [pc |-> "apply", role |-> q.role, file |-> g,
              known |-> q.known, next |-> q.next]
  BY ProcessFields, LastAssumption DEF Apply, IInv, TypeOK, Versions
<1>2. state = [pc |-> "apply", role |-> q.role, file |-> g,
               known |-> q.known, next |-> q.next + 1]
  BY <1>1
<1>3. db[g].made \subseteq Versions /\ Versions \subseteq Nat
  BY <1>1, LastAssumption DEF IInv, TypeOK, Versions
<1>4. CASE g # f
  <2>1. ~IsOn(p, f) /\ db'[f] = db[f]
    BY <1>1, <1>4 DEF IsOn, Apply, IInv, TypeOK
  <2>2. PICK end : Becomes(p, end) /\ (end = Idle \/ end = state)
    BY DEF Apply
  <2>3. end.pc \notin {"list", "apply"} \/ end.file # f
    BY <1>2, <1>4, <2>2 DEF Idle
  <2>4. QED
    BY <1>1, <2>1, <2>2, <2>3, OthersAreElsewhere, ElsewhereLeavesLed
<1>5. CASE g = f /\ q.next \notin q.known /\ q.next \in db[f].made
  <2>1. Becomes(p, Idle) /\ db' = db
    BY <1>5 DEF Apply, VersionOf
  <2>2. ~Leads(p, f)
    <3> HIDE DEF q
    <3>1. q.next \in Nat /\ ~(q.next < q.next)
      BY <1>1, <1>3
    <3>2. QED
      BY <1>1, <1>5, <3>1 DEF Leads, q
  <2>3. ASSUME NEW r \in Procs, Leads(r, f) PROVE Leads(r, f)'
    <3>1. procs'[r] = procs[r]
      BY <2>1, <2>2, <2>3 DEF Becomes, IInv, TypeOK
    <3>2. QED
      BY <2>1, <2>3, <3>1 DEF Leads, IsOn, Migrating
  <2>4. IsOn(p, f)
    BY <1>1, <1>5 DEF IsOn, Migrating
  <2>5. QED
    BY <1>1, <2>1, <2>3, <2>4 DEF IsLed, Complete
<1>6. CASE g = f /\ q.next \in q.known
  <2>1. Becomes(p, state) /\ db' = db
    BY <1>6 DEF Apply, VersionOf
  <2>2. procs'[p] = state /\ \A r \in Procs \ {p} : procs'[r] = procs[r]
    BY <2>1 DEF Becomes, IInv, TypeOK
  <2>3. ASSUME NEW r \in Procs, Leads(r, f) PROVE Leads(r, f)'
    <3>1. CASE r # p
      BY <2>1, <2>2, <2>3, <3>1 DEF Leads, IsOn, Migrating
    <3>2. CASE r = p
      BY <1>1, <1>2, <1>3, <1>6, <2>1, <2>2, <2>3, <3>2 DEF Leads, IsOn, Migrating
    <3>3. QED
      BY <3>1, <3>2
  <2>4. IsOn(p, f)
    BY <1>1, <1>6 DEF IsOn, Migrating
  <2>5. QED
    BY <1>1, <2>1, <2>3, <2>4 DEF IsLed, Complete
<1>7. CASE g = f /\ q.next \notin q.known /\ q.next \notin db[f].made
  <2>1. Becomes(p, state) /\ db' = [db EXCEPT ![f] = Applied(@, q.next)]
    BY <1>7 DEF Apply, VersionOf
  <2>2. procs'[p] = state
    BY <2>1 DEF Becomes, IInv, TypeOK
  <2>3. db'[f].made = db[f].made \cup {q.next}
    BY <2>1 DEF Applied, IInv, TypeOK
  <2>4. \A v \in db[f].made : v < q.next
    <3>1. \A v \in db[f].made : 1..v \subseteq db[f].made
      BY DEF IInv, WrittenInOrder
    <3>2. \A v \in db[f].made : ~(q.next \in 1..v)
      BY <1>7, <3>1
    <3>3. QED
      BY <1>1, <1>3, <1>7, <3>2, LastAssumption DEF Versions
  <2>5. ASSUME NEW v \in db'[f].made PROVE v < q.next + 1
    <3>1. v \in Nat /\ q.next \in Nat
      BY <1>1, <1>3, <1>7, <2>3
    <3>2. v < q.next \/ v = q.next
      BY <2>3, <2>4
    <3>3. QED
      BY <3>1, <3>2
  <2>6. Leads(p, f)'
    BY <1>2, <1>7, <2>2, <2>5 DEF Leads, IsOn, Migrating
  <2>7. QED
    BY <2>6 DEF IsLed
<1>8. QED
  BY <1>4, <1>5, <1>6, <1>7

\* Who comes to the end of the list leaves the file complete.
LEMMA FinishLeads ==
  ASSUME IInv, NEW f \in Files, IsLed(f), NEW p \in Procs, Finish(p)
  PROVE  IsLed(f)'
<1> DEFINE q == procs[p]
<1>1. /\ q.pc = "apply" /\ q.next > Last /\ q.file \in Files
      /\ q.next \in 1..(Last + 1) /\ UNCHANGED <<database, hurt>>
  BY ProcessFields DEF Finish, AllDone, IInv, TypeOK
<1>2. CASE q.file = f /\ f \notin torn
  <2>1. Versions \subseteq db[f].made
    BY <1>1, <1>2, LastAssumption DEF IInv, MigratorsGoForward, Versions
  <2>2. Complete(f)'
    BY <1>1, <2>1 DEF Complete, IInv, WrittenInOrder, TypeOK, database
  <2>3. QED
    BY <2>2 DEF IsLed
<1>3. CASE q.file # f
  <2>1. PICK end : Becomes(p, end) /\ end.pc \notin {"list", "apply"}
    BY DEF Finish, Idle
  <2>2. ~IsOn(p, f)
    BY <1>3 DEF IsOn
  <2>3. QED
    BY <1>1, <2>1, <2>2, OthersAreElsewhere, ElsewhereLeavesLed DEF database
<1>4. CASE f \in torn
  BY <1>1, <1>4 DEF IsLed, database
<1>5. QED
  BY <1>2, <1>3, <1>4

\* A migrator that is stopped leaves its file hurt.
LEMMA StopLeads ==
  ASSUME IInv, NEW f \in Files, IsLed(f), NEW p \in Procs, Stop(p)
  PROVE  IsLed(f)'
<1>1. CASE IsOn(p, f)
  <2>1. f \in hurt'
    BY <1>1 DEF Stop, IsOn
  <2>2. QED
    BY <2>1 DEF IsLed
<1>2. CASE ~IsOn(p, f)
  <2>1. Becomes(p, Idle) /\ UNCHANGED database /\ hurt \subseteq hurt'
    BY DEF Stop
  <2>2. Idle.pc \notin {"list", "apply"}
    BY DEF Idle
  <2>3. QED
    BY <1>2, <2>1, <2>2, OthersAreElsewhere, ElsewhereLeavesLed DEF database
<1>3. QED
  BY <1>1, <1>2

\* What goes on with a torn file says nothing, and is nothing to the others.
LEMMA ApplyTornLeads ==
  ASSUME IInv, NEW f \in Files, IsLed(f), NEW p \in Procs, ApplyTorn(p)
  PROVE  IsLed(f)'
<1> DEFINE q == procs[p]
           state == [pc |-> "apply", role |-> q.role, file |-> q.file,
                     known |-> q.known, next |-> q.next + 1]
<1>1. /\ Becomes(p, state) /\ UNCHANGED <<database, hurt>> /\ q.file \in torn
      /\ q.pc = "apply"
  BY ProcessFields DEF ApplyTorn, IInv, TypeOK
<1>2. CASE q.file = f
  BY <1>1, <1>2 DEF IsLed, database
<1>3. CASE q.file # f
  <2>1. ~IsOn(p, f) /\ state.file # f
    BY <1>3 DEF IsOn
  <2>2. QED
    BY <1>1, <2>1, OthersAreElsewhere, ElsewhereLeavesLed DEF database
<1>4. QED
  BY <1>2, <1>3

\* Steps of processes that migrate nothing.
LEMMA BystandersLead ==
  ASSUME IInv, NEW f \in Files, IsLed(f), NEW p \in Procs,
         \/ \E role \in Removers : DropFile(p, role)
         \/ DropWal(p) \/ DropShm(p) \/ ResetCreate(p)
         \/ OpenConnection(p) \/ CloseConnection(p)
  PROVE  IsLed(f)'
<1>1. ~IsOn(p, f)
  <2>1. procs[p] = Idle \/ procs[p].pc \in {"wal", "shm", "create", "serving"}
    <3>1. ASSUME NEW role \in Removers, DropFile(p, role)
          PROVE  procs[p] = Idle
      BY <3>1 DEF DropFile
    <3>2. DropWal(p) => procs[p].pc = "wal"
      BY DEF DropWal
    <3>3. DropShm(p) => procs[p].pc = "shm"
      BY DEF DropShm
    <3>4. ResetCreate(p) => procs[p].pc = "create"
      BY DEF ResetCreate
    <3>5. OpenConnection(p) \/ CloseConnection(p) => procs[p].pc = "serving"
      BY DEF OpenConnection, CloseConnection
    <3>6. QED
      BY <3>1, <3>2, <3>3, <3>4, <3>5
  <2>2. QED
    BY <2>1 DEF IsOn, Migrating, Idle
<1>2. CASE (\E role \in Removers : DropFile(p, role)) \/ DropWal(p) \/ DropShm(p)
  <2>1. db' = db /\ torn \subseteq torn' /\ hurt' = hurt
    BY <1>2 DEF DropFile, DropWal, DropShm, Unlogged
  <2>2. PICK state : Becomes(p, state) /\ state.pc \notin {"list", "apply"}
    <3>1. CASE \E role \in Removers : DropFile(p, role)
      <4>1. PICK role \in Removers : Becomes(p, [pc |-> "wal", role |-> role])
        BY <3>1 DEF DropFile
      <4>2. QED
        BY <4>1
    <3>2. CASE DropWal(p)
      <4>1. procs[p] = [pc |-> "wal", role |-> procs[p].role]
        BY <3>2 DEF DropWal, IInv, TypeOK, ProcessStates, Idle
      <4>2. [procs[p] EXCEPT !.pc = "shm"].pc = "shm"
        BY <4>1
      <4>3. QED
        BY <3>2, <4>2 DEF DropWal
    <3>3. CASE DropShm(p)
      BY <3>3 DEF DropShm, Idle
    <3>4. QED
      BY <1>2, <3>1, <3>2, <3>3
  <2>3. QED
    BY <1>1, <2>1, <2>2, OthersAreElsewhere, ElsewhereLeavesLed
<1>3. CASE ResetCreate(p)
  <2>1. PICK g \in Files : Open(g)
    BY <1>3 DEF ResetCreate
  <2>2. Becomes(p, [pc |-> "connect"])
    BY <1>3 DEF ResetCreate
  <2>3. QED
    BY <1>1, <2>1, <2>2, OthersAreElsewhere, OpenLeavesLed
<1>4. ASSUME procs[p].pc = "serving", NEW conns
      PROVE  [procs[p] EXCEPT !.conns = conns].pc = "serving"
  <2>1. procs[p] = [pc |-> "serving", file |-> procs[p].file, conns |-> procs[p].conns]
    BY <1>4, ProcessFields DEF IInv, TypeOK
  <2>2. QED
    BY <2>1
<1>5. CASE OpenConnection(p)
  <2>1. PICK g \in Files :
          Open(g) /\ Becomes(p, [procs[p] EXCEPT !.conns = @ \cup {g}])
    BY <1>5 DEF OpenConnection
  <2>2. [procs[p] EXCEPT !.conns = @ \cup {g}].pc = "serving"
    BY <1>4, <1>5 DEF OpenConnection
  <2>3. QED
    BY <1>1, <2>1, <2>2, OthersAreElsewhere, OpenLeavesLed
<1>6. CASE CloseConnection(p)
  <2>1. PICK g \in procs[p].conns :
          Becomes(p, [procs[p] EXCEPT !.conns = @ \ {g}])
    BY <1>6 DEF CloseConnection
  <2>2. [procs[p] EXCEPT !.conns = @ \ {g}].pc = "serving"
    BY <1>4, <1>6 DEF CloseConnection
  <2>3. UNCHANGED <<database, hurt>>
    BY <1>6 DEF CloseConnection
  <2>4. QED
    BY <1>1, <2>1, <2>2, <2>3, OthersAreElsewhere, ElsewhereLeavesLed DEF database
<1>7. QED
  BY <1>2, <1>3, <1>5, <1>6

(***************************************************************************)
(* Unless a migrator of it was stopped or it is torn, a file that somebody *)
(* has begun to migrate is complete or has a migrator whose way on nobody  *)
(* is in: the racing migrators never all give up on account of each other. *)
(***************************************************************************)
THEOREM SomeoneAlwaysLeads == Spec => []SomeoneLeads
<1>1. Init => SomeoneLeads
  BY DEF Init, SomeoneLeads, IsLed, IsOn, Migrating, Idle, Empty
<1>2. ASSUME IInv, SomeoneLeads, [Next]_vars PROVE SomeoneLeads'
  <2> SUFFICES ASSUME NEW f \in Files PROVE IsLed(f)'
    BY DEF SomeoneLeads
  <2>1. IsLed(f)
    BY <1>2 DEF SomeoneLeads
  <2>2. CASE UNCHANGED vars
    BY <1>2, <2>1, <2>2, ElsewhereLeavesLed DEF vars, database
  <2>3. CASE Create
    BY <1>2, <2>1, <2>3, OpenLeavesLed DEF Create
  <2>4. QED
    BY <1>2, <2>1, <2>2, <2>3, ConnectLeads, ListLeads, ApplyLeads, ApplyTornLeads,
       FinishLeads, StopLeads, BystandersLead DEF Next, Step
<1>3. QED
  BY <1>1, <1>2, Inductive, PTL DEF Spec

-----------------------------------------------------------------------------
(***************************************************************************)
(* cargo generate, which has nothing in common with the database.  The     *)
(* strengthening: a command under way is at a step of one of its files,    *)
(* the files before that one are whole, and what is declared next has been *)
(* written.                                                                *)
(***************************************************************************)
Running == run.pc \in {"create", "write", "declare"}

StepNumber == [create |-> 1, write |-> 2, declare |-> 3]

RunIsInPlace ==
  Running =>
    /\ run.command \in AllCommands
    /\ run.file \in DOMAIN cli(run.command)
    /\ run.step = StepNumber[run.pc]
    /\ run.pc = "declare" => Current.target # "migration"

WrittenSoFar ==
  Running =>
    /\ \A i \in 1..(run.file - 1) : Whole(cli(run.command)[i], run.name)
    /\ run.pc = "declare" =>
         files[Current.target][run.name] = Current.template

GenInv == /\ GenTypeOK /\ RunIsInPlace /\ WrittenSoFar
       /\ SuccessIsComplete /\ DeclaredFilesExist

-----------------------------------------------------------------------------
\* What is written, and the list of what one command writes.
Writes == [target : Targets, template : Templates]

IsWriteList(writes) ==
  /\ Len(writes) \in {1, 2} /\ DOMAIN writes = 1..Len(writes)
  /\ \A i \in DOMAIN writes : writes[i] \in Writes
  /\ \A i, j \in DOMAIN writes : i # j => writes[i].target # writes[j].target

LEMMA OneWrite == ASSUME NEW a \in Writes PROVE IsWriteList(<<a>>)
<1>1. DOMAIN <<a>> = {1} /\ Len(<<a>>) = 1 /\ <<a>>[1] = a
  OBVIOUS
<1>2. QED
  BY <1>1 DEF IsWriteList

LEMMA TwoWrites ==
  ASSUME NEW a \in Writes, NEW b \in Writes, a.target # b.target
  PROVE  IsWriteList(<<a, b>>)
<1>1. /\ DOMAIN <<a, b>> = {1, 2} /\ Len(<<a, b>>) = 2
      /\ <<a, b>>[1] = a /\ <<a, b>>[2] = b
  OBVIOUS
<1>2. QED
  BY <1>1 DEF IsWriteList

\* A command writes one or two files, of different targets.
LEMMA CliWrites ==
  ASSUME NEW command \in AllCommands
  PROVE  IsWriteList(cli(command))
<1>1. /\ {generate_middleware, generate_controller,
          generate_controller_test, generate_migration,
          generate_entity, generate_entity_test_helper,
          generate_crud_controller, generate_crud_controller_test}
            \subseteq Writes
      /\ generate_controller.target # generate_controller_test.target
      /\ generate_crud_controller.target
           # generate_crud_controller_test.target
  BY DEF Writes, Targets, Templates, Write,
         generate_middleware, generate_controller,
         generate_controller_test, generate_migration,
         generate_entity, generate_entity_test_helper,
         generate_crud_controller, generate_crud_controller_test
<1>2. \/ cli(command) \in
            {<<generate_middleware>>, <<generate_controller_test>>,
             <<generate_migration>>, <<generate_entity>>,
             <<generate_entity_test_helper>>,
             <<generate_crud_controller_test>>}
      \/ cli(command) =
            <<generate_controller, generate_controller_test>>
      \/ cli(command) =
            <<generate_crud_controller, generate_crud_controller_test>>
  BY DEF AllCommands, cli
<1>3. QED
  BY <1>1, <1>2, OneWrite, TwoWrites

\* A file is created, written and, unless it is a migration, declared.
LastStep(target) == IF target = "migration" THEN 2 ELSE 3

LEMMA StepsOf ==
  ASSUME NEW target
  PROVE  /\ Len(Steps(target)) = LastStep(target)
         /\ Steps(target)[1] = "create" /\ Steps(target)[2] = "write"
         /\ target # "migration" => Steps(target)[3] = "declare"
BY DEF Steps, LastStep

-----------------------------------------------------------------------------
\* Where a command under way is.
LEMMA Underway ==
  ASSUME GenTypeOK, RunIsInPlace, Running
  PROVE  /\ run \in [pc : {"create", "write", "declare"}, command : Commands,
                     name : Names, override : BOOLEAN, file : 1..2, step : 1..3]
         /\ run.command \in AllCommands /\ IsWriteList(cli(run.command))
         /\ run.file \in DOMAIN cli(run.command)
         /\ Current \in Writes
         /\ run.step = StepNumber[run.pc]
         /\ run.pc = "declare" => Current.target # "migration"
<1>1. run \in [pc : {"create", "write", "declare"}, command : Commands,
               name : Names, override : BOOLEAN, file : 1..2, step : 1..3]
  BY DEF GenTypeOK, Running, NoCommand
<1>2. run.command \in AllCommands
  BY DEF RunIsInPlace
<1>3. IsWriteList(cli(run.command))
  BY <1>2, CliWrites
<1>4. QED
  BY <1>1, <1>2, <1>3 DEF RunIsInPlace, Current, IsWriteList

(***************************************************************************)
(* Where Advance goes: to the next step, to the next file, or to the end.  *)
(***************************************************************************)
NextStep ==
  /\ run.step < LastStep(Current.target)
  /\ run' = [run EXCEPT !.step = run.step + 1,
                        !.pc = Steps(Current.target)[run.step + 1]]

NextFile ==
  /\ run.step >= LastStep(Current.target)
  /\ run.file < Len(cli(run.command))
  /\ run' = [pc |-> "create", command |-> run.command, name |-> run.name,
             override |-> run.override, file |-> run.file + 1, step |-> 1]

Succeeds ==
  /\ run.step >= LastStep(Current.target)
  /\ run.file >= Len(cli(run.command))
  /\ run' = [pc |-> "succeeded", command |-> run.command, name |-> run.name]

LEMMA AdvanceGoes ==
  ASSUME GenTypeOK, RunIsInPlace, Running, Advance
  PROVE  NextStep \/ NextFile \/ Succeeds
<1>1. run.step \in 1..3 /\ run.file \in 1..2 /\ Len(cli(run.command)) \in {1, 2}
  BY Underway DEF IsWriteList
<1>2. Len(Steps(Current.target)) = LastStep(Current.target)
  BY StepsOf
<1>3. LastStep(Current.target) \in {2, 3}
  BY DEF LastStep
<1>4. \A f : Begin(run.command, run.name, run.override, f) =
               [pc |-> "create", command |-> run.command, name |-> run.name,
                override |-> run.override, file |-> f, step |-> 1]
  BY StepsOf DEF Begin
<1>5. QED
  BY <1>1, <1>2, <1>3, <1>4 DEF Advance, NextStep, NextFile, Succeeds

-----------------------------------------------------------------------------
\* What a step may do to the project: one file, and declarations are added.
Touches(target) ==
  /\ \A t \in Targets \ {target} : files'[t] = files[t]
  /\ \A t \in Targets : declared[t] \subseteq declared'[t]

LEMMA SetTouches ==
  ASSUME GenTypeOK, RunIsInPlace, Running, NEW content, Set(content)
  PROVE  /\ \A t \in Targets \ {Current.target} : files'[t] = files[t]
         /\ files'[Current.target][run.name] = content
         /\ \A n \in Names \ {run.name} :
              files'[Current.target][n] = files[Current.target][n]
         /\ content \in {"partial"} \cup Templates =>
              files' \in [Targets -> [Names -> {"absent", "partial"} \cup Templates]]
<1>1. Current.target \in Targets /\ run.name \in Names
  BY Underway DEF Writes
<1>2. files \in [Targets -> [Names -> {"absent", "partial"} \cup Templates]]
  BY DEF GenTypeOK
<1>3. QED
  BY <1>1, <1>2 DEF Set

\* The files before the one at hand have other targets, so they stay whole.
LEMMA EarlierStayWhole ==
  ASSUME GenTypeOK, RunIsInPlace, WrittenSoFar, Running,
         Touches(Current.target),
         NEW c, NEW n, c = run.command, n = run.name,
         NEW i \in 1..(run.file - 1)
  PROVE  Whole(cli(c)[i], n)'
<1> DEFINE writes == cli(c)
<1>1. /\ IsWriteList(writes) /\ run.file \in DOMAIN writes
      /\ Current = writes[run.file] /\ run.file \in 1..2
  BY Underway DEF Current
<1>2. i \in DOMAIN writes /\ i # run.file
  BY <1>1 DEF IsWriteList
<1>3. writes[i].target # Current.target /\ writes[i].target \in Targets
  BY <1>1, <1>2 DEF IsWriteList, Writes
<1>4. Whole(writes[i], n)
  BY DEF WrittenSoFar
<1>5. QED
  BY <1>3, <1>4 DEF Whole, Touches

\* The end of a file: the command goes on to the next one, or has succeeded.
LEMMA FileIsDone ==
  ASSUME GenTypeOK, RunIsInPlace, WrittenSoFar, Running, NextFile \/ Succeeds,
         Touches(Current.target),
         NEW c, NEW n, NEW f, c = run.command, n = run.name, f = run.file,
         Whole(cli(c)[f], n)'
  PROVE  RunIsInPlace' /\ WrittenSoFar' /\ SuccessIsComplete'
<1>1. /\ IsWriteList(cli(c)) /\ run.file \in DOMAIN cli(c) /\ run.file \in 1..2
  BY Underway
<1>2. f \in 1..2
  BY <1>1
<1>3. \A i \in 1..(f - 1) : Whole(cli(c)[i], n)'
  BY EarlierStayWhole
<1>4. \A i \in 1..f : Whole(cli(c)[i], n)'
  BY <1>2, <1>3
<1>5. CASE NextFile
  <2>1. /\ run' = [pc |-> "create", command |-> c, name |-> n,
                   override |-> run.override, file |-> f + 1, step |-> 1]
        /\ f < Len(cli(c))
    BY <1>2, <1>5 DEF NextFile
  <2>2. /\ run'.pc = "create" /\ run'.command = c /\ run'.name = n
        /\ run'.file = f + 1 /\ run'.step = 1
    BY <2>1
  <2>3. RunIsInPlace'
    BY <1>1, <1>2, <2>1, <2>2 DEF RunIsInPlace, StepNumber, IsWriteList
  <2>4. SuccessIsComplete'
    BY <2>2 DEF SuccessIsComplete
  <2>5. \A i \in 1..(run'.file - 1) : i \in 1..f
    BY <1>2, <2>2
  <2>6. WrittenSoFar'
    BY <1>4, <2>2, <2>5 DEF WrittenSoFar, Whole
  <2>7. QED
    BY <2>3, <2>4, <2>6
<1>6. CASE Succeeds
  <2>1. run' = [pc |-> "succeeded", command |-> c, name |-> n] /\ f >= Len(cli(c))
    BY <1>2, <1>6 DEF Succeeds
  <2>2. run'.pc = "succeeded" /\ run'.command = c /\ run'.name = n
    BY <2>1
  <2>3. \A i \in DOMAIN cli(c) : i \in 1..f
    BY <1>1, <1>2, <2>1 DEF IsWriteList
  <2>4. SuccessIsComplete'
    BY <1>4, <2>2, <2>3 DEF SuccessIsComplete, Whole
  <2>5. QED
    BY <2>2, <2>4 DEF RunIsInPlace, WrittenSoFar, Running
<1>7. QED
  BY <1>5, <1>6

\* A command that goes from one step to the next of the same file.
LEMMA FileGoesOn ==
  ASSUME GenTypeOK, RunIsInPlace, WrittenSoFar, Running, NextStep,
         Touches(Current.target),
         run.pc = "write" =>
           files'[Current.target][run.name] = Current.template
  PROVE  RunIsInPlace' /\ WrittenSoFar' /\ SuccessIsComplete'
<1>1. PICK c \in Commands, n \in Names, f \in 1..2 :
        c = run.command /\ n = run.name /\ f = run.file
  BY Underway
<1> DEFINE w == cli(c)[f]
<1>2. w = Current /\ f \in DOMAIN cli(c) /\ c \in AllCommands
  BY <1>1, Underway DEF Current
<1>3. /\ run.pc \in {"create", "write"} /\ run.step = StepNumber[run.pc]
      /\ run.pc = "write" => Current.target # "migration"
  BY Underway DEF NextStep, LastStep, StepNumber
<1>4. /\ run'.step = run.step + 1
      /\ run'.pc = Steps(Current.target)[run.step + 1]
      /\ run'.command = c /\ run'.name = n /\ run'.file = f
  BY <1>1, Underway DEF NextStep
<1>5. \/ run.pc = "create" /\ run'.pc = "write" /\ run'.step = 2
      \/ /\ run.pc = "write" /\ run'.pc = "declare" /\ run'.step = 3
         /\ w.target # "migration"
  BY <1>2, <1>3, <1>4, StepsOf DEF StepNumber
<1>6. Current' = w
  BY <1>4 DEF Current
<1>7. RunIsInPlace'
  BY <1>2, <1>4, <1>5, <1>6 DEF RunIsInPlace, StepNumber
<1>8. \A i \in 1..(f - 1) : Whole(cli(c)[i], n)'
  BY <1>1, EarlierStayWhole
<1>9. WrittenSoFar'
  BY <1>1, <1>2, <1>4, <1>5, <1>6, <1>8 DEF WrittenSoFar, Whole
<1>10. QED
  BY <1>5, <1>7, <1>9 DEF SuccessIsComplete

-----------------------------------------------------------------------------
LEMMA GenInitOK == ASSUME GenInit PROVE GenInv
<1>1. GenTypeOK
  BY DEF GenInit, GenTypeOK
<1>2. RunIsInPlace /\ WrittenSoFar /\ SuccessIsComplete
  BY DEF GenInit, NoCommand, RunIsInPlace, WrittenSoFar, Running, SuccessIsComplete
<1>3. \A t \in Targets : declared[t] \cap Names = {}
  BY PresentAssumption DEF GenInit
<1>4. QED
  BY <1>1, <1>2, <1>3 DEF GenInv, DeclaredFilesExist

LEMMA InvokeOK ==
  ASSUME GenInv, NEW command \in Commands, NEW name \in Names,
         NEW override \in BOOLEAN, Invoke(command, name, override)
  PROVE  GenInv'
<1>1. /\ run' = [pc |-> "create", command |-> command, name |-> name,
                 override |-> override, file |-> 1, step |-> 1]
      /\ UNCHANGED <<files, declared>>
  BY StepsOf DEF Invoke, Begin
<1>2. command \in AllCommands /\ IsWriteList(cli(command))
  BY CliWrites, CommandsAssumption
<1>3. GenTypeOK'
  BY <1>1 DEF GenInv, GenTypeOK
<1>4. RunIsInPlace' /\ WrittenSoFar' /\ SuccessIsComplete'
  BY <1>1, <1>2 DEF RunIsInPlace, WrittenSoFar, SuccessIsComplete, IsWriteList,
                    StepNumber
<1>5. DeclaredFilesExist'
  BY <1>1 DEF GenInv, DeclaredFilesExist
<1>6. QED
  BY <1>3, <1>4, <1>5 DEF GenInv

LEMMA RunStaysTyped ==
  ASSUME GenTypeOK, RunIsInPlace, Running, NextStep \/ NextFile \/ Succeeds
  PROVE  \/ run' \in [pc : {"create", "write", "declare"}, command : Commands,
                      name : Names, override : BOOLEAN, file : 1..2, step : 1..3]
         \/ run' \in [pc : {"succeeded"}, command : Commands, name : Names]
<1>1. /\ run \in [pc : {"create", "write", "declare"}, command : Commands,
                  name : Names, override : BOOLEAN, file : 1..2, step : 1..3]
      /\ Len(cli(run.command)) \in {1, 2}
  BY Underway DEF IsWriteList
<1>2. CASE NextStep
  <2>1. /\ run.step + 1 \in 1..LastStep(Current.target) /\ run.step + 1 \in {2, 3}
        /\ run.step + 1 = 3 => Current.target # "migration"
    BY <1>1, <1>2 DEF NextStep, LastStep
  <2>2. Steps(Current.target)[run.step + 1] \in {"create", "write", "declare"}
    BY <2>1, StepsOf
  <2> DEFINE step == run.step + 1
             pc == Steps(Current.target)[step]
  <2>3. step \in 1..3 /\ pc \in {"create", "write", "declare"}
    BY <2>1, <2>2
  <2>4. run' = [run EXCEPT !.step = step, !.pc = pc]
    BY <1>2 DEF NextStep
  <2> HIDE DEF step, pc
  <2>5. QED
    BY <1>1, <2>3, <2>4
<1>3. CASE NextFile
  <2>1. run.file + 1 \in 1..2
    <3> DEFINE f == run.file
               n == Len(cli(run.command))
    <3>1. f \in 1..2 /\ n \in {1, 2} /\ f < n
      BY <1>1, <1>3 DEF NextFile
    <3> HIDE DEF f, n
    <3>2. f + 1 \in 1..2
      BY <3>1
    <3>3. QED
      BY <3>2 DEF f
  <2>2. QED
    BY <1>1, <1>3, <2>1 DEF NextFile
<1>4. CASE Succeeds
  BY <1>1, <1>4 DEF Succeeds
<1>5. QED
  BY <1>2, <1>3, <1>4

LEMMA CreateOK == ASSUME GenInv, CreateFile PROVE GenInv'
<1> DEFINE target == Current.target
<1>1. GenTypeOK /\ RunIsInPlace /\ WrittenSoFar /\ Running /\ run.pc = "create"
  BY DEF GenInv, CreateFile, Running
<1>2. /\ \A t \in Targets \ {target} : files'[t] = files[t]
      /\ files'[target][run.name] = "partial"
      /\ \A n \in Names \ {run.name} : files'[target][n] = files[target][n]
      /\ files' \in [Targets -> [Names -> {"absent", "partial"} \cup Templates]]
      /\ declared' = declared
  BY <1>1, SetTouches DEF CreateFile
<1>3. NextStep
  <2>1. run.step = 1
    BY <1>1, Underway DEF StepNumber
  <2>2. NextStep \/ NextFile \/ Succeeds
    BY <1>1, AdvanceGoes DEF CreateFile
  <2>3. QED
    BY <2>1, <2>2 DEF NextFile, Succeeds, LastStep
<1>4. Touches(target)
  BY <1>2 DEF Touches
<1>5. RunIsInPlace' /\ WrittenSoFar' /\ SuccessIsComplete'
  BY <1>1, <1>3, <1>4, FileGoesOn
<1>6. GenTypeOK'
  BY <1>1, <1>2, <1>3, RunStaysTyped DEF GenTypeOK
<1>7. DeclaredFilesExist'
  BY <1>2 DEF GenInv, DeclaredFilesExist
<1>8. QED
  BY <1>5, <1>6, <1>7 DEF GenInv

LEMMA WriteOK == ASSUME GenInv, WriteFile PROVE GenInv'
<1> DEFINE target == Current.target
<1>1. /\ GenTypeOK /\ RunIsInPlace /\ WrittenSoFar /\ Running /\ run.pc = "write"
      /\ Current \in Writes
  BY Underway DEF GenInv, WriteFile, Running
<1>2. PICK c, n, f : c = run.command /\ n = run.name /\ f = run.file
  OBVIOUS
<1>3. /\ \A t \in Targets \ {target} : files'[t] = files[t]
      /\ files'[target][run.name] = Current.template
      /\ \A m \in Names \ {run.name} : files'[target][m] = files[target][m]
      /\ files' \in [Targets -> [Names -> {"absent", "partial"} \cup Templates]]
      /\ declared' = declared
  BY <1>1, SetTouches DEF WriteFile, Writes
<1>4. Touches(target)
  BY <1>3 DEF Touches
<1>5. NextStep \/ NextFile \/ Succeeds
  BY <1>1, AdvanceGoes DEF WriteFile
<1>6. ASSUME NextStep
      PROVE  RunIsInPlace' /\ WrittenSoFar' /\ SuccessIsComplete'
  BY <1>1, <1>3, <1>4, <1>6, FileGoesOn
<1>7. ASSUME NextFile \/ Succeeds
      PROVE  RunIsInPlace' /\ WrittenSoFar' /\ SuccessIsComplete'
  <2>1. target = "migration"
    BY <1>1, <1>7, Underway DEF NextFile, Succeeds, LastStep, StepNumber
  <2>2. Whole(cli(c)[f], n)'
    BY <1>2, <1>3, <2>1 DEF Whole, Current
  <2>3. QED
    BY <1>1, <1>2, <1>4, <1>7, <2>2, FileIsDone
<1>8. RunIsInPlace' /\ WrittenSoFar' /\ SuccessIsComplete'
  BY <1>5, <1>6, <1>7
<1>9. GenTypeOK'
  BY <1>1, <1>3, <1>5, RunStaysTyped DEF GenTypeOK
<1>10. DeclaredFilesExist'
  BY <1>1, <1>3 DEF GenInv, DeclaredFilesExist, Writes, Templates
<1>11. QED
  BY <1>8, <1>9, <1>10 DEF GenInv

LEMMA DeclareOK == ASSUME GenInv, Declare PROVE GenInv'
<1> DEFINE target == Current.target
<1>1. /\ GenTypeOK /\ RunIsInPlace /\ WrittenSoFar /\ Running /\ run.pc = "declare"
      /\ Current \in Writes /\ run.step = 3
  BY Underway DEF GenInv, Declare, Running, StepNumber
<1>2. PICK c, n, f : c = run.command /\ n = run.name /\ f = run.file
  OBVIOUS
<1>3. n \in Names
  BY <1>1, <1>2, Underway
<1>4. /\ files' = files
      /\ declared' = [declared EXCEPT ![target] = declared[target] \cup {n}]
  BY <1>2 DEF Declare, Declares
<1>5. declared \in [Targets -> SUBSET (Names \cup Present)]
  BY <1>1 DEF GenTypeOK
<1>6. /\ Touches(target) /\ n \in declared'[target]
      /\ \A t \in Targets : declared'[t] \subseteq declared[t] \cup
                              (IF t = target THEN {n} ELSE {})
      /\ declared' \in [Targets -> SUBSET (Names \cup Present)]
  BY <1>1, <1>3, <1>4, <1>5 DEF Touches, Writes
<1>7. files[target][n] = Current.template
  BY <1>1, <1>2 DEF WrittenSoFar
<1>8. NextFile \/ Succeeds
  BY <1>1, AdvanceGoes DEF Declare, NextStep, LastStep
<1>9. Whole(cli(c)[f], n)'
  BY <1>2, <1>4, <1>6, <1>7 DEF Whole, Current
<1>10. RunIsInPlace' /\ WrittenSoFar' /\ SuccessIsComplete'
  BY <1>1, <1>2, <1>6, <1>8, <1>9, FileIsDone
<1>11. GenTypeOK'
  BY <1>1, <1>4, <1>6, <1>8, RunStaysTyped DEF GenTypeOK
<1>12. DeclaredFilesExist'
  BY <1>1, <1>4, <1>6, <1>7 DEF GenInv, DeclaredFilesExist, Writes, Templates
<1>13. QED
  BY <1>10, <1>11, <1>12 DEF GenInv

LEMMA FailOK == ASSUME GenInv, Fail PROVE GenInv'
BY DEF GenInv, Fail, GenTypeOK, NoCommand, RunIsInPlace, WrittenSoFar, Running,
       SuccessIsComplete, DeclaredFilesExist

LEMMA GenStutterOK == ASSUME GenInv, UNCHANGED genVars PROVE GenInv'
BY DEF GenInv, genVars, GenTypeOK, RunIsInPlace, WrittenSoFar, Running,
       Current, Whole,
       SuccessIsComplete, DeclaredFilesExist

LEMMA GenSpecInv == GenSpec => []GenInv
<1>1. GenInit => GenInv
  BY GenInitOK
<1>2. GenInv /\ [GenNext]_genVars => GenInv'
  BY InvokeOK, CreateOK, WriteOK, DeclareOK, FailOK, GenStutterOK DEF GenNext
<1>3. QED
  BY <1>1, <1>2, PTL DEF GenSpec

\* Every variable keeps its type.
THEOREM GenTypeCorrect == GenSpec => []GenTypeOK
<1>1. GenInv => GenTypeOK
  BY DEF GenInv
<1>2. QED
  BY <1>1, GenSpecInv, PTL

(***************************************************************************)
(* A command that reports success has written and declared all its files.  *)
(***************************************************************************)
THEOREM SuccessCorrect == GenSpec => []SuccessIsComplete
<1>1. GenInv => SuccessIsComplete
  BY DEF GenInv
<1>2. QED
  BY <1>1, GenSpecInv, PTL

\* No command leaves a module declared whose file is not there.
THEOREM DeclaredCorrect == GenSpec => []DeclaredFilesExist
<1>1. GenInv => DeclaredFilesExist
  BY DEF GenInv
<1>2. QED
  BY <1>1, GenSpecInv, PTL
=============================================================================
