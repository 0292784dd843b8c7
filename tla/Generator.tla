------------------------------ MODULE Generator ------------------------------
(***************************************************************************)
(* cargo generate (cli/src/bin/generate.rs): a command renders templates   *)
(* into project files, one after another, and declares each in the mod.rs  *)
(* or main.rs of its directory.  Without --override a file in place is an  *)
(* error.  A command may end anywhere: the disk is full, a mod.rs is       *)
(* missing, the developer interrupts it; what it wrote stays.              *)
(***************************************************************************)
EXTENDS Naturals, Sequences

CONSTANTS
  Names,       \* names of things to generate, their spelling folded; of a
               \* migration, the name together with the second in its version
  Present,     \* names of the modules in place that no command is about
  Commands     \* bound: the commands in use

VARIABLES
  files,       \* files[t][n]: what is in the file for target t and name n
  declared,    \* declared[t]: the names declared in the mod.rs for target t
  run          \* the command under way, and its next step

genVars == <<files, declared, run>>

Targets == {"middleware", "controller", "controller_test", "entity", "entity_test_helper", "migration"}
AllCommands ==
  {"middleware", "controller", "controller_test", "migration", "entity",
   "entity_test_helper", "crud_controller", "crud_controller_test"}

ASSUME PresentAssumption == Names \cap Present = {}
ASSUME CommandsAssumption == Commands \subseteq AllCommands

\* Each generate function writes one file, from a template of its own.  The two
\* kinds of controllers, and of their tests, share their paths.
Write(target, template) == [target |-> target, template |-> template]
generate_middleware == Write("middleware", "minimal")
generate_controller == Write("controller", "minimal")
generate_controller_test == Write("controller_test", "minimal")
generate_migration == Write("migration", "minimal")
generate_entity == Write("entity", "minimal")
generate_entity_test_helper == Write("entity_test_helper", "minimal")
generate_crud_controller == Write("controller", "crud")
generate_crud_controller_test == Write("controller_test", "crud")

\* What a command writes, in this order.
cli(command) ==
  CASE command = "middleware" -> <<generate_middleware>>
    [] command = "controller" -> <<generate_controller, generate_controller_test>>
    [] command = "controller_test" -> <<generate_controller_test>>
    [] command = "migration" -> <<generate_migration>>
    [] command = "entity" -> <<generate_entity>>
    [] command = "entity_test_helper" -> <<generate_entity_test_helper>>
    [] command = "crud_controller" -> <<generate_crud_controller, generate_crud_controller_test>>
    [] command = "crud_controller_test" -> <<generate_crud_controller_test>>

Templates == {"minimal", "crud"}

NoCommand == [pc |-> "idle"]

\* Mutant: the module is declared before its file is there.
StepsDeclareFirst(target) == <<"declare", "create", "write">>

\* A migration is a file and no module.
Steps(target) ==
  IF target = "migration" THEN <<"create", "write">> ELSE <<"create", "write", "declare">>

GenTypeOK ==
  /\ files \in [Targets -> [Names -> {"absent", "partial"} \cup Templates]]
  /\ declared \in [Targets -> SUBSET (Names \cup Present)]
  /\ run \in {NoCommand}
       \cup [pc : {"create", "write", "declare"}, command : Commands, name : Names,
             override : BOOLEAN, file : 1..2, step : 1..3]
       \cup [pc : {"succeeded"}, command : Commands, name : Names]

GenInit ==
  /\ files = [t \in Targets |-> [n \in Names |-> "absent"]]
  /\ declared = [t \in Targets |-> Present]
  /\ run = NoCommand

Current == cli(run.command)[run.file]

Set(content) == files' = [files EXCEPT ![Current.target][run.name] = content]

-----------------------------------------------------------------------------
Begin(command, name, override, file) ==
  [pc |-> Steps(cli(command)[file].target)[1], command |-> command, name |-> name,
   override |-> override, file |-> file, step |-> 1]

Invoke(command, name, override) ==
  /\ run.pc \in {"idle", "succeeded"}
  /\ run' = Begin(command, name, override, 1)
  /\ UNCHANGED <<files, declared>>

\* The next step of the file, the next file of the command, or the end of it.
Advance ==
  run' =
    IF run.step < Len(Steps(Current.target))
    THEN [run EXCEPT !.step = @ + 1, !.pc = Steps(Current.target)[run.step + 1]]
    ELSE IF run.file < Len(cli(run.command))
    THEN Begin(run.command, run.name, run.override, run.file + 1)
    ELSE [pc |-> "succeeded", command |-> run.command, name |-> run.name]

\* Mutant: a file in place is an error with --override too.
MayCreateNew == files[Current.target][run.name] = "absent"

MayCreate == run.override \/ files[Current.target][run.name] = "absent"

\* create_project_file: File::create leaves the file empty, write_all fills it.
CreateFile ==
  /\ run.pc = "create"
  /\ MayCreate
  /\ Set("partial")
  /\ Advance
  /\ UNCHANGED declared

\* Mutant: an old version of the file stays behind the new one.
WriteFileAppends ==
  /\ run.pc = "write"
  /\ Set("doubled")
  /\ Advance
  /\ UNCHANGED declared

WriteFile ==
  /\ run.pc = "write"
  /\ Set(Current.template)
  /\ Advance
  /\ UNCHANGED declared

\* Mutant: a list with any module in it is taken to have this one.
DeclaresAny(target, name) == declared[target] # {}

Declares(target, name) == name \in declared[target]

\* append_module_definition_to_project_file: a name that is there is not
\* added again.
Declare ==
  /\ run.pc = "declare"
  /\ declared' = [declared EXCEPT ![Current.target] =
       IF Declares(Current.target, run.name) THEN @ ELSE @ \cup {run.name}]
  /\ Advance
  /\ UNCHANGED files

\* The command ends in an error: bad field definitions, no template, a crate it does
\* not find, a file in place, or any I/O error; or it is interrupted.
Fail ==
  /\ run.pc \in {"create", "write", "declare"}
  /\ run' = NoCommand
  /\ UNCHANGED <<files, declared>>

\* A command that is refused has no other way on.
Refused == run.pc = "create" /\ ~MayCreate

GenNext ==
  \/ \E command \in Commands, name \in Names, override \in BOOLEAN : Invoke(command, name, override)
  \/ CreateFile
  \/ WriteFile
  \/ Declare
  \/ Fail

\* A command that was started comes to an end.
Fairness == WF_genVars(CreateFile \/ WriteFile \/ Declare \/ Fail)

GenSpec == GenInit /\ [][GenNext]_genVars /\ Fairness

-----------------------------------------------------------------------------
Whole(write, name) ==
  /\ files[write.target][name] = write.template
  /\ write.target # "migration" => name \in declared[write.target]

(***************************************************************************)
(* A command that reports success has written all its files whole, from    *)
(* its own templates, and each is declared, whatever commands came before  *)
(* and wherever they were cut short.                                       *)
(***************************************************************************)
SuccessIsComplete ==
  run.pc = "succeeded" =>
    \A i \in DOMAIN cli(run.command) : Whole(cli(run.command)[i], run.name)

(***************************************************************************)
(* No module is declared without a file: the crate would not compile.      *)
(***************************************************************************)
DeclaredFilesExist ==
  \A t \in Targets : \A n \in declared[t] \cap Names : files[t][n] # "absent"

(***************************************************************************)
(* A command cut short can be made good by repeating it with --override:   *)
(* once nothing fails any more but for files in place, it comes to its     *)
(* end.  Without --override the files it left would refuse it for ever.    *)
(***************************************************************************)
RerunCompletes ==
  \A command \in Commands, name \in Names :
    /\ []<><<Invoke(command, name, TRUE)>>_genVars
    /\ <>[][Fail => Refused]_genVars
    => []<>(run.pc = "succeeded" /\ run.command = command /\ run.name = name)
=============================================================================
