-------------------------------- MODULE Coding --------------------------------
(***************************************************************************)
(* One coding phase of the runner: runMultiFileCodingLoop                  *)
(* (agent/lib/dark-factory/developer-agent.ts) with the worker main gives  *)
(* it, under the circuit breaker of module Breaker, and the commit and the *)
(* push that follow, in the sandbox (the vault path) or on the host.       *)
(*                                                                         *)
(* A file's version is the iteration that wrote it: 0 is the checkout's    *)
(* own, Old that of a task branch an earlier attempt left behind.          *)
(***************************************************************************)
EXTENDS Breaker

CONSTANTS
    Files,          \* paths the author may write
    Targets,        \* executionPlan.targetFiles
    Existing,       \* the paths that exist in the checkout
    Pbi,            \* the issue's key in the breaker
    MaxIterations,  \* developerAgent.maxIterations
    Old             \* a version that is on the existing task branch

ASSUME CodingAssumption ==
    /\ Targets \subseteq Files /\ Existing \subseteq Files
    /\ Pbi \in Pbis
    /\ MaxIterations \in Nat \ {0}
    /\ Old \notin Nat

VARIABLES
    coding,     \* the locals of the loop and of the phase around it
    workspace,  \* the version of each path in the workspace
    tested,     \* history: the versions the last passing test saw
    branch      \* the versions on the pushed branch, <<>> before

codingVars == <<breakerVars, coding, workspace, tested, branch>>

Version == 0 .. MaxIterations \cup {Old}

CodingTypeOK ==
    /\ BreakerTypeOK
    /\ coding \in [pc : {"loop", "author", "test", "finish", "commit", "pushed", "failed"},
                   iteration : 0 .. MaxIterations, passed : BOOLEAN,
                   written : SUBSET Files, vault : BOOLEAN]
    /\ workspace \in [Files -> Version]
    /\ tested = <<>> \/ tested \in [Files -> Version]
    /\ branch = <<>> \/ branch \in [Files -> Version]

CodingInit ==
    /\ BreakerInit
    /\ coding = [pc |-> "loop", iteration |-> 0, passed |-> FALSE,
                 written |-> {}, vault |-> FALSE]
    /\ workspace = [f \in Files |-> 0]
    /\ tested = <<>>
    /\ branch = <<>>

Proceed(pc) == coding' = [coding EXCEPT !.pc = pc]

-----------------------------------------------------------------------------
(* The loop                                                                *)

\* The next iteration begins: a stop at the checkpoint or an open circuit ends
\* the phase, the bound ends the loop.
NextIteration ==
    /\ coding.pc = "loop"
    /\ \/ /\ coding.iteration < MaxIterations
          /\ ~IsTripped(Pbi)
          /\ coding' = [coding EXCEPT !.pc = "author", !.iteration = @ + 1]
       \/ /\ coding.iteration < MaxIterations
          /\ Proceed("failed")
       \/ /\ coding.iteration = MaxIterations
          /\ Proceed("finish")
    /\ UNCHANGED <<breakerVars, workspace, tested, branch>>

\* recordActivity, which a tripped PBI ignores.
RecordActivity(m, ok) ==
    RecordWorkerActivity(Pbi, m, ok) \/ (IsTripped(Pbi) /\ UNCHANGED breakerVars)

\* An iteration whose author failed: charged as a failure.
AuthoringFails(m) ==
    /\ RecordActivity(m, FALSE)
    /\ Proceed("loop")

\* What a write of the authored files may leave in the workspace.
Wrote(done) == [f \in Files |-> IF f \in done THEN coding.iteration ELSE workspace[f]]

\* authorFiles: the model fails or the preservation guard refuses before the
\* first write, or a write throws after some of them, or all is written but
\* what the plan wrongly calls new.
Author(authored, m) ==
    /\ coding.pc = "author"
    /\ \/ AuthoringFails(m) /\ UNCHANGED workspace
       \/ \E done \in SUBSET authored \ {authored} :
             AuthoringFails(m) /\ workspace' = Wrote(done)
       \/ \E skipped \in SUBSET (authored \cap Targets) :
             /\ \A f \in skipped : f \in Existing \/ workspace[f] # 0
             /\ workspace' = Wrote(authored \ skipped)
             /\ coding' = [coding EXCEPT !.pc = "test", !.written = authored \ skipped]
             /\ UNCHANGED breakerVars
    /\ UNCHANGED <<tested, branch>>

\* runTests: passed, failed, or not even started, which is charged to nobody.
Test(m) ==
    /\ coding.pc = "test"
    /\ \/ /\ RecordActivity(m, TRUE)
          /\ tested' = workspace
          /\ coding' = [coding EXCEPT !.pc = "finish", !.passed = TRUE]
       \/ RecordActivity(m, FALSE) /\ Proceed("loop") /\ UNCHANGED tested
       \/ UNCHANGED <<breakerVars, tested>> /\ Proceed("loop")
    /\ UNCHANGED <<workspace, branch>>

\* Mutant: a trip raised by the last iteration is not looked at.
FinishUnguarded ==
    /\ coding.pc = "finish"
    /\ \/ Proceed("failed")
       \/ coding.passed /\ \E v \in BOOLEAN :
             coding' = [coding EXCEPT !.pc = "commit", !.vault = v]
    /\ UNCHANGED <<breakerVars, workspace, tested, branch>>

\* After the loop: a stop, a circuit open by now or a loop without success is
\* the end; the plan file (not one of Files) is written.
Finish ==
    /\ coding.pc = "finish"
    /\ \/ Proceed("failed")
       \/ /\ coding.passed
          /\ ~IsTripped(Pbi)
          /\ \E v \in BOOLEAN :
                coding' = [coding EXCEPT !.pc = "commit", !.vault = v]
    /\ UNCHANGED <<breakerVars, workspace, tested, branch>>

-----------------------------------------------------------------------------
(* The commit                                                              *)

\* filesToCommitFromRun: what the last author wrote and what the plan names.
Staged == coding.written \cup Targets

\* git add refuses a path that is not there.
CanStage == \A f \in Staged : f \in Existing \/ workspace[f] # 0

\* A commit of the staged paths onto versions `base`.
Committed(base) ==
    [f \in Files |-> IF f \in Staged THEN
        (IF workspace[f] # 0 THEN workspace[f] ELSE base[f]) ELSE base[f]]

Checkout == [f \in Files |-> 0]

\* A push on the vault path starts its branch anew (checkout -B), one on the
\* host takes an existing branch as it is (checkout), which git refuses when
\* that would overwrite a changed file: `differs` are the paths that differ.
CommitAndPush ==
    /\ coding.pc = "commit"
    /\ \/ /\ CanStage
          /\ \E differs \in SUBSET Files :
                /\ coding.vault => differs = {}
                /\ \A f \in differs : workspace[f] = 0
                /\ branch' = Committed([f \in Files |->
                                  IF f \in differs THEN Old ELSE Checkout[f]])
          /\ Proceed("pushed")
       \/ Proceed("failed") /\ UNCHANGED branch
    /\ UNCHANGED <<breakerVars, workspace, tested>>

CodingNext ==
    \/ NextIteration
    \/ \E authored \in SUBSET Files \ {{}}, m \in Minutes : Author(authored, m)
    \/ \E m \in Minutes : Test(m)
    \/ Finish
    \/ CommitAndPush

CodingSpec == CodingInit /\ [][CodingNext]_codingVars

-----------------------------------------------------------------------------
(* Properties                                                              *)

\* Only green work is pushed, and only under an open budget: the workspace of
\* a pushed branch is the one whose tests passed, with nothing written since,
\* what its author wrote last is on the branch as it was tested, and no trip,
\* raised by the very iteration that passed included, is pushed over (#312).
GreenIsPushed ==
    coding.pc \in {"commit", "pushed"} =>
        /\ tested = workspace
        /\ ~IsTripped(Pbi)
        /\ Entry(Pbi).failed < MaxFailed
        /\ Entry(Pbi).minutes < MaxMinutes
        /\ coding.pc = "pushed" => \A f \in coding.written : branch[f] = tested[f]

\* What is pushed is what was tested ("The union of the two is what the run
\* produced, and is the honest artifact to stage", filesToCommitFromRun).
PushedIsTested ==
    coding.pc = "pushed" /\ coding.vault => branch = tested
=============================================================================
