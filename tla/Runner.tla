-------------------------------- MODULE Runner --------------------------------
(***************************************************************************)
(* The runner process (scripts/dark-factory-runner.ts) that carries one    *)
(* issue from its ticket to a pull request, over the run ledger.           *)
(*                                                                         *)
(* A first process plans and parks; a human replies; each reply launches   *)
(* another process with --resume, which either revises the plan and parks  *)
(* again or codes the approved plan, pushes it and runs the Definition of  *)
(* Done.  The processes share the ledger, the recorded plans and the       *)
(* ticket (its labels, the plan comment and the machine block beside it),  *)
(* each may crash anywhere, and any write to the ticket or to a store may  *)
(* fail: `faults` counts both, up to MaxFaults.                            *)
(*                                                                         *)
(* A process is named by its attempt, which is also the delivery it        *)
(* presents to the ledger (runnerDeliveryId); a plan is named by the       *)
(* process that wrote it.                                                  *)
(***************************************************************************)
EXTENDS RunLedger

CONSTANTS
    Story,         \* the issue the processes work on
    MaxRevisions,  \* DF_MAX_PLAN_REVISIONS
    MaxAlive,      \* how many processes work at the same time
    MaxFaults      \* how many writes fail and processes crash in a behaviour

ASSUME RunnerAssumption ==
    /\ Story \in Issues /\ Nil \notin Deliveries
    /\ {MaxRevisions, MaxAlive, MaxFaults} \subseteq Nat

VARIABLES
    ticket,   \* its outcome labels, the plan a reader sees, the plan a resume reads
    plans,    \* df_plans: the recorded revisions of each run's plan
    proc,     \* what each process has in its locals
    overlap,  \* history: two processes have been alive together
    faults    \* history: the failed writes and the crashes

runnerVars == <<ledgerVars, ticket, plans, proc, overlap, faults>>

Modes == {"fresh", "approve", "revise"}
\* The labels a start clears.  The in-flight ones (df:running, needs-answer)
\* are written beside them and read by nobody here: only whether writing
\* them fails is kept.
TerminalLabels == {"df:done", "df:failed"}

Working == {"begin", "setup", "plan", "revise", "post", "block", "record",
            "park", "code", "push", "dod", "labels", "marker"}

Idle == [pc |-> "idle", mode |-> "fresh", run |-> Nil, plan |-> Nil,
         shown |-> Nil, round |-> 0, ending |-> "failed", aborting |-> FALSE,
         pushed |-> FALSE, done |-> FALSE, lost |-> FALSE]

PlanRow == [run : Runs, revision : Nat, plan : Deliveries,
            source : {"architect", "amendment"}]

RunnerTypeOK ==
    /\ TypeOK
    /\ ticket \in [labels : SUBSET TerminalLabels, plan : Deliveries \cup {Nil},
                   block : Deliveries \cup {Nil}]
    /\ \A row \in plans : row \in PlanRow
    /\ proc \in [Deliveries ->
           [pc : Working \cup {"idle", "parked", "ended", "silent", "crashed"},
            mode : Modes, run : Runs \cup {Nil}, plan : Deliveries \cup {Nil},
            shown : Deliveries \cup {Nil}, round : Nat,
            ending : {"failed", "succeeded"}, aborting : BOOLEAN,
            pushed : BOOLEAN, done : BOOLEAN, lost : BOOLEAN]]
    /\ overlap \in BOOLEAN
    /\ faults \in 0 .. MaxFaults

RunnerInit ==
    /\ Init
    /\ ticket = [labels |-> {}, plan |-> Nil, block |-> Nil]
    /\ plans = {}
    /\ proc = [p \in Deliveries |-> Idle]
    /\ overlap = FALSE
    /\ faults = 0

-----------------------------------------------------------------------------
(* What every step is made of                                              *)

Alive(p) == proc[p].pc \in Working

\* n writes of this step fail.
Fail(n) == faults + n <= MaxFaults /\ faults' = faults + n

\* The process is over: what its locals held is gone.
Stopped(p, pc) == [Idle EXCEPT !.pc = pc, !.run = proc[p].run,
                       !.pushed = proc[p].pushed, !.done = proc[p].done,
                       !.lost = proc[p].lost]
Stop(p, pc) == proc' = [proc EXCEPT ![p] = Stopped(p, pc)]

\* The process goes on at pc, having learnt what f says.
Goto(p, pc) == proc' = [proc EXCEPT ![p].pc = pc]

\* An exception that leaves main: the entry point releases the claim.
Throw(p) == proc' = [proc EXCEPT ![p].pc = "labels", ![p].ending = "failed",
                                 ![p].aborting = TRUE]

\* applyTerminalLifecycle with status "failed", then the exception.
EndFailed(p) == proc' = [proc EXCEPT ![p].pc = "labels",
                                     ![p].ending = "failed"]

QuietLedger == UNCHANGED <<ledgerVars, plans, overlap, faults>>

\* appendEvent as its callers see it.  A run the ledger never minted (Nil)
\* takes nothing, an event already recorded is a duplicate and answered ok.
CanWrite(r, e) ==
    /\ r # Nil
    /\ e \in log[r] \/ (~EventIsLogged(r, e.id) /\ Applies(e, status[r]))

Write(r, e, ok) ==
    \/ /\ ok
       /\ r # Nil
       /\ AppendEvent(r, e) \/ (e \in log[r] /\ UNCHANGED ledgerVars)
       /\ UNCHANGED faults
    \/ /\ ~ok
       /\ IF CanWrite(r, e) THEN Fail(1) ELSE UNCHANGED faults
       /\ UNCHANGED ledgerVars

\* Whether a write that the ledger would have taken was lost.
WasLost(r, e, ok) == ~ok /\ CanWrite(r, e)

ResumedEvent(p) == [id |-> <<p, "revision">>, type |-> "run.resumed",
                    status |-> "running"]
QuestionEvent(n) == [id |-> <<"plan-approval", n>>,
                     type |-> "worker.question", status |-> "blocked"]
TripRecord == [id |-> <<"breaker", "trip">>, type |-> "run.terminal",
              status |-> "failed"]
\* Mutant: every marker reports a success.
MarkerEventSucceeded(s) == [id |-> <<"terminal", "lifecycle">>,
                            type |-> "run.terminal", status |-> "succeeded"]

MarkerEvent(s) == [id |-> <<"terminal", "lifecycle">>,
                   type |-> "run.terminal", status |-> s]
LabelFailureEvent(s) == [id |-> <<"terminal", "label-failed">>,
                         type |-> "run.terminal", status |-> s]

RunnerEventIds ==
    {<<"plan-approval", n>> : n \in 0 .. MaxRevisions + 1}
    \cup {<<"breaker", "trip">>, <<"terminal", "lifecycle">>,
          <<"terminal", "label-failed">>, RetireId}
    \cup {<<p, "revision">> : p \in Deliveries}
    \cup {AcceptedId(p) : p \in Deliveries}

ASSUME RunnerIdsAssumption == RunnerEventIds \subseteq EventIds

-----------------------------------------------------------------------------
(* From the launcher to the plan                                           *)

\* The launcher's preflight: a fresh run needs the claim free, a resume needs
\* it held by a parked run.
Preflight(m) ==
    IF m = "fresh"
    THEN ActiveRuns(Story) = {}
    ELSE \E r \in ActiveRuns(Story) : status[r] = "blocked"

\* runLocalRun (a revision, whose answer file the launcher does not pass on,
\* is started by hand when a run is parked): the preflight passed some time
\* before main begins.  A human has the ticket in front: `shown` is its plan,
\* when the two comments agree.
Launch(p, m) ==
    /\ proc[p].pc = "idle"
    /\ Cardinality({q \in Deliveries : Alive(q)}) < MaxAlive
    /\ Preflight(m)
    /\ proc' = [proc EXCEPT ![p].pc = "begin", ![p].mode = m,
                            ![p].shown = IF ticket.plan = ticket.block
                                         THEN ticket.plan ELSE Nil]
    /\ overlap' = (overlap \/ \E q \in Deliveries : Alive(q))
    /\ UNCHANGED <<ledgerVars, ticket, plans, faults>>

\* decideRunStart, of a claim another run holds with status s.
Adopts(m, s) == m # "fresh" /\ s = "blocked"

\* beginRunRecord: a new run, the parked run of a resume,
\* a refusal, or (the ledger failing) a run nobody recorded.
Begin(p) ==
    /\ proc[p].pc = "begin"
    /\ \/ \E r \in Runs :
              /\ AcceptDelivery(p, Story, r)
              /\ proc' = [proc EXCEPT ![p].pc = "setup", ![p].run = r]
              /\ UNCHANGED faults
       \/ \E r \in ActiveRuns(Story) :
              /\ IF Adopts(proc[p].mode, status[r])
                 THEN proc' = [proc EXCEPT ![p].pc = "setup", ![p].run = r]
                 ELSE Stop(p, "silent")
              /\ UNCHANGED <<ledgerVars, faults>>
       \/ Fail(1) /\ Goto(p, "setup") /\ UNCHANGED ledgerVars
    /\ UNCHANGED <<ticket, plans, overlap>>

\* The checkpoint and the tokens (an exception here finds no label writer, so
\* nothing is released), the issue, and applyStartLifecycle: the labels of an
\* earlier end go; a label write that fails only warns.
Setup(p) ==
    /\ proc[p].pc = "setup"
    /\ UNCHANGED <<ledgerVars, plans, overlap>>
    /\ \/ Stop(p, "silent") /\ UNCHANGED <<ticket, faults>>
       \/ Throw(p) /\ UNCHANGED <<ticket, faults>>
       \/ \E F \in SUBSET TerminalLabels :
              /\ Fail(Cardinality(F))
              /\ ticket' = [ticket EXCEPT !.labels = @ \cap F]
              /\ Goto(p, "plan")

\* loadApprovedPlan: both comments are there, and the block is what is read.
Approved == ticket.plan # Nil /\ ticket.block # Nil

\* The Architect plans, or a resume reads the approved plan off the ticket;
\* no plan ends the run, except that a fresh run whose plan a human must help
\* with parks instead.  A checkpoint may stop it.
Plan(p) ==
    /\ proc[p].pc = "plan"
    /\ UNCHANGED ticket
    /\ QuietLedger
    /\ \/ /\ proc[p].mode = "fresh"
          /\ \/ proc' = [proc EXCEPT ![p].plan = p, ![p].pc = "post"]
             \/ Goto(p, "park")
       \/ /\ proc[p].mode # "fresh"
          /\ Approved
          /\ proc' = [proc EXCEPT ![p].plan = ticket.block, ![p].pc =
                 IF proc[p].mode = "revise" THEN "revise" ELSE "post"]
       \/ EndFailed(p)
       \/ Throw(p)

\* readPlanRevisionCount: the rounds are the times the run was resumed.
Revisions(r) ==
    IF r = Nil THEN 0
    ELSE Cardinality({e \in log[r] : e.type = "run.resumed"})

\* isPlanRevisionCapReached.
CapReached(r) == Revisions(r) >= MaxRevisions

\* A revision: refused at the cap, ended when the amendment fails, and else
\* recorded by resuming the run; a lost record only warns.
Revise(p) ==
    LET r == proc[p].run IN
    /\ proc[p].pc = "revise"
    /\ \/ EndFailed(p) /\ UNCHANGED <<ledgerVars, faults>>
       \/ /\ ~CapReached(r)
          /\ \E ok \in BOOLEAN :
                /\ Write(r, ResumedEvent(p), ok)
                /\ proc' = [proc EXCEPT ![p].pc = "post", ![p].plan = p,
                       ![p].round = Revisions(r) + 1,
                       ![p].lost = @ \/ WasLost(r, ResumedEvent(p), ok)]
    /\ UNCHANGED <<ticket, plans, overlap>>

-----------------------------------------------------------------------------
(* The plan on the ticket, and the gate                                    *)

\* The second validation may refuse the plan; else the plan comment shows it.
Post(p) ==
    /\ proc[p].pc = "post"
    /\ UNCHANGED <<ledgerVars, plans, overlap>>
    /\ \/ EndFailed(p) /\ UNCHANGED <<ticket, faults>>
       \/ Fail(1) /\ Throw(p) /\ UNCHANGED ticket
       \/ /\ ticket' = [ticket EXCEPT !.plan = proc[p].plan]
          /\ Goto(p, "block")
          /\ UNCHANGED faults

\* The machine block follows in a comment of its own.
PostBlock(p) ==
    /\ proc[p].pc = "block"
    /\ UNCHANGED <<ledgerVars, plans, overlap>>
    /\ \/ Fail(1) /\ Throw(p) /\ UNCHANGED ticket
       \/ /\ ticket' = [ticket EXCEPT !.block = proc[p].plan]
          /\ Goto(p, "record")
          /\ UNCHANGED faults

\* Mutant: only a revision waits for a human.
ParksForRevision(m) == m = "revise"

\* parksForHumanApproval, shouldRecordPlanEstimate: only an approval codes,
\* and only a plan nobody recorded yet is recorded.
ParksForHumanApproval(m) == m # "approve"

\* The row main asks to record.
PostedPlan(p) ==
    [run |-> proc[p].run, plan |-> proc[p].plan,
     revision |-> IF proc[p].round = 0 THEN 1 ELSE proc[p].round,
     source |-> IF proc[p].mode = "revise" THEN "amendment" ELSE "architect"]

\* UNIQUE (run_id, plan_revision) of df_plans.
IsTaken(row) ==
    \E q \in plans : q.run = row.run /\ q.revision = row.revision

\* recordPostedPlan: a taken revision is a duplicate only when it is this very
\* plan, and a row that cannot be written stops the run.
Record(p) ==
    LET r == proc[p].run
        row == PostedPlan(p)
        taken == IsTaken(row)
    IN
    /\ proc[p].pc = "record"
    /\ UNCHANGED <<ledgerVars, ticket, overlap>>
    /\ \/ /\ ~ParksForHumanApproval(proc[p].mode)
          /\ Goto(p, "code")
          /\ UNCHANGED <<plans, faults>>
       \/ /\ ParksForHumanApproval(proc[p].mode)
          /\ \/ /\ r # Nil /\ ~taken
                /\ plans' = plans \cup {row}
                /\ Goto(p, "park")
                /\ UNCHANGED faults
             \/ /\ r # Nil /\ taken
                /\ IF row \in plans THEN Goto(p, "park") ELSE Throw(p)
                /\ UNCHANGED <<plans, faults>>
             \/ r = Nil /\ Goto(p, "park") /\ UNCHANGED <<plans, faults>>
             \/ r # Nil /\ Fail(1) /\ Throw(p) /\ UNCHANGED plans

\* parkForApproval: the question blocks the run and its comment asks for an
\* answer; either failing is an exception (the label only warns).
Park(p) ==
    LET r == proc[p].run
        e == QuestionEvent(proc[p].round) IN
    /\ proc[p].pc = "park"
    /\ UNCHANGED <<ticket, plans, overlap>>
    /\ \/ /\ Write(r, e, FALSE)
          /\ proc' = [proc EXCEPT ![p].pc = "labels", ![p].aborting = TRUE,
                          ![p].lost = @ \/ CanWrite(r, e)]
       \/ /\ Write(r, e, TRUE)
          /\ Stop(p, "parked") \/ (faults < MaxFaults /\ Throw(p))

-----------------------------------------------------------------------------
(* Coding, pushing, done                                                   *)

\* runCodingPhase: green tests, or a failure, or a circuit trip, which is
\* recorded on the run before the lifecycle ends it.
Code(p) ==
    LET r == proc[p].run IN
    /\ proc[p].pc = "code"
    /\ UNCHANGED <<ticket, plans, overlap>>
    /\ \/ Goto(p, "push") /\ UNCHANGED <<ledgerVars, faults>>
       \/ EndFailed(p) /\ UNCHANGED <<ledgerVars, faults>>
       \/ \E ok \in BOOLEAN :
             /\ Write(r, TripRecord, ok)
             /\ EndFailed(p)

\* The branch, the commit and the push.
Push(p) ==
    /\ proc[p].pc = "push"
    /\ UNCHANGED ticket
    /\ QuietLedger
    /\ \/ proc' = [proc EXCEPT ![p].pc = "dod", ![p].pushed = TRUE]
       \/ EndFailed(p)
       \/ Throw(p)

\* runDefinitionOfDone: without a pull request main ends and writes nothing;
\* with one the run succeeded, and the gate says whether it is done.
Dod(p) ==
    /\ proc[p].pc = "dod"
    /\ UNCHANGED ticket
    /\ QuietLedger
    /\ \/ Stop(p, "silent")
       \/ Throw(p)
       \/ \E ok \in BOOLEAN :
              proc' = [proc EXCEPT ![p].pc = "labels", ![p].done = ok,
                                   ![p].ending = "succeeded"]

-----------------------------------------------------------------------------
(* applyTerminalLifecycle                                                  *)

\* It returned: a failed run throws, and the release then runs it again.
Finalised(p) ==
    IF proc[p].ending = "failed" /\ ~proc[p].aborting
    THEN Throw(p)
    ELSE Stop(p, "ended")

\* It threw, having lost a write or not: main aborts, the release only reports.
ThrewLosing(p, lost) ==
    LET q == [proc[p] EXCEPT !.lost = @ \/ lost] IN
    IF q.aborting
    THEN [Stopped(p, "ended") EXCEPT !.lost = q.lost]
    ELSE [q EXCEPT !.pc = "labels", !.ending = "failed", !.aborting = TRUE]

OutcomeLabel(p) ==
    CASE proc[p].ending = "failed" -> {"df:failed"}
      [] proc[p].ending = "succeeded" /\ proc[p].done -> {"df:done"}
      [] OTHER -> {}

IsMarked(p) ==
    /\ proc[p].run # Nil
    /\ MarkerEvent(proc[p].ending) \in log[proc[p].run]

\* Nothing if the run was ended this way before; else the outcome's label
\* comes and the in-flight ones go, and when one of these writes fails (maybe
\* the outcome's) that is recorded as the run's end before the exception.
FinaliseLabels(p) ==
    LET r == proc[p].run
        e == LabelFailureEvent(proc[p].ending)
        labelled == ticket.labels \cup OutcomeLabel(p) IN
    /\ proc[p].pc = "labels"
    /\ UNCHANGED <<plans, overlap>>
    /\ \/ /\ IsMarked(p)
          /\ Finalised(p)
          /\ UNCHANGED <<ledgerVars, ticket, faults>>
       \/ /\ ~IsMarked(p)
          /\ ticket' = [ticket EXCEPT !.labels = labelled]
          /\ Goto(p, "marker")
          /\ UNCHANGED <<ledgerVars, faults>>
       \/ /\ ~IsMarked(p)
          /\ \E after \in {ticket.labels, labelled}, lost \in BOOLEAN :
                /\ lost => CanWrite(r, e)
                /\ Fail(IF lost THEN 2 ELSE 1)
                /\ ticket' = [ticket EXCEPT !.labels = after]
                /\ IF CanWrite(r, e) /\ ~lost /\ e \notin log[r]
                   THEN AppendEvent(r, e)
                   ELSE UNCHANGED ledgerVars
                /\ proc' = [proc EXCEPT ![p] = ThrewLosing(p, lost)]

\* Mutant: the answer of the ledger is not looked at.
FinaliseMarkerUnchecked(p) ==
    /\ proc[p].pc = "marker"
    /\ \E ok \in BOOLEAN :
           Write(proc[p].run, MarkerEvent(proc[p].ending), ok)
    /\ Stop(p, "ended")
    /\ UNCHANGED <<ticket, plans, overlap>>

\* The marker event releases the claim; refused for a run that is terminal
\* already it is no failure.
FinaliseMarker(p) ==
    LET r == proc[p].run
        e == MarkerEvent(proc[p].ending)
        ended == r # Nil /\ status[r] \in Terminal IN
    /\ proc[p].pc = "marker"
    /\ \/ Write(r, e, TRUE) /\ Finalised(p)
       \/ /\ Write(r, e, FALSE)
          /\ IF ended THEN Finalised(p)
             ELSE proc' = [proc EXCEPT ![p] = ThrewLosing(p, CanWrite(r, e))]
    /\ UNCHANGED <<ticket, plans, overlap>>

-----------------------------------------------------------------------------
(* Around the processes                                                    *)

Crash(p) ==
    /\ Alive(p)
    /\ Fail(1)
    /\ Stop(p, "crashed")
    /\ UNCHANGED <<ledgerVars, ticket, plans, overlap>>

\* df-retire-claim: the operator ends the holder (and its in-flight labels).
RetireHolder ==
    /\ RetireRunClaim(Story)
    /\ UNCHANGED <<ticket, plans, proc, overlap, faults>>

Step(p) ==
    \/ Begin(p)
    \/ Setup(p)
    \/ Plan(p)
    \/ Revise(p)
    \/ Post(p)
    \/ PostBlock(p)
    \/ Record(p)
    \/ Park(p)
    \/ Code(p)
    \/ Push(p)
    \/ Dod(p)
    \/ FinaliseLabels(p)
    \/ FinaliseMarker(p)

RunnerNext ==
    \/ \E p \in Deliveries, m \in Modes : Launch(p, m)
    \/ \E p \in Deliveries : Step(p)
    \/ \E p \in Deliveries : Crash(p)
    \/ RetireHolder

RunnerSpec == RunnerInit /\ [][RunnerNext]_runnerVars

-----------------------------------------------------------------------------
(* Properties                                                              *)

\* Whether another process works, or worked, on the run of p.
Shared(p) == \E q \in Deliveries \ {p} : proc[q].run = proc[p].run

\* A process that came to its own end leaves no claim behind: its run is
\* terminal, or parked for a human, whatever failed on the ticket (#373, #376,
\* #503).  Only a ledger that lost a write, a process that ended before it
\* could write labels, and a Definition of Done without a pull request leave
\* the run in flight.
ClaimIsReleased ==
    \A p \in Deliveries :
        proc[p].run # Nil /\ ~proc[p].lost /\ ~Shared(p) =>
            /\ proc[p].pc = "ended" => status[proc[p].run] \in Terminal
            /\ proc[p].pc = "parked" =>
                   status[proc[p].run] \in Terminal \cup {"blocked"}

\* Nobody builds a plan a human has not been shown (#365, #378): a process
\* never codes a plan of its own, and while the processes of an issue do not
\* overlap it codes the plan the ticket showed when its human replied.
CodedPlanWasReviewed ==
    \A p \in Deliveries :
        proc[p].pc \in {"code", "push", "dod"} \/ proc[p].pushed =>
            /\ proc[p].plan # p
            /\ ~overlap /\ proc[p].shown # Nil =>
                   proc[p].plan = proc[p].shown

\* What the factory advertises was earned: the ticket says df:done only when
\* some process pushed its branch and passed its Definition of Done (#271), and
\* a run the ledger shows as succeeded is one whose own process pushed.
OutcomeIsEarned ==
    /\ "df:done" \in ticket.labels =>
           \E p \in Deliveries : proc[p].pushed /\ proc[p].done
    /\ \A r \in Runs : status[r] = "succeeded" =>
           \E p \in Deliveries : proc[p].run = r /\ proc[p].pushed

\* A revision parks again: once its amended plan is on the ticket and its run
\* is still going, nothing but a failed write may end it (ADR 0042: "The
\* amended plan UPDATES the plan comment in place and the run PARKS AGAIN").
RevisionParksAgain ==
    \A p \in Deliveries :
        /\ proc[p].mode = "revise"
        /\ proc[p].plan = p
        /\ ticket.plan = p
        /\ ticket.block = p
        /\ proc[p].run # Nil
        /\ status[proc[p].run] = "running"
        /\ faults = 0
        => proc[p].pc # "labels"
=============================================================================
