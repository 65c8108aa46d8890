------------------------------- MODULE PlanLedger -------------------------------
(***************************************************************************)
(* What a run forecast and what it cost: the rows of df_plans,             *)
(* df_plan_estimates and df_run_summaries.cost_usd of ONE run, which the   *)
(* view df_plan_estimate_accuracy joins, and the runner processes that     *)
(* write them (plan-ledger.ts, plan-estimate-recorder.ts, plan-revision-   *)
(* recorder.ts, run-cost-recorder.ts, run-actual-cost.ts).                 *)
(*                                                                         *)
(* A process plans, posts the plan with its price, records both and parks, *)
(* or codes the approved plan.  Its model calls are measured one unit      *)
(* each, if the usage ledger takes the record; the tester's are not        *)
(* counted here, nor by the code.  Each write may fail, or be reported     *)
(* failed and stand all the same, and a process may die at any step.       *)
(***************************************************************************)
EXTENDS Naturals, FiniteSets

CONSTANTS
    Authors,   \* runner processes of the run, in the order of their launch
    Drafts,    \* plans the Architect may answer
    Unset    \* no value

ASSUME PlanLedgerAssumption ==
    /\ Authors \subseteq Nat
    /\ Unset \notin Drafts \cup Nat

VARIABLES
    author,     \* the processes
    rounds,     \* run.resumed events of replies that asked for a revision
    shown,      \* the plan of the plan comment
    planRows,   \* df_plans
    forecasts,  \* df_plan_estimates
    measured,   \* the run's spend in the usage ledger
    costUsd,    \* df_run_summaries.cost_usd
    ended       \* the run has been released as failed, or completed

ticketVars == <<rounds, shown>>
planLedgerVars == <<author, ticketVars, planRows, forecasts, measured, costUsd,
                    ended>>

Source == {"architect", "amendment"}
PlanRow == [revision : Nat, source : Source, draft : Drafts]
Forecast == [revision : Nat, draft : Drafts, by : Authors]

\* sum: the spend read for the run; failed: main threw.
AuthorState == [at : {"new", "plan", "code", "post", "record", "same", "estimate",
                 "sum", "write", "gone"},
           mode : {"fresh", "revision", "resume"}, revision : Nat, draft : Drafts \cup {Unset},
           sum : Nat, failed : BOOLEAN]

PlanLedgerTypeOK ==
    /\ author \in [Authors -> AuthorState]
    /\ rounds \in Nat
    /\ shown \in Drafts \cup {Unset}
    /\ \A row \in planRows : row \in PlanRow
    /\ \A f \in forecasts : f \in Forecast
    /\ measured \in Nat
    /\ costUsd \in Nat \cup {Unset}
    /\ ended \in BOOLEAN

Unlaunched == [at |-> "new", mode |-> "fresh", revision |-> 1,
               draft |-> Unset, sum |-> 0, failed |-> FALSE]

PlanLedgerInit ==
    /\ author = [p \in Authors |-> Unlaunched]
    /\ rounds = 0
    /\ shown = Unset
    /\ planRows = {} /\ forecasts = {}
    /\ measured = 0 /\ costUsd = Unset
    /\ ended = FALSE

\* Bound: another process may be at work, not two.
IsLaunched(p) ==
    /\ author[p].at = "new"
    /\ \A q \in Authors : q < p => author[q].at # "new"
    /\ ~ended
    /\ Cardinality({q \in Authors : author[q].at \notin {"new", "gone"}}) < 2

AuthorAt(p, place) == author[p].at = place
Reach(p, place) == author' = [author EXCEPT ![p].at = place]
\* What a process no longer needs is forgotten with the step that used it.
Past(p, place, failed) == author' = [author EXCEPT ![p] =
                              [Unlaunched EXCEPT !.at = place, !.failed = failed]]
Quits(p) == Past(p, "gone", FALSE)
Throws(p) == Past(p, "sum", TRUE)

-----------------------------------------------------------------------------
(* The process: launched, planning or coding                               *)

\* A first process, or the same delivery launched again.
LaunchFresh(p) ==
    /\ IsLaunched(p)
    /\ Reach(p, "plan")
    /\ UNCHANGED <<ticketVars, planRows, forecasts, measured, costUsd, ended>>

\* A reply with feedback: the rounds are counted before the plan is amended.
LaunchRevision(p) ==
    /\ IsLaunched(p) /\ shown # Unset
    /\ author' = [author EXCEPT ![p].at = "plan", ![p].mode = "revision",
                                ![p].revision = rounds + 1]
    /\ UNCHANGED <<ticketVars, planRows, forecasts, measured, costUsd, ended>>

\* An approval: the plan on the ticket is priced and posted again, but what is
\* recorded of it is left as it is.
LaunchResume(p) ==
    /\ IsLaunched(p) /\ shown # Unset
    /\ author' = [author EXCEPT ![p].at = "post", ![p].mode = "resume",
                                ![p].draft = shown]
    /\ UNCHANGED <<ticketVars, planRows, forecasts, measured, costUsd, ended>>

\* A usage record the ledger refuses stays in a buffer and goes with the process.
Measure == measured' \in {measured, measured + 1}

\* planStory or amendPlan: a plan, a question for a human (a first plan's
\* alone), or an end.  A revision's round is recorded, or the attempt fails.
MakePlan(p) ==
    /\ AuthorAt(p, "plan")
    /\ Measure
    /\ \/ /\ \E d \in Drafts :
                author' = [author EXCEPT ![p].at = "post", ![p].draft = d]
          /\ \/ UNCHANGED rounds
             \/ author[p].mode = "revision" /\ rounds' = rounds + 1
       \/ author[p].mode = "fresh" /\ Past(p, "sum", FALSE) /\ UNCHANGED rounds
       \/ Throws(p) /\ UNCHANGED rounds
    /\ UNCHANGED <<shown, planRows, forecasts, costUsd, ended>>

\* Then shouldRecordPlanEstimate: a resume codes.
PostPlan(p) ==
    /\ AuthorAt(p, "post")
    /\ \/ /\ shown' = author[p].draft
          /\ \/ author[p].mode = "resume" /\ Past(p, "code", FALSE)
             \/ author[p].mode # "resume" /\ Reach(p, "record")
             \/ Throws(p)
       \/ Throws(p) /\ UNCHANGED shown
    /\ UNCHANGED <<rounds, planRows, forecasts, measured, costUsd, ended>>

\* A run that completes clears activeRun first, so its cost is not recorded;
\* one that parks at a roadblock or throws has its cost recorded.
CodePlan(p) ==
    /\ AuthorAt(p, "code")
    /\ Measure
    /\ \/ Quits(p) /\ ended' = TRUE
       \/ UNCHANGED ended /\ (Past(p, "sum", FALSE) \/ Throws(p))
    /\ UNCHANGED <<ticketVars, planRows, forecasts, costUsd>>

-----------------------------------------------------------------------------
(* recordPlanWithEstimateSafely                                            *)

RowOf(p) == [revision |-> author[p].revision, draft |-> author[p].draft,
             source |-> IF author[p].mode = "revision" THEN "amendment"
                        ELSE "architect"]

\* UNIQUE (run_id, plan_revision)
IsTaken(revision) == \E row \in planRows : row.revision = revision

\* recordPlan: the INSERT of a plan.
InsertPlan(p) ==
    /\ ~IsTaken(author[p].revision)
    /\ planRows' = planRows \cup {RowOf(p)}

\* recordPostedPlan: the INSERT may stand although it is reported failed.
RecordPlan(p) ==
    /\ AuthorAt(p, "record")
    /\ \/ /\ InsertPlan(p)
          /\ Reach(p, "estimate") \/ Reach(p, "same")
       \/ Reach(p, "same") /\ UNCHANGED planRows
    /\ UNCHANGED <<ticketVars, forecasts, measured, costUsd, ended>>

\* Mutant: the plan that is there already is priced again.
FindSamePriced(p) ==
    /\ AuthorAt(p, "same")
    /\ \/ RowOf(p) \in planRows /\ Reach(p, "estimate")
       \/ Throws(p)
    /\ UNCHANGED <<ticketVars, planRows, forecasts, measured, costUsd, ended>>

\* findSameRecordedPlan: the same plan under this revision is a duplicate, for
\* which nothing more is written; else, or when it cannot be read, main throws.
FindSame(p) ==
    /\ AuthorAt(p, "same")
    /\ \/ RowOf(p) \in planRows /\ Past(p, "sum", FALSE)
       \/ Throws(p)
    /\ UNCHANGED <<ticketVars, planRows, forecasts, measured, costUsd, ended>>

\* recordPlanEstimate: the INSERT of an estimate.
InsertForecast(p) ==
    forecasts' = forecasts \cup {[revision |-> author[p].revision,
                                 draft |-> author[p].draft, by |-> p]}

\* recordPlanEstimateSafely, best effort: the run parks with or without it.
RecordEstimate(p) ==
    /\ AuthorAt(p, "estimate")
    /\ Past(p, "sum", FALSE)
    /\ InsertForecast(p) \/ UNCHANGED forecasts
    /\ UNCHANGED <<ticketVars, planRows, measured, costUsd, ended>>

-----------------------------------------------------------------------------
(* recordRunCostForRun, when main has returned or thrown                   *)

\* Then the process is gone; one that threw has ended its run, there or by
\* releaseAbandonedRunClaim after the cost, or could not (see module Runner).
Leave(p) ==
    /\ Quits(p)
    /\ ended' \in IF author[p].failed THEN {ended, TRUE} ELSE {ended}

\* queryUsage: unreadable or unmeasured, nothing is written.
SumUsage(p) ==
    /\ AuthorAt(p, "sum")
    /\ \/ /\ measured > 0
          /\ author' = [author EXCEPT ![p].at = "write", ![p].sum = measured]
          /\ UNCHANGED ended
       \/ Leave(p)
    /\ UNCHANGED <<ticketVars, planRows, forecasts, measured, costUsd>>

\* Mutant: the cost is added to what is recorded.
WriteCostAdding(p) ==
    /\ AuthorAt(p, "write")
    /\ Leave(p)
    /\ costUsd' = IF costUsd = Unset THEN author[p].sum
                  ELSE costUsd + author[p].sum
    /\ UNCHANGED <<ticketVars, planRows, forecasts, measured>>

\* recordRunCost: one column, replaced by the whole sum.
WriteCost(p) ==
    /\ AuthorAt(p, "write")
    /\ Leave(p)
    /\ costUsd' \in {costUsd, author[p].sum}
    /\ UNCHANGED <<ticketVars, planRows, forecasts, measured>>

Dies(p) ==
    /\ ~AuthorAt(p, "new") /\ ~AuthorAt(p, "gone")
    /\ Quits(p)
    /\ UNCHANGED <<ticketVars, planRows, forecasts, measured, costUsd, ended>>

PlanLedgerNext ==
    \E p \in Authors :
        \/ LaunchFresh(p) \/ LaunchRevision(p) \/ LaunchResume(p)
        \/ MakePlan(p) \/ PostPlan(p) \/ CodePlan(p)
        \/ RecordPlan(p) \/ FindSame(p) \/ RecordEstimate(p)
        \/ SumUsage(p) \/ WriteCost(p) \/ Dies(p)

-----------------------------------------------------------------------------
\* df_plan_estimate_accuracy, the view listEstimateAccuracy reads.
Accuracy == {[forecast |-> f, actual |-> costUsd] :
                 f \in {x \in forecasts : costUsd # Unset}}

\* Whatever processes plan, park, die, are launched again or overlap, the
\* calibration reads true pairs: a plan was forecast once, the forecast prices
\* the plan that was recorded, and the actual is spend the run was measured to
\* have, not more (it is the whole sum each time, never a sum of sums).
AccuracyIsSound ==
    /\ \A f \in forecasts :
          /\ \E row \in planRows : /\ row.revision = f.revision
                                   /\ row.draft = f.draft
          /\ \A g \in forecasts : f.revision = g.revision => f = g
    /\ \A pair \in Accuracy : pair.actual \in 1..measured
=============================================================================
