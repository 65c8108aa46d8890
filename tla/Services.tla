------------------------------- MODULE Services --------------------------------
(***************************************************************************)
(* The parts of the factory that keep their own state: the budget stores,  *)
(* the circuit breaker and the coding loop over it, worker leases,         *)
(* sandboxes and their provisioning, operator control, the registry of     *)
(* tenants, the self-improvement loop, the readers of the run history, the *)
(* plan ledger, the migrations, the Architect's planning, the usage ledger *)
(* and the webhook.  They share no state with each other (the coding loop  *)
(* and the breaker apart), so a behaviour moves one of them, the one       *)
(* `part` names, and leaves the others where they began.                   *)
(***************************************************************************)
EXTENDS CostBudgetPg, Coding, WorkerLease, Sandbox, Provisioning, Control,
        Tenants, SelfImprove, RunReads, PlanLedger, Migrate,
        Planning, Usage, Webhook, StoreStart, RunMetrics, Pricing, Calibration,
        OperatorGate

VARIABLES
    part,   \* the part that moves
    store   \* the kind of the deployment's budget store

(***************************************************************************)
(* The budget stores: a deployment chooses the SQLite (or in-memory) one,  *)
(* whose operations are atomic and of module CostBudget, or the PostgreSQL *)
(* one of module CostBudgetPg (cost-budget-store.ts).  The same calls,     *)
(* processes and operator work on either; what both promise is one         *)
(* property, what only the first keeps another.                            *)
(***************************************************************************)
storesVars == <<pgVars, store>>

StoresTypeOK ==
    /\ store \in {"sqlite", "postgres"}
    /\ PgTypeOK
    /\ store = "sqlite" => TypeOK

StoresInit == store \in {"sqlite", "postgres"} /\ PgInit

StoresNext ==
    /\ UNCHANGED store
    /\ \/ store = "sqlite" /\ Next /\ NoTransaction
       \/ store = "postgres" /\ PgNext

-----------------------------------------------------------------------------
(* The parts together                                                      *)

Parts == {"budgets", "breaker", "coding", "lease", "sandbox", "provisioning",
          "control", "tenants", "improve", "runs", "events", "plans", "migrate",
          "planning", "usage", "webhook", "opening", "metrics", "pricing",
          "calibration", "gate"}

codingOnly == <<coding, workspace, tested, branch>>

servicesVars == <<storesVars, breakerVars, codingOnly, leaseVars, sandboxVars,
                  provisionVars, controlVars, tenantVars, improveVars,
                  listVars, followVars, planLedgerVars, migrateVars,
                  planningVars, usageVars, webhookVars, startVars, metricsVars,
                  pricingVars, calibrationVars, gateVars,
                  part>>

\* The part that moves is well typed; the others are where they began.
ServicesTypeOK ==
    /\ part \in Parts
    /\ part = "budgets" => StoresTypeOK
    /\ part = "breaker" => BreakerTypeOK
    /\ part = "coding" => CodingTypeOK
    /\ part = "lease" => LeaseTypeOK
    /\ part = "sandbox" => SandboxTypeOK
    /\ part = "provisioning" => ProvisionTypeOK
    /\ part = "control" => ControlTypeOK
    /\ part = "tenants" => TenantsTypeOK
    /\ part = "improve" => ImproveTypeOK
    /\ part \in {"runs", "events"} => ReadsTypeOK
    /\ part = "plans" => PlanLedgerTypeOK
    /\ part = "migrate" => MigrateTypeOK
    /\ part = "planning" => PlanningTypeOK
    /\ part = "usage" => UsageTypeOK
    /\ part = "webhook" => WebhookTypeOK
    /\ part = "opening" => StartTypeOK
    /\ part = "metrics" => MetricsTypeOK
    /\ part = "pricing" => PricingTypeOK
    /\ part = "calibration" => CalibrationTypeOK
    /\ part = "gate" => GateTypeOK

\* The store of a part that does not open it: one of the initial states.
NothingStored == /\ history = "sqlite" /\ columns = {}
                 /\ runAt = [n \in OldRuns |-> "none"]

\* The measurer of a loop that does not run.
AnyQuality == CHOOSE q \in Qualities : TRUE

ServicesInit ==
    /\ part \in Parts
    /\ StoresInit /\ (part = "budgets" \/ store = "sqlite")
    /\ ImproveInit
    /\ part # "improve" => surface = "bound" /\ ~enabled /\ quality = AnyQuality
    /\ GateInit /\ (part = "gate" \/ opened = "console")
    /\ UsageInit /\ (part = "usage" \/ recorder = "usage")
    /\ WebhookInit
    /\ part = "webhook" \/ deployment = [policy |-> "required", secret |-> TRUE]
    /\ StartInit /\ (part = "opening" \/ NothingStored)
    /\ CalibrationInit /\ ~book.known
    /\ CodingInit /\ LeaseInit /\ SandboxInit /\ ProvisionInit
    /\ ControlInit /\ TenantsInit /\ ListInit /\ FollowInit /\ PlanLedgerInit
    /\ MigrateInit /\ PlanningInit /\ MetricsInit /\ PricingInit

\* The variables v are moved by the parts ps alone.
MovedBy(ps, v) == IF part \in ps THEN TRUE ELSE UNCHANGED v

ServicesNext ==
    /\ UNCHANGED part
    /\ MovedBy({"budgets"}, storesVars)
    /\ MovedBy({"breaker", "coding"}, breakerVars)
    /\ MovedBy({"coding"}, codingOnly)
    /\ MovedBy({"lease"}, leaseVars)
    /\ MovedBy({"sandbox"}, sandboxVars)
    /\ MovedBy({"provisioning"}, provisionVars)
    /\ MovedBy({"control"}, controlVars)
    /\ MovedBy({"tenants"}, tenantVars)
    /\ MovedBy({"improve"}, improveVars)
    /\ MovedBy({"runs"}, listVars)
    /\ MovedBy({"events"}, followVars)
    /\ MovedBy({"plans"}, planLedgerVars)
    /\ MovedBy({"migrate"}, migrateVars)
    /\ MovedBy({"planning"}, planningVars)
    /\ MovedBy({"usage"}, usageVars)
    /\ MovedBy({"webhook"}, webhookVars)
    /\ MovedBy({"opening"}, startVars)
    /\ MovedBy({"metrics"}, metricsVars)
    /\ MovedBy({"pricing"}, pricingVars)
    /\ MovedBy({"calibration"}, calibrationVars)
    /\ MovedBy({"gate"}, gateVars)
    /\ \/ part = "budgets" /\ StoresNext
       \/ part = "breaker" /\ BreakerNext
       \/ part = "coding" /\ CodingNext
       \/ part = "lease" /\ LeaseNext
       \/ part = "sandbox" /\ SandboxNext
       \/ part = "provisioning" /\ ProvisionNext
       \/ part = "control" /\ ControlNext
       \/ part = "tenants" /\ TenantsNext
       \/ part = "improve" /\ ImproveNext
       \/ part = "runs" /\ ListNext
       \/ part = "events" /\ FollowNext
       \/ part = "plans" /\ PlanLedgerNext
       \/ part = "migrate" /\ MigrateNext
       \/ part = "planning" /\ PlanningNext
       \/ part = "usage" /\ UsageNext
       \/ part = "webhook" /\ WebhookNext
       \/ part = "opening" /\ StartNext
       \/ part = "metrics" /\ MetricsNext
       \/ part = "pricing" /\ PricingNext
       \/ part = "calibration" /\ CalibrationNext
       \/ part = "gate" /\ GateNext

ServicesSpec == ServicesInit /\ [][ServicesNext]_servicesVars

-----------------------------------------------------------------------------
\* What a task was given for its time, its lease and its sandbox, is taken
\* back when it ends, on every path and whoever tears it down.
NothingOutlivesItsTask == LeaseEndsWithItsTask /\ SandboxIsDisposed

\* What the set-up leaves behind is what its record says, for the next process
\* goes by the record: a provisioned sandbox, a schema made of one checkout, a store
\* of the run history somebody opened.
SetupIsReal ==
    /\ part = "provisioning" => ProvisionIsReal
    /\ part = "migrate" => SchemaIsOneCheckout
    /\ part = "opening" => StoreOpensWhole

\* What an operator reads of the history is the history: every row of a list
\* once, every event of a run, and figures that are of one set of runs.
HistoryReadsTrue ==
    /\ part \in {"runs", "events"} => ReadsAreWhole
    /\ part = "metrics" => MetricsAgree

\* Over SQLite and in memory the accumulator is what the open reservations
\* hold, and so the ceiling holds, whoever settles, dies or is reaped (over
\* PostgreSQL it does not: two releases of one reservation make room for a call
\* beyond the cap).
SqliteAccountHolds ==
    store = "sqlite" => ReservedIsOutstanding /\ SpendWithinCap

\* CommitmentShrinksByReleaseOnly: budget comes back from a release alone.
SqliteShrinksByReleaseOnly ==
    [][\A b \in Budgets : store = "sqlite" => ~ShrinksUnreleased(b)]_storesVars

\* What a model call costs is reserved before it, charged once after it, and
\* reported as it was measured: the budgets hold what their open reservations
\* and their charges say, the usage ledger neither loses an event nor reports
\* one twice, and the rate behind a reservation covers what providers ask.
MoneyIsAccounted ==
    /\ part = "budgets" => SqliteAccountHolds /\ SpentIsWhatWasCharged
    /\ part = "usage" => UsageIsWhole
    /\ part = "pricing" => PriceIsSound

\* What an operator is told a plan will cost, and how good the telling was, is
\* worked out of one forecast a run and of spend that was measured.
ForecastsAreTrue ==
    /\ part = "plans" => AccuracyIsSound
    /\ part = "calibration" => CalibrationIsHonest

\* What comes in from outside is let in under a policy no configuration
\* loosens by accident, and told the truth about what became of it; the factory
\* widens its own access only by a decision an operator armed.
EntranceIsTrue ==
    /\ part = "webhook" => WebhookIsTrue
    /\ part = "gate" => GateIsOrdered
=============================================================================
