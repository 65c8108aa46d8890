------------------------------ MODULE Calibration ------------------------------
(***************************************************************************)
(* What a plan is forecast to cost (plan-cost-estimate.ts, from the counts *)
(* of the plan, the price of its model and the runs that ended before,     *)
(* plan-history.ts) and what the forecasts were worth (df-calibration-     *)
(* report.ts over calibration-report.ts): runs are forecast, spend and     *)
(* end while a report is made of them, one query at a time.                *)
(*                                                                         *)
(* Tokens are thousands, costs naturals: price units times Unit, so that a *)
(* mean over the runs before is a whole number.                            *)
(*                                                                         *)
(* A run has one forecast.  The code records one per revision of the plan  *)
(* and the report pairs the last; today a second revision is refused for   *)
(* its number (runner_revision), so there is a second one only after a     *)
(* revision whose write was lost.                                          *)
(***************************************************************************)
EXTENDS Integers, FiniteSets, FiniteSetsExt

CONSTANTS
    ForecastRuns,     \* runs
    FileCounts,  \* target files a plan may have
    TaskCounts,  \* tasks a plan may have
    PriceBooks,  \* [known, input, output]: what a model may cost
    CeilingBook, \* the dearest of the table
    MeasuredCosts,    \* costs an event may measure
    Cycles0,     \* iterations and fix cycles a run may have ended with
    ClassEdges,  \* where one cost class ends and the next begins
    Unit,        \* a common multiple of the numbers of runs
    MinSamples,  \* minimum sample sizes a report may be asked for
    MaxReprices, \* changes of the price (a bound of the model)
    MaxSpends    \* usage events of all runs (a bound of the model)

ASSUME CalibrationAssumption ==
    /\ FileCounts \cup TaskCounts \cup MeasuredCosts \cup Cycles0 \cup ClassEdges \subseteq Nat
    /\ MinSamples \subseteq Nat \ {0} /\ MaxReprices \in Nat /\ MaxSpends \in Nat
    /\ IsFiniteSet(ForecastRuns) /\ Unit \in Nat \ {0}
    /\ \A n \in 1..Cardinality(ForecastRuns) : Unit % n = 0
    /\ PriceBooks \cup {CeilingBook} \subseteq [known : BOOLEAN, input : Nat, output : Nat]
    /\ \A b \in PriceBooks : b.input <= CeilingBook.input /\ b.output <= CeilingBook.output

VARIABLES
    forecast,  \* df_plan_estimates: the estimate of each run that has one
    spent,     \* the usage ledger: per run and stage, an event's cost
    outcome,   \* "none" before a run has ended, then its cycles
    book,      \* what the model costs now
    reprices,  \* changes of it so far
    survey,    \* the report in the making
    pricedAt   \* history: the prices behind each forecast

calibrationVars == <<forecast, spent, outcome, book, reprices, survey, pricedAt>>

AgentStages == {"architect", "developer", "tester"}
EXCLUDED_TASK_TYPES == {"tester"}
CountedStages == AgentStages \ EXCLUDED_TASK_TYPES

\* No event yet, an event nobody measured, or one with its cost.
Quiet == -2
Unmetered == -1

CalibrationTypeOK ==
    /\ DOMAIN forecast \subseteq ForecastRuns /\ DOMAIN pricedAt = DOMAIN forecast
    /\ \A r \in DOMAIN forecast :
          /\ forecast[r].files \in FileCounts /\ forecast[r].tasks \in TaskCounts
          /\ forecast[r].expected \in Nat /\ forecast[r].samples \in Nat
    /\ spent \in [ForecastRuns -> [AgentStages -> MeasuredCosts \cup {Quiet, Unmetered}]]
    /\ outcome \in [ForecastRuns -> Cycles0 \cup {Quiet}]
    /\ book \in PriceBooks /\ reprices \in 0..MaxReprices
    /\ survey.at \in {"idle", "reading", "published"}
    /\ survey.todo \subseteq ForecastRuns /\ DOMAIN survey.pairs \subseteq ForecastRuns
    /\ survey.without \in Nat /\ survey.skipped \in Nat

-----------------------------------------------------------------------------
(* The estimate                                                            *)

MAX_CONTEXT_FILES_READ == 24
TOKENS_PER_FILE == 3            \* MAX_CHARS_PER_FILE / CHARS_PER_TOKEN
CONTEXT_READS_PER_RUN == 2
ARCHITECT_OUTPUT_TOKENS == 8
OUTPUT_TOKENS_PER_TASK == 2

ContextTokens(files) ==
    TOKENS_PER_FILE * (IF files < MAX_CONTEXT_FILES_READ THEN files
                       ELSE MAX_CONTEXT_FILES_READ)

\* A model without a price is taken for the dearest.
PriceOf(b) == IF b.known THEN b ELSE CeilingBook

BaseCost(files, tasks, b) ==
    ContextTokens(files) * CONTEXT_READS_PER_RUN * PriceOf(b).input
    + (ARCHITECT_OUTPUT_TOKENS + tasks * OUTPUT_TOKENS_PER_TASK) * PriceOf(b).output

\* selectPlanHistory: the runs that ended, with the work each took.
PlanHistory == {r \in ForecastRuns : outcome[r] # Quiet}

\* The mean of that work, and no discount; times Unit.
RevisionFactor ==
    IF PlanHistory = {} THEN Unit
    ELSE MapThenSumSet(LAMBDA r : outcome[r] + 1, PlanHistory)
         * (Unit \div Cardinality(PlanHistory))

Confidence(samples) == IF samples = 0 THEN "low" ELSE IF samples < 10 THEN "medium" ELSE "high"

ClassOf(cost) == Cardinality({e \in ClassEdges : e <= cost})

EstimatePlanCost(files, tasks) ==
    LET cost == BaseCost(files, tasks, book) * RevisionFactor
    IN [files |-> files, tasks |-> tasks, expected |-> cost, class |-> ClassOf(cost),
        samples |-> Cardinality(PlanHistory),
        confidence |-> Confidence(Cardinality(PlanHistory))]

\* Mutant: each stage is given both reads.
DecomposeWhole(files, tasks, b) ==
    [s \in CountedStages |->
        ContextTokens(files) * CONTEXT_READS_PER_RUN * PriceOf(b).input
        + PriceOf(b).output * (IF s = "architect" THEN ARCHITECT_OUTPUT_TOKENS
                               ELSE tasks * OUTPUT_TOKENS_PER_TASK)]

\* decomposePlanCostEstimateFromCounts: what of it each stage spends.
Decompose(files, tasks, b) ==
    [s \in CountedStages |->
        ContextTokens(files) * (CONTEXT_READS_PER_RUN \div 2) * PriceOf(b).input
        + PriceOf(b).output * (IF s = "architect" THEN ARCHITECT_OUTPUT_TOKENS
                               ELSE tasks * OUTPUT_TOKENS_PER_TASK)]

SumOf(f) == MapThenSumSet(LAMBDA s : f[s], DOMAIN f)

-----------------------------------------------------------------------------
(* The runs                                                                *)

Unsurveyed == [at |-> "idle", minimum |-> 1, listed |-> 0, todo |-> {}, pairs |-> <<>>,
               without |-> 0, skipped |-> 0]

CalibrationInit ==
    /\ forecast = <<>> /\ pricedAt = <<>>
    /\ spent = [r \in ForecastRuns |-> [s \in AgentStages |-> Quiet]]
    /\ outcome = [r \in ForecastRuns |-> Quiet]
    /\ book \in PriceBooks /\ reprices = 0
    /\ survey = Unsurveyed

\* f with the entry of r, which had none.
WithRun(f, r, entry) == [q \in DOMAIN f \cup {r} |-> IF q = r THEN entry ELSE f[q]]

\* Once, or the row is not written: an estimate is best effort.
RecordForecast(r) ==
    /\ r \notin DOMAIN forecast /\ outcome[r] = Quiet
    /\ \E files \in FileCounts, tasks \in TaskCounts :
          forecast' = WithRun(forecast, r, EstimatePlanCost(files, tasks))
    /\ pricedAt' = WithRun(pricedAt, r, book)
    /\ UNCHANGED <<spent, outcome, book, reprices, survey>>

SpendOn(r, s) ==
    /\ outcome[r] = Quiet /\ spent[r][s] = Quiet
    /\ Cardinality({x \in ForecastRuns \X AgentStages : spent[x[1]][x[2]] # Quiet}) < MaxSpends
    /\ \E c \in MeasuredCosts \cup {Unmetered} : spent' = [spent EXCEPT ![r][s] = c]
    /\ UNCHANGED <<forecast, outcome, book, reprices, survey, pricedAt>>

EndRun(r) ==
    /\ outcome[r] = Quiet
    /\ \E c \in Cycles0 : outcome' = [outcome EXCEPT ![r] = c]
    /\ UNCHANGED <<forecast, spent, book, reprices, survey, pricedAt>>

RepriceModel ==
    /\ reprices < MaxReprices
    /\ reprices' = reprices + 1
    /\ book' \in PriceBooks \ {book}
    /\ UNCHANGED <<forecast, spent, outcome, survey, pricedAt>>

-----------------------------------------------------------------------------
(* The report                                                              *)

HasUsage(r) == \E s \in AgentStages : spent[r][s] # Quiet

\* queryUsage: the runs the usage ledger knows.
ListUsedRuns ==
    /\ survey.at = "idle"
    /\ LET runs == {r \in ForecastRuns : HasUsage(r)}
       IN \E n \in MinSamples :
             survey' = [Unsurveyed EXCEPT !.at = "reading", !.minimum = n, !.todo = runs,
                                          !.listed = Cardinality(runs)]
    /\ UNCHANGED <<forecast, spent, outcome, book, reprices, pricedAt>>

\* Mutant: what the tester spent is counted.
StageActualWhole(r) ==
    [s \in {x \in AgentStages : spent[r][x] # Quiet} |->
        IF spent[r][s] = Unmetered THEN 0 ELSE spent[r][s]]

\* The stages of a run that have an event, an unmeasured one for nothing.
StageActual(r) ==
    [s \in {x \in CountedStages : spent[r][x] # Quiet} |->
        IF spent[r][s] = Unmetered THEN 0 ELSE spent[r][s]]

\* The stages' parts of what was expected are left out: they are the shares of
\* Decompose at today's price, scaled to what was published.
PairFor(r) == [expected |-> forecast[r].expected, class |-> forecast[r].class,
               stageActual |-> StageActual(r), actual |-> SumOf(StageActual(r))]

\* A run without a forecast is left out and counted; one that cannot be read is
\* passed over.  The forecast is read before the spend; as it is written once, a
\* pair is that of the later moment.
PairRun(r) ==
    /\ survey.at = "reading" /\ r \in survey.todo
    /\ \/ survey' = [survey EXCEPT
             !.todo = @ \ {r},
             !.pairs = IF r \in DOMAIN forecast THEN WithRun(@, r, PairFor(r)) ELSE @,
             !.without = IF r \in DOMAIN forecast THEN @ ELSE @ + 1]
       \/ survey' = [survey EXCEPT !.todo = @ \ {r}, !.skipped = @ + 1]
    /\ UNCHANGED <<forecast, spent, outcome, book, reprices, pricedAt>>

Publish ==
    /\ survey.at = "reading" /\ survey.todo = {}
    /\ survey' = [survey EXCEPT !.at = "published"]
    /\ UNCHANGED <<forecast, spent, outcome, book, reprices, pricedAt>>

CalibrationNext ==
    \/ \E r \in ForecastRuns : \/ RecordForecast(r) \/ EndRun(r) \/ PairRun(r)
                          \/ \E s \in AgentStages : SpendOn(r, s)
    \/ RepriceModel \/ ListUsedRuns \/ Publish

CalibrationSpec == CalibrationInit /\ [][CalibrationNext]_calibrationVars

\* buildCalibrationReport: a metric is a sum over its pairs and their number.
Metric(rs, errorOf(_)) == [sum |-> MapThenSumSet(errorOf, rs), n |-> Cardinality(rs)]

Bias(rs) == Metric(rs, LAMBDA r : survey.pairs[r].expected - survey.pairs[r].actual)

\* A pair whose actual is zero is not among these.
PercentagePairs(rs) == {r \in rs : survey.pairs[r].actual # 0}

IsMeasured(s) == \E r \in DOMAIN survey.pairs : s \in DOMAIN survey.pairs[r].stageActual

\* Withheld, a report has its counts and no figure.
Report ==
    LET rs == DOMAIN survey.pairs
        classes == {survey.pairs[r].class : r \in rs}
    IN IF Cardinality(rs) < survey.minimum
       THEN [sampleSize |-> Cardinality(rs), bias |-> {}, byClass |-> <<>>, measured |-> {},
             percentages |-> Cardinality(PercentagePairs(rs))]
       ELSE [sampleSize |-> Cardinality(rs), bias |-> {Bias(rs)},
             byClass |-> [c \in classes |-> Bias({r \in rs : survey.pairs[r].class = c})],
             measured |-> {s \in CountedStages : IsMeasured(s)},
             percentages |-> Cardinality(PercentagePairs(rs))]

-----------------------------------------------------------------------------
(* What must hold                                                          *)

\* An estimate is never below what it would be with no run before it, and its
\* two stages, computed apart from it, are the whole of it.
EstimateIsWhole ==
    \A r \in DOMAIN forecast :
        LET f == forecast[r] b == pricedAt[r]
        IN /\ f.expected >= BaseCost(f.files, f.tasks, b) * Unit
           /\ f.samples = 0 => f.expected = BaseCost(f.files, f.tasks, b) * Unit
           /\ SumOf(Decompose(f.files, f.tasks, b)) = BaseCost(f.files, f.tasks, b)

\* Every run that was listed is in the sample, left out or passed over, once; a
\* pair sets a forecast that was made against spend that was measured, the
\* tester's apart, though the run went on while the report was read.
PairsAreTrue ==
    /\ survey.at = "published" =>
          Cardinality(DOMAIN survey.pairs) + survey.without + survey.skipped = survey.listed
    /\ \A r \in DOMAIN survey.pairs :
          LET pair == survey.pairs[r]
          IN /\ r \in DOMAIN forecast /\ pair.expected = forecast[r].expected
             /\ pair.actual <= MapThenSumSet(
                    LAMBDA s : IF spent[r][s] > 0 THEN spent[r][s] ELSE 0, CountedStages)

\* A report below its minimum has no figure; above it, its classes are the
\* whole of its sample, and no stage is called measured that has no event.
ReportIsWhole ==
    survey.at = "published" =>
        /\ Report.sampleSize < survey.minimum <=> Report.bias = {}
        /\ Report.bias = {} => Report.byClass = <<>> /\ Report.measured = {}
        /\ \A b \in Report.bias :
              /\ b.n = MapThenSumSet(LAMBDA c : Report.byClass[c].n, DOMAIN Report.byClass)
              /\ b.sum = MapThenSumSet(LAMBDA c : Report.byClass[c].sum, DOMAIN Report.byClass)
        /\ \A s \in Report.measured :
              \E r \in DOMAIN survey.pairs : r \in DOMAIN forecast /\ spent[r][s] # Quiet

CalibrationIsHonest == EstimateIsWhole /\ PairsAreTrue /\ ReportIsWhole
=============================================================================
