--------------------------------- MODULE Usage ---------------------------------
(***************************************************************************)
(* The ledger of measured usage: the recorder that keeps what its store    *)
(* refused (BufferedUsageRecorder of usage-store.ts for events,            *)
(* BufferedMetricsRecorder of metrics.ts for task metrics: they differ in  *)
(* what an exception does), and the reports over the rows.                 *)
(*                                                                         *)
(* A use stands for one event with its time, tenant and cost; no event is  *)
(* recorded twice by its caller.  Every insert makes a new row, so the     *)
(* table is a bag.  The tokens and the duration of an event are summed     *)
(* like its cost, the model, run and task type grouped by like its day.    *)
(*                                                                         *)
(* An event carries one measurement.  In the code it may carry several,    *)
(* and is unmeasured when it has none of any kind (usage-store.ts:184).    *)
(***************************************************************************)
EXTENDS Integers, Sequences, FiniteSets, FiniteSetsExt, SequencesExt

CONSTANTS
    Uses,         \* events
    Earlier,      \* those an earlier process recorded
    UseOf,        \* what each is: [at, tenant, cost]
    Flushers,     \* callers of flush
    Unassigned,   \* the tenant of an event that has none
    Unmeasured,   \* a cost nobody measured
    MaxCost,      \* MAX_USAGE_COST_USD
    MaxCopies     \* rows of one event (a bound of the model)

ASSUME UsageAssumption ==
    /\ IsFiniteSet(Uses)
    /\ \A u \in Uses : UseOf[u].at \in Nat
                       /\ UseOf[u].cost \in Nat \cup {Unmeasured}
    /\ Earlier \subseteq Uses
    /\ \A u \in Earlier : UseOf[u].cost = Unmeasured \/ UseOf[u].cost <= MaxCost
    /\ Unmeasured \notin Nat
    /\ MaxCost \in Nat /\ MaxCopies \in Nat \ {0}

VARIABLES
    recorder,   \* "usage" or "metrics"
    rowsOf,     \* the table: how many rows each event has
    buffer,     \* what the recorder retains
    recording,  \* where the call that records each event is
    flushing,   \* where each flush is: its next index, the event it waits for
    crossed, \* history: two flushes at once
    doubted     \* history: events stored though they were reported as failed

usageVars == <<recorder, rowsOf, buffer, recording, flushing, crossed, doubted>>

StoreAnswers == {"ok", "refused", "lost", "rejected"}
NotFlushing == [on |-> FALSE, next |-> 0, event |-> Unassigned, failing |-> <<>>]

UsageTypeOK ==
    /\ recorder \in {"usage", "metrics"}
    /\ rowsOf \in [Uses -> 0..MaxCopies]
    /\ buffer \in Seq(Uses)
    /\ recording \in [Uses -> {"idle", "storing", "saved", "buffered", "thrown"}]
    /\ flushing \in [Flushers -> {NotFlushing} \cup
                       [on : {TRUE}, next : Nat \ {0}, event : Uses, failing : Seq(Uses)]]
    /\ crossed \in BOOLEAN
    /\ doubted \subseteq Uses

UsageInit ==
    /\ recorder \in {"usage", "metrics"}
    /\ rowsOf = [u \in Uses |-> IF u \in Earlier THEN 1 ELSE 0]
    /\ buffer = <<>>
    /\ recording = [u \in Uses |-> IF u \in Earlier THEN "saved" ELSE "idle"]
    /\ flushing = [f \in Flushers |-> NotFlushing]
    /\ crossed = FALSE
    /\ doubted = {}

-----------------------------------------------------------------------------
(* Recording                                                               *)

\* assertOptionalMeasurement: absent stays absent, a present one is bounded.
MeasurementOK(cost) == IF cost = Unmeasured THEN TRUE ELSE cost <= MaxCost

\* toUsageEvent and toTaskMetric: a malformed event is the caller's error, and
\* throws before anything is written.
RefuseUse(u) ==
    /\ recording[u] = "idle"
    /\ ~MeasurementOK(UseOf[u].cost)
    /\ recording' = [recording EXCEPT ![u] = "thrown"]
    /\ UNCHANGED <<recorder, rowsOf, buffer, flushing, crossed, doubted>>

RecordUse(u) ==
    /\ recording[u] = "idle"
    /\ MeasurementOK(UseOf[u].cost)
    /\ recording' = [recording EXCEPT ![u] = "storing"]
    /\ UNCHANGED <<recorder, rowsOf, buffer, flushing, crossed, doubted>>

\* What the store does with u, and what it answers: a "lost" answer is a row
\* that stands while its writer was told it failed; "rejected" is a promise
\* that rejects.
InsertUse(u, answer) ==
    IF answer \in {"ok", "lost"}
    THEN /\ rowsOf[u] < MaxCopies
         /\ rowsOf' = [rowsOf EXCEPT ![u] = @ + 1]
    ELSE UNCHANGED rowsOf

Doubt(u, answer) == IF answer = "lost" THEN {u} ELSE {}

\* record, from the store's answer on.
UseAnswered(u, answer) ==
    /\ recording[u] = "storing"
    /\ InsertUse(u, answer)
    /\ doubted' = doubted \cup Doubt(u, answer)
    /\ LET then == IF answer = "ok" THEN "saved"
                   ELSE IF answer = "rejected" /\ recorder = "metrics" THEN "thrown"
                   ELSE "buffered"
       IN /\ recording' = [recording EXCEPT ![u] = then]
          /\ buffer' = IF then = "buffered" THEN Append(buffer, u) ELSE buffer
    /\ UNCHANGED <<recorder, flushing, crossed>>

-----------------------------------------------------------------------------
(* flush, which goes through the live buffer and then replaces it          *)

StartFlush(f) ==
    /\ ~flushing[f].on
    /\ buffer # <<>>
    /\ flushing' = [flushing EXCEPT ![f] = [on |-> TRUE, next |-> 2, event |-> buffer[1],
                                            failing |-> <<>>]]
    /\ crossed' = (crossed \/ \E g \in Flushers \ {f} : flushing[g].on)
    /\ UNCHANGED <<recorder, rowsOf, buffer, recording, doubted>>

\* Mutant: the end of a flush forgets what is still failing.
GoOnForgetting(f, failing) ==
    IF flushing[f].next <= Len(buffer)
    THEN /\ flushing' = [flushing EXCEPT
               ![f] = [on |-> TRUE, next |-> @.next + 1, event |-> buffer[@.next],
                       failing |-> failing]]
         /\ UNCHANGED buffer
    ELSE /\ flushing' = [flushing EXCEPT ![f] = NotFlushing]
         /\ buffer' = <<>>

\* The next event of the buffer as it is now, or the end of the loop.
GoOnFlushing(f, failing) ==
    IF flushing[f].next <= Len(buffer)
    THEN /\ flushing' = [flushing EXCEPT
               ![f] = [on |-> TRUE, next |-> @.next + 1, event |-> buffer[@.next],
                       failing |-> failing]]
         /\ UNCHANGED buffer
    ELSE /\ flushing' = [flushing EXCEPT ![f] = NotFlushing]
         /\ buffer' = failing

\* An exception ends a flush of metrics with the buffer as it was.
FlushAnswered(f, answer) ==
    LET u == flushing[f].event
    IN /\ flushing[f].on
       /\ InsertUse(u, answer)
       /\ IF answer = "rejected" /\ recorder = "metrics"
          THEN /\ flushing' = [flushing EXCEPT ![f] = NotFlushing]
               /\ doubted' = doubted \cup {v \in ToSet(buffer) : rowsOf[v] > 0}
               /\ UNCHANGED buffer
          ELSE /\ GoOnFlushing(f, IF answer = "ok" THEN flushing[f].failing
                                  ELSE Append(flushing[f].failing, u))
               /\ doubted' = doubted \cup Doubt(u, answer)
       /\ UNCHANGED <<recorder, recording, crossed>>

UsageNext ==
    \/ \E u \in Uses : RefuseUse(u) \/ RecordUse(u)
    \/ \E u \in Uses, answer \in StoreAnswers : UseAnswered(u, answer)
    \/ \E f \in Flushers : StartFlush(f)
    \/ \E f \in Flushers, answer \in StoreAnswers : FlushAnswered(f, answer)

UsageSpec == UsageInit /\ [][UsageNext]_usageVars

-----------------------------------------------------------------------------
(* The reports                                                             *)

\* The rows of the events us, and what they cost together.
CallsOver(us) == MapThenSumSet(LAMBDA u : rowsOf[u], us)
CostOver(us) == MapThenSumSet(LAMBDA u : rowsOf[u] * UseOf[u].cost, us)

\* An accumulator over the rows of the events us: a sum is there only when
\* something was measured.
Accumulated(us) ==
    LET measured == {u \in us : rowsOf[u] > 0 /\ UseOf[u].cost # Unmeasured}
    IN [calls |-> CallsOver(us),
        cost |-> IF measured = {} THEN Unmeasured ELSE CostOver(measured),
        unmeasured |-> CallsOver({u \in us : UseOf[u].cost = Unmeasured})]

\* Mutant: a window takes in its end.
InClosedWindow(u, w) == /\ w.from = -1 \/ UseOf[u].at >= w.from
                        /\ w.to = -1 \/ UseOf[u].at <= w.to

\* A window [from, to), each bound absent as -1; "to" later than "from".
NormalWindow(w) == w.from = -1 \/ w.to = -1 \/ w.from < w.to
InWindow(u, w) == /\ w.from = -1 \/ UseOf[u].at >= w.from
                  /\ w.to = -1 \/ UseOf[u].at < w.to

\* No tenant filter is Unassigned: the empty parameter of the query.
OfTenant(u, tenant) == tenant = Unassigned \/ UseOf[u].tenant = tenant

\* What a driver reads: SQLite every row, PostgreSQL those of the window (it
\* leaves the tenant to summarizeUsage).
DriverReads(driver, w) ==
    {u \in Uses : rowsOf[u] > 0 /\ (driver = "postgres" => InWindow(u, w))}

\* The groups of a report: those of a tenant, and those of a day.
OfOneTenant(us, t) == {u \in us : UseOf[u].tenant = t}
OfOneDay(us, d) == {u \in us : UseOf[u].at = d}
ByTenant(us) == [t \in {UseOf[u].tenant : u \in us} \ {Unassigned} |->
                   Accumulated(OfOneTenant(us, t))]
ByDay(us) == [d \in {UseOf[u].at : u \in us} |-> Accumulated(OfOneDay(us, d))]

summarizeUsage(us, w, tenant) ==
    LET selected == {u \in us : InWindow(u, w) /\ OfTenant(u, tenant)}
    IN [totals |-> Accumulated(selected),
        byTenant |-> ByTenant(selected),
        byDay |-> ByDay(selected),
        unassigned |-> Accumulated(OfOneTenant(selected, Unassigned))]

\* queryUsage and queryTenantUsage: a window that is none is the caller's error,
\* before the ledger is asked; `up` is whether the ledger answers.
queryUsage(driver, up, w, tenant) ==
    IF ~NormalWindow(w) THEN [status |-> 400]
    ELSE IF ~up THEN [status |-> 503]
    ELSE [status |-> 200, report |-> summarizeUsage(DriverReads(driver, w), w, tenant)]

\* GET /usage: an operator asks for any tenant, a customer gets their own.
UsageFor(viewer, driver, up, w, asked) ==
    queryUsage(driver, up, w, IF viewer = Unassigned THEN asked ELSE viewer)

-----------------------------------------------------------------------------
(* What must hold                                                          *)

\* An event whose recorder said so is in the table, and one it retained is in
\* the table or still in its buffer, as long as no two flushes overlap; no
\* event is in the table twice that was not reported as failed though it was
\* stored.
NoUseIsLost ==
    \A u \in Uses :
        /\ recording[u] = "saved" => rowsOf[u] >= 1
        /\ recording[u] = "buffered" /\ ~crossed =>
              rowsOf[u] >= 1 \/ u \in ToSet(buffer)
        /\ ~crossed /\ u \notin doubted => rowsOf[u] <= 1
        /\ rowsOf[u] > 0 => MeasurementOK(UseOf[u].cost)

UsageWindows == [from : {-1} \cup {UseOf[u].at : u \in Uses},
                 to : {-1} \cup {UseOf[u].at : u \in Uses}]
UsageTenants == {UseOf[u].tenant : u \in Uses}
CostOf(acc) == IF acc.cost = Unmeasured THEN 0 ELSE acc.cost

\* What the buckets of a report come to.
CallsOfAll(buckets) == MapThenSumSet(LAMBDA k : buckets[k].calls, DOMAIN buckets)
CostOfAll(buckets) == MapThenSumSet(LAMBDA k : CostOf(buckets[k]), DOMAIN buckets)

\* A report adds up: its totals are those of its tenants and of the unassigned
\* bucket, and of its days; adjacent windows neither share an event nor miss
\* one; both drivers report the same; and what a customer sees is the bucket
\* the operator sees of them, whatever tenant they asked for.  A report is of
\* the rows alone: the states with nothing retained show every table there is.
ReportsAddUp ==
    \A w \in UsageWindows : buffer = <<>> /\ NormalWindow(w) =>
        LET all == UsageFor(Unassigned, "postgres", TRUE, w, Unassigned).report
        IN /\ CallsOfAll(all.byTenant) = all.totals.calls - all.unassigned.calls
           /\ CostOfAll(all.byTenant) = CostOf(all.totals) - CostOf(all.unassigned)
           /\ CostOfAll(all.byDay) = CostOf(all.totals)
           /\ all.totals.cost = Unmeasured <=> all.totals.calls = all.totals.unmeasured
           /\ \A mid \in {UseOf[u].at : u \in Uses} :
                 LET before == [w EXCEPT !.to = mid]
                     after == [w EXCEPT !.from = mid]
                     Half(h) == UsageFor(Unassigned, "sqlite", TRUE, h, Unassigned).report
                 IN (w.from = -1 \/ w.from < mid) /\ (w.to = -1 \/ mid < w.to) =>
                       Half(before).totals.calls + Half(after).totals.calls
                       = all.totals.calls
           /\ \A t \in UsageTenants \ {Unassigned}, asked \in UsageTenants :
                 LET own == UsageFor(t, "sqlite", TRUE, w, asked).report
                 IN /\ own.totals = IF t \in DOMAIN all.byTenant THEN all.byTenant[t]
                                    ELSE Accumulated({})
                    /\ own.unassigned.calls = 0

\* Nothing that was used is lost or counted twice, and the reports add up.
UsageIsWhole == NoUseIsLost /\ ReportsAddUp
=============================================================================
