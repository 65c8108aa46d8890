------------------------------- MODULE RunMetrics -------------------------------
(***************************************************************************)
(* The metrics of the run history (getRunMetrics of both stores, behind    *)
(* GET /metrics): three aggregates over the summary rows in three SELECTs, *)
(* the counts by status, the trend of the ended runs by day, and the sums  *)
(* of what was measured.  No snapshot holds them together while runs are   *)
(* accepted and end.                                                       *)
(***************************************************************************)
EXTENDS Integers, FiniteSets, FiniteSetsExt

CONSTANTS
    MetricRuns,   \* runs
    MetricDays,   \* days a run may be created or completed on
    RangeEnds,    \* bounds a request may ask for
    Spends,       \* costs a run may end with
    NoSpend       \* a cost nobody measured

ASSUME MetricsAssumption ==
    /\ IsFiniteSet(MetricRuns) /\ IsFiniteSet(MetricDays)
    /\ MetricDays \subseteq Nat /\ RangeEnds \subseteq MetricDays /\ Spends \subseteq Nat
    /\ NoSpend \notin Spends

VARIABLES
    summary,   \* the rows: created, status, completed, cost
    report,    \* the answer as far as it is read
    atFirst,   \* history: what was measured at the first SELECT
    meanwhile  \* history: the rows changed after it

metricsVars == <<summary, report, atFirst, meanwhile>>

TerminalStatuses == {"succeeded", "failed"}
MetricStatuses == {"running"} \cup TerminalStatuses

\* A run is completed exactly when its status is terminal.
SummaryRow == [created : MetricDays, status : MetricStatuses, completed : MetricDays \cup {0},
               cost : Spends \cup {NoSpend}]

\* What is answered, as far as it is read.
MetricsReport ==
    [at : {"idle", "counted", "trended", "answered", "refused", "down"},
     from : MetricDays \cup {0}, to : MetricDays \cup {0},
     counts : {<<>>} \cup [MetricStatuses -> Nat],
     trend : {<<>>} \cup [MetricDays -> [TerminalStatuses -> Nat]],
     sum : Nat, count : 0..Cardinality(MetricRuns)]

\* from and to bound the creation, 0 for absent.
Asked(from, to) == [at |-> "idle", from |-> from, to |-> to, counts |-> <<>>,
                    trend |-> <<>>, sum |-> 0, count |-> 0]
Unasked == Asked(0, 0)

MetricsTypeOK ==
    /\ DOMAIN summary \subseteq MetricRuns
    /\ \A r \in DOMAIN summary : summary[r] \in SummaryRow
    /\ report \in MetricsReport
    /\ atFirst \in [sum : Nat, count : 0..Cardinality(MetricRuns)]
    /\ meanwhile \in BOOLEAN

MetricsInit ==
    /\ summary = <<>>
    /\ report = Unasked
    /\ atFirst = [sum |-> 0, count |-> 0]
    /\ meanwhile = FALSE

-----------------------------------------------------------------------------
(* The rows                                                                *)

\* Bound: the rows move until the answer.
RowsMove == /\ report.at \in {"idle", "counted", "trended"}
            /\ meanwhile' = (report.at # "idle")

AcceptMetric(r) ==
    /\ RowsMove
    /\ r \notin DOMAIN summary
    /\ \E d \in MetricDays :
          summary' = [x \in DOMAIN summary \cup {r} |->
                        IF x = r THEN [created |-> d, status |-> "running",
                                       completed |-> 0, cost |-> NoSpend]
                        ELSE summary[x]]
    /\ UNCHANGED <<report, atFirst>>

\* run.terminal: the completion is the clock of the process that reports it.
EndMetric(r) ==
    /\ RowsMove
    /\ r \in DOMAIN summary
    /\ summary[r].status = "running"
    /\ \E s \in TerminalStatuses, d \in MetricDays :
          summary' = [summary EXCEPT ![r].status = s, ![r].completed = d]
    /\ UNCHANGED <<report, atFirst>>

\* A cost arrives with an event or from recordRunCost, which an ended run takes
\* as well, and which may say that nothing was measured; the last one stands.
MeasureMetric(r) ==
    /\ RowsMove
    /\ r \in DOMAIN summary
    /\ \E c \in Spends \cup {NoSpend} : summary' = [summary EXCEPT ![r].cost = c]
    /\ UNCHANGED <<report, atFirst>>

-----------------------------------------------------------------------------
(* getRunMetrics                                                           *)

InRange(asked, row) ==
    /\ asked.from # 0 => row.created >= asked.from
    /\ asked.to # 0 => row.created < asked.to

\* SUM and COUNT skip what was not measured.
Measured(asked) ==
    LET rows == {r \in DOMAIN summary : InRange(asked, summary[r])
                                        /\ summary[r].cost # NoSpend}
    IN [sum |-> MapThenSumSet(LAMBDA r : summary[r].cost, rows),
        count |-> Cardinality(rows)]

\* SELECT status, COUNT(*) GROUP BY status.
StatusRows(asked, s) == {r \in DOMAIN summary : InRange(asked, summary[r])
                                                /\ summary[r].status = s}
StatusCounts(asked) == [s \in MetricStatuses |-> Cardinality(StatusRows(asked, s))]

\* queryRunMetricsFromParams: a range that is none is the caller's error, and
\* the figures are the operator's; then the first SELECT.
CountStatuses ==
    /\ report.at = "idle"
    /\ \E from, to \in RangeEnds \cup {0}, operator \in BOOLEAN :
          LET asked == Asked(from, to)
          IN IF operator /\ (from = 0 \/ to = 0 \/ from < to)
             THEN /\ report' = [asked EXCEPT !.at = "counted", !.counts = StatusCounts(asked)]
                  /\ atFirst' = Measured(asked)
             ELSE /\ report' = [Unasked EXCEPT !.at = "refused"]
                  /\ UNCHANGED atFirst
    /\ UNCHANGED <<summary, meanwhile>>

\* Mutant: the trend is read over the dates of completion.
TrendRowsCompleted(d, s) ==
    {r \in DOMAIN summary :
        /\ summary[r].status = s /\ summary[r].completed = d
        /\ report.from # 0 => summary[r].completed >= report.from
        /\ report.to # 0 => summary[r].completed < report.to}

\* The ended runs of the same range, by the day of their completion.
TrendRows(d, s) ==
    {r \in DOMAIN summary : /\ InRange(report, summary[r])
                            /\ summary[r].completed = d
                            /\ summary[r].status = s}

ReadTrend ==
    /\ report.at = "counted"
    /\ report' = [report EXCEPT !.at = "trended",
                    !.trend = [d \in MetricDays |->
                                 [s \in TerminalStatuses |-> Cardinality(TrendRows(d, s))]]]
    /\ UNCHANGED <<summary, atFirst, meanwhile>>

ReadMeasured ==
    /\ report.at = "trended"
    /\ LET m == Measured(report)
       IN report' = [report EXCEPT !.at = "answered", !.sum = m.sum, !.count = m.count]
    /\ UNCHANGED <<summary, atFirst, meanwhile>>

\* A SELECT fails: 503, and nothing of what was read.
MetricsFail ==
    /\ report.at \in {"counted", "trended"}
    /\ report' = [Unasked EXCEPT !.at = "down"]
    /\ UNCHANGED <<summary, atFirst, meanwhile>>

MetricsNext ==
    \/ \E r \in MetricRuns : AcceptMetric(r) \/ EndMetric(r) \/ MeasureMetric(r)
    \/ CountStatuses \/ ReadTrend \/ ReadMeasured \/ MetricsFail

MetricsSpec == MetricsInit /\ [][MetricsNext]_metricsVars

-----------------------------------------------------------------------------
(* What must hold                                                          *)

TrendOf(s) == MapThenSumSet(LAMBDA d : report.trend[d][s], MetricDays)

\* The three figures of an answer are of one range of runs, and differ by what
\* happened while they were read and by no more: the trend has every ended run
\* that was counted, and when no row changed in between, trend, counts and sums
\* agree to the run and the cent.
MetricsAgree ==
    /\ report.at \in {"trended", "answered"} =>
          \A s \in TerminalStatuses :
             /\ TrendOf(s) >= report.counts[s]
             /\ ~meanwhile => TrendOf(s) = report.counts[s]
    /\ report.at = "answered" /\ ~meanwhile =>
          report.count = atFirst.count /\ report.sum = atFirst.sum
=============================================================================
