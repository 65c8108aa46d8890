------------------------------ MODULE SelfImprove ------------------------------
(***************************************************************************)
(* The self-improvement loop (agent/lib/dark-factory/self-improve.ts), its *)
(* two surfaces (IterationBoundSurface; skill-set-surface.ts, kept in the  *)
(* state store) and its cadence (self-improve-state.ts).                   *)
(*                                                                         *)
(* A cycle is due by a watermark, observes the metrics, proposes a change  *)
(* of the live value, measures, applies it as a new version, measures      *)
(* again and keeps or reverts it, then records the verdict and advances    *)
(* the watermark.  It throws, and leaves what it did, where a write fails  *)
(* or its version was superseded.  A value is the set of the cycles whose  *)
(* change it has, and the version it came with.  Rates and means are in    *)
(* hundredths, as round2 makes them.                                       *)
(***************************************************************************)
EXTENDS Naturals, FiniteSets, Sequences

CONSTANTS
    Cycles,       \* calls of runScheduledCycle
    MaxNow,       \* intervals in a behaviour (a bound of the model)
    TaskHistories,    \* what the metrics store may hold of a task type
    MinSamples0,      \* minSamples of the observer
    TargetRate,       \* DEFAULT_TARGET_SUCCESS_RATE, in hundredths
    Qualities,        \* how the cases may come out, by the changes that are live
    MaxEffort,        \* MAX_BENCHMARK_EFFORT
    Gain, Slack,      \* objectiveTolerance, guardrailTolerance
    Skipped           \* a metric nobody measured

\* What the cases of a benchmark, or of whatever the measurer runs, add up to: how
\* many there are and pass the quality gate, the iterations they took, how many
\* had their cost measured, and that cost.
Totals == [cases : Nat, passed : Nat, iterations : Nat, costed : Nat, cost : Nat]

\* loadImprovementBenchmark and assertValidBenchmarkCase: there are cases, each
\* with an effort within bounds.
ValidBenchmark(b) ==
    /\ b \in Totals /\ b.cases > 0
    /\ b.passed <= b.cases /\ b.costed <= b.cases
    /\ b.iterations <= b.cases * MaxEffort

ASSUME ImproveAssumption ==
    /\ {MaxNow, MinSamples0, TargetRate, MaxEffort, Gain, Slack} \subseteq Nat
    /\ MaxNow > 0 /\ MinSamples0 > 0
    /\ TaskHistories \subseteq [samples : Nat, successes : Nat]
    /\ \A q \in Qualities : /\ q \in [SUBSET Cycles -> Totals]
                            /\ \A v \in SUBSET Cycles : ValidBenchmark(q[v])
    /\ Skipped \notin Nat

ASSUME CyclesAssumption == IsFiniteSet(Cycles)

Never == 0     \* no watermark: the clock starts at 1
Surfaces == {"bound", "skills"}

VARIABLES
    enabled,     \* DF_SELFIMPROVE_ENABLED
    quality,     \* what the measurer measures of each value
    surface,     \* the tuned surface
    live,        \* its value in the process
    stored,      \* `self-improve:skills`: what a restart loads
    version,     \* the version last staged
    cycle,       \* where each cycle is
    entries,     \* InMemoryImprovementLedger, in order
    now, watermark,
    accepted,    \* history: cycles recorded as accepted
    started,     \* history: cycles that ran, by interval
    overlapped,     \* history: two cycles were under way at once
    escaped      \* history: a cycle threw, was cut off, or misread the watermark

improveVars == <<enabled, quality, surface, live, stored, version, cycle, entries, now, watermark,
                 accepted, started, overlapped, escaped>>

Value == [by : Nat, has : SUBSET Cycles]
FirstValue == [by |-> 1, has |-> {}]

\* round2 of a mean.
Round2(total, n) == (200 * total + n) \div (2 * n)

\* meanOfMeasured: what was not measured is left out, never counted as 0.
MeanOfMeasured(total, n) == IF n = 0 THEN Skipped ELSE Round2(total, n)

\* measureBenchmark: the share of the cases that pass, and the guardrails.
MeasureBenchmark(b) ==
    [objective |-> Round2(b.passed, b.cases),
     iterations |-> Round2(b.iterations, b.cases),
     costUsd |-> MeanOfMeasured(b.cost, b.costed)]

Measurement == [objective : Nat, iterations : Nat, costUsd : Nat \cup {Skipped}]

\* A measurement with a number that is none; it differs from all others.
Garbled == [objective |-> Skipped, iterations |-> Skipped, costUsd |-> Skipped]

\* What the measurer measures of the value that is live.
MeasureOf(v) == MeasureBenchmark(quality[v.has])

\* handle: the version, the value before it and the value staged.
NoHandle == [version |-> 0, previous |-> FirstValue, next |-> FirstValue]
IdleCycle == [at |-> "idle", since |-> Never, verdict |-> "none", handle |-> NoHandle,
              before |-> Garbled, after |-> Garbled]

ImproveTypeOK ==
    /\ enabled \in BOOLEAN /\ quality \in Qualities
    /\ surface \in Surfaces
    /\ {live, stored} \subseteq Value
    /\ version \in 1 .. Cardinality(Cycles) + 1
    /\ cycle \in [Cycles ->
           [at : {"idle", "propose", "gate", "measure", "stage", "apply", "persist", "trial",
                  "restore", "record", "mark", "done"},
            since : 0..MaxNow, verdict : {"none", "accept", "reject"},
            handle : [version : Nat, previous : Value, next : Value],
            before : Measurement \cup {Garbled}, after : Measurement \cup {Garbled}]]
    /\ entries \in Seq([version : Nat, verdict : {"accept", "reject"},
                       after : Measurement \cup {Garbled}])
    /\ {now, watermark} \subseteq 0..MaxNow
    /\ accepted \subseteq Cycles
    /\ started \in [1..MaxNow -> SUBSET Cycles]
    /\ overlapped \in BOOLEAN /\ escaped \in BOOLEAN

ImproveInit ==
    /\ enabled \in BOOLEAN /\ quality \in Qualities
    /\ surface \in Surfaces
    /\ live = FirstValue /\ stored = FirstValue
    /\ version = 1
    /\ cycle = [c \in Cycles |-> IdleCycle]
    /\ entries = <<>>
    /\ now = 1 /\ watermark = Never
    /\ accepted = {}
    /\ started = [t \in 1..MaxNow |-> {}]
    /\ overlapped = FALSE /\ escaped = FALSE

-----------------------------------------------------------------------------
(* The cadence                                                             *)

Running(c) == cycle[c].at \notin {"idle", "done"}
AtRest == \A c \in Cycles : ~Running(c)

MoveCycle(c, pc) == cycle' = [cycle EXCEPT ![c].at = pc]

\* The cycle throws: its handle is forgotten and the watermark stays.
Abandon(c) ==
    /\ cycle' = [cycle EXCEPT ![c] = [IdleCycle EXCEPT !.at = "done"]]
    /\ escaped' = TRUE

\* isCycleDue, with an interval of one.
IsCycleDue(last) == last = Never \/ now >= last + 1

\* runScheduledCycle up to the cycle.  A watermark that cannot be read counts
\* as none.
Fire(c, readable) ==
    /\ cycle[c].at = "idle"
    /\ enabled
    /\ IsCycleDue(IF readable THEN watermark ELSE Never)
    /\ cycle' = [cycle EXCEPT ![c].at = "propose", ![c].since = now]
    /\ started' = [started EXCEPT ![now] = @ \cup {c}]
    /\ overlapped' = (overlapped \/ ~AtRest)
    /\ escaped' = (escaped \/ ~readable)
    /\ UNCHANGED <<enabled, quality, surface, live, stored, version, entries, now,
                   watermark, accepted>>

\* Any outcome but a throw advances the watermark; its write may fail.
Mark(c) ==
    /\ cycle[c].at = "mark"
    /\ \/ /\ watermark' = cycle[c].since
          /\ cycle' = [cycle EXCEPT ![c] = [IdleCycle EXCEPT !.at = "done"]]
          /\ UNCHANGED escaped
       \/ Abandon(c) /\ UNCHANGED watermark
    /\ UNCHANGED <<enabled, quality, surface, live, stored, version, entries, now,
                   accepted, started, overlapped>>

-----------------------------------------------------------------------------
(* A cycle                                                                 *)

\* observeTaskType and summarizeRecords: too few samples are no observation.
ObservedRate(h) == IF h.samples < MinSamples0 THEN Skipped ELSE Round2(h.successes, h.samples)

\* proposeFromObservation: where the target is reached, nothing is worth changing.
WorthChanging(h) == ObservedRate(h) # Skipped /\ ObservedRate(h) < TargetRate

\* runImprovementCycle up to the proposal, made from the value that is live
\* now.  A tripped guard, too little data or no proposal end the cycle.
Propose(c, h, tripped) ==
    /\ cycle[c].at = "propose"
    /\ IF ~tripped /\ WorthChanging(h)
       THEN cycle' = [cycle EXCEPT ![c].handle.next.has = live.has \cup {c},
                ![c].at = IF surface = "skills" THEN "gate" ELSE "measure"]
       ELSE MoveCycle(c, "mark")
    /\ UNCHANGED <<enabled, quality, surface, live, stored, version, entries, now,
                   watermark, accepted, started, overlapped, escaped>>

\* A change that widens access asks the operator's gate.
Gate(c, approved) ==
    /\ cycle[c].at = "gate"
    /\ MoveCycle(c, IF approved THEN "measure" ELSE "mark")
    /\ UNCHANGED <<enabled, quality, surface, live, stored, version, entries, now,
                   watermark, accepted, started, overlapped, escaped>>

\* What a call of measure may come to.
Measures == {"measured", "garbled", "failed"}
MeasuredNow(outcome) == IF outcome = "measured" THEN MeasureOf(live) ELSE Garbled

\* The measurement before the change; one that fails throws.
MeasureBefore(c, outcome) ==
    /\ cycle[c].at = "measure"
    /\ IF outcome # "failed"
       THEN /\ cycle' = [cycle EXCEPT ![c].at = "stage", ![c].before = MeasuredNow(outcome)]
            /\ UNCHANGED escaped
       ELSE Abandon(c)
    /\ UNCHANGED <<enabled, quality, surface, live, stored, version, entries, now,
                   watermark, accepted, started, overlapped>>

\* stage: a new version over what is live now.
Stage(c) ==
    /\ cycle[c].at = "stage"
    /\ version' = version + 1
    /\ cycle' = [cycle EXCEPT ![c] = [@ EXCEPT !.at = "apply",
           !.handle.version = version + 1,
           !.handle.previous = live, !.handle.next.by = version + 1]]
    /\ UNCHANGED <<enabled, quality, surface, live, stored, entries, now, watermark,
                   accepted, started, overlapped, escaped>>

\* Mutant: a superseded handle acts all the same.
IsCurrentAlways(c) == TRUE

\* assertCurrent.
IsCurrent(c) == version = cycle[c].handle.version

\* The skills are saved before they are live; the save may fail, or fail to
\* answer.  The version is not looked at again after it.
Persist(c, v, pc) ==
    \/ stored' = v /\ live' = v /\ MoveCycle(c, pc) /\ UNCHANGED escaped
    \/ stored' \in {stored, v} /\ UNCHANGED live /\ Abandon(c)

Apply(c) ==
    /\ \/ /\ cycle[c].at = "apply"
          /\ CASE ~IsCurrent(c) -> Abandon(c) /\ UNCHANGED live
               [] IsCurrent(c) /\ surface = "bound" ->
                      /\ live' = cycle[c].handle.next
                      /\ MoveCycle(c, "trial")
                      /\ UNCHANGED escaped
               [] OTHER -> MoveCycle(c, "persist") /\ UNCHANGED <<live, escaped>>
          /\ UNCHANGED stored
       \/ /\ cycle[c].at = "persist"
          /\ Persist(c, cycle[c].handle.next, "trial")
    /\ UNCHANGED <<enabled, quality, surface, version, entries, now, watermark,
                   accepted, started, overlapped>>

\* Mutant: an objective that is no worse is enough.
DecideOnNoWorse(before, after) ==
    IF before # Garbled /\ after # Garbled /\ after.objective >= before.objective
    THEN "accept" ELSE "reject"

\* decide: numbers that can be verified, a better objective by no less than the
\* tolerance, and no guardrail worse than its own.  A guardrail that was not
\* measured on either side is not compared.
DecideOn(before, after) ==
    IF /\ before # Garbled /\ after # Garbled
       /\ after.objective > before.objective
       /\ after.objective >= before.objective + Gain
       /\ after.iterations <= before.iterations + Slack
       /\ before.costUsd # Skipped /\ after.costUsd # Skipped
              => after.costUsd <= before.costUsd + Slack
    THEN "accept" ELSE "reject"

\* The measurement after the change and the decision; one that fails rejects.
Decide(c, outcome) ==
    /\ cycle[c].at = "trial"
    /\ LET verdict == DecideOn(cycle[c].before, MeasuredNow(outcome))
       IN cycle' = [cycle EXCEPT ![c].verdict = verdict, ![c].after = MeasuredNow(outcome),
              ![c].at = IF verdict = "accept" THEN "record" ELSE "restore"]
    /\ UNCHANGED <<enabled, quality, surface, live, stored, version, entries, now,
                   watermark, accepted, started, overlapped, escaped>>

\* revert.  The skills' handle has been checked once when its save begins.
Revert(c) ==
    /\ cycle[c].at = "restore"
    /\ CASE ~IsCurrent(c) -> Abandon(c) /\ UNCHANGED <<live, stored>>
         [] IsCurrent(c) /\ surface = "bound" ->
                /\ live' = cycle[c].handle.previous
                /\ MoveCycle(c, "record")
                /\ UNCHANGED <<stored, escaped>>
         [] OTHER -> Persist(c, cycle[c].handle.previous, "record")
    /\ UNCHANGED <<enabled, quality, surface, version, entries, now, watermark,
                   accepted, started, overlapped>>

\* The ledger entry; a ledger that fails to append throws.
RecordVerdict(c) ==
    /\ cycle[c].at = "record"
    /\ \/ /\ entries' = Append(entries, [version |-> cycle[c].handle.version,
                 verdict |-> cycle[c].verdict, after |-> cycle[c].after])
          /\ accepted' = IF cycle[c].verdict = "accept" THEN accepted \cup {c}
                         ELSE accepted
          /\ MoveCycle(c, "mark")
          /\ UNCHANGED escaped
       \/ Abandon(c) /\ UNCHANGED <<entries, accepted>>
    /\ UNCHANGED <<enabled, quality, surface, live, stored, version, now, watermark,
                   started, overlapped>>

\* The process starts again: the bound and the ledger are its first, the
\* skills those of the store.
ImproveRestart ==
    /\ version > 1 \/ ~AtRest
    /\ live' = IF surface = "skills" THEN [stored EXCEPT !.by = 1] ELSE FirstValue
    /\ stored' = [stored EXCEPT !.by = 1]
    /\ version' = 1
    /\ cycle' = [c \in Cycles |-> IF Running(c) THEN [IdleCycle EXCEPT !.at = "done"]
                                  ELSE cycle[c]]
    /\ entries' = <<>>
    /\ escaped' = (escaped \/ ~AtRest)
    /\ UNCHANGED <<enabled, quality, surface, now, watermark, accepted, started,
                   overlapped>>

IntervalPasses ==
    /\ now < MaxNow
    /\ now' = now + 1
    /\ UNCHANGED <<enabled, quality, surface, live, stored, version, cycle, entries,
                   watermark, accepted, started, overlapped, escaped>>

ImproveNext ==
    \/ \E c \in Cycles, yes \in BOOLEAN : Fire(c, yes) \/ Gate(c, yes)
    \/ \E c \in Cycles, h \in TaskHistories, tripped \in BOOLEAN : Propose(c, h, tripped)
    \/ \E c \in Cycles, outcome \in Measures : MeasureBefore(c, outcome) \/ Decide(c, outcome)
    \/ \E c \in Cycles : Stage(c) \/ Apply(c) \/ Revert(c) \/ RecordVerdict(c) \/ Mark(c)
    \/ ImproveRestart
    \/ IntervalPasses

ImproveSpec == ImproveInit /\ [][ImproveNext]_improveVars

-----------------------------------------------------------------------------
(* Properties                                                              *)

\* A cycle alone, from the first to the last: none overlapped and none threw.
Undisturbed == ~escaped /\ ~overlapped

\* What is kept was accepted, across restarts and rejected, blocked and empty
\* cycles: at rest the live value has no change the ledger did not accept, the
\* skills have all of them, in the process and in the store, and an interval
\* had one cycle at most, unless two cycles overlapped or one threw.
LiveIsAccepted ==
    AtRest /\ Undisturbed =>
        /\ live.has \subseteq accepted
        /\ surface = "skills" => live.has = accepted /\ stored.has = accepted
        /\ \A t \in 1..MaxNow : Cardinality(started[t]) <= 1

\* However cycles overlapped, an accepted bound is never undone to an older one:
\* a superseded handle does not act.
AcceptedStands ==
    surface = "bound" \/ ~overlapped =>
        \A i \in DOMAIN entries : entries[i].verdict = "accept" => live.by >= entries[i].version

\* The loop climbs: each change that is live bought its gain, and none cost more
\* iterations than the tolerance (which may add up).  A measurer that does not
\* look at the live value, as BenchmarkMeasurer does not, has nothing accepted.
LoopClimbs ==
    /\ AtRest /\ Undisturbed =>
           LET first == MeasureOf(FirstValue)
               last == MeasureOf(live)
               n == Cardinality(live.has)
           IN /\ last.objective >= first.objective + n * Gain
              /\ last.objective >= first.objective + n
              /\ last.iterations <= first.iterations + n * Slack
    /\ (\A u, v \in SUBSET Cycles : quality[u] = quality[v]) => accepted = {}

\* objectiveTrend: the objective after each cycle, and whether the last beats the
\* first.  After an accepted cycle that is the objective of what is live.
ObjectiveTrend ==
    [first |-> entries[1].after.objective, last |-> entries[Len(entries)].after.objective]

TrendIsLive ==
    AtRest /\ Undisturbed /\ entries # <<>> /\ entries[Len(entries)].verdict = "accept" =>
        ObjectiveTrend.last = MeasureOf(live).objective

\* The loop keeps what it accepted, only what it accepted, and only what helped.
KeptIsAccepted == LiveIsAccepted /\ AcceptedStands /\ LoopClimbs /\ TrendIsLive
=============================================================================
