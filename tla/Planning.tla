-------------------------------- MODULE Planning --------------------------------
(***************************************************************************)
(* How the Architect comes to a plan: planStory and amendPlan of           *)
(* architect-agent.ts with their loop of attempts, and the governed model  *)
(* call of each attempt (generateText of scripts/dark-factory-runner.ts,   *)
(* governed-agent-call.ts, governed-llm-call.ts).                          *)
(*                                                                         *)
(* An attempt is abandoned when its budget of time is over: the promise    *)
(* of executeGenerate settles once, but the runner's generateText ignores  *)
(* the abort signal, so the call of an abandoned attempt goes on, holds    *)
(* its reservation, and is settled and noted beside the next attempt.      *)
(***************************************************************************)
EXTENDS Naturals, Sequences, FiniteSets, SequencesExt

CONSTANTS
    MaxPlanRetries,  \* ArchitectDeps.maxPlanRetries
    Contents,        \* the repository: its files in reading order, each with its
                     \* length and the places after which a line ends
    MaxInspect,      \* how many of them discovery reads
    MaxFiles,        \* BoundedReaderLimits.maxFiles
    MaxChars,        \* BoundedReaderLimits.maxCharsPerFile
    MaxTotal         \* BoundedReaderLimits.maxTotalChars

ASSUME PlanningAssumption ==
    /\ MaxPlanRetries \in Nat /\ MaxInspect \in Nat
    /\ {MaxFiles, MaxChars, MaxTotal} \subseteq Nat
    /\ Contents \in Seq([chars : Nat, breaks : SUBSET Nat])

VARIABLES
    planner,    \* the agent: planStory or amendPlan, and its loop
    reader,     \* the bounded reader, while evidence is gathered
    asks,       \* the model call of each attempt
    held        \* attempts whose reservation is open in the budget store

planningVars == <<planner, reader, asks, held>>

Attempts == 1 .. MaxPlanRetries + 1

\* What a model may answer: nothing that is JSON, a plan with a fault of its own,
\* one for a file the repository does not have, one for its shell or a shared
\* component, or a plan with none of these.
PlanAnswer == {"garbled", "flawed", "missing", "misplaced", "sound"}

\* What a plan is judged against, with the scope of the story: the fields of
\* PlanValidationContext.
Evidence == [gated : BOOLEAN, saw : BOOLEAN, page : BOOLEAN, scoped : BOOLEAN]
NoEvidence(scoped) ==
    [gated |-> FALSE, saw |-> FALSE, page |-> FALSE, scoped |-> scoped]

AttemptRecord == [stage : {"accepted", "generate-error", "parse", "validate"},
                  codes : SUBSET {"target-role", "target-missing"}]

Outcome == {"none", "accepted", "unusable", "unresolved-surface",
            "refused-target", "plan-invalid"}

Planner == [at : {"idle", "gathering", "ready", "waiting", "over"},
            story : BOOLEAN, evidence : Evidence, attempt : 0 .. MaxPlanRetries + 1,
            log : Seq(AttemptRecord), refused : BOOLEAN, outcome : Outcome]

\* lapsed: the store failed to settle the call's reservation.
Ask == [at : {"none", "checking", "admitting", "running", "settling", "ended"},
        answer : PlanAnswer \cup {"threw"}, lapsed : BOOLEAN]

NotAsked == [at |-> "none", answer |-> "threw", lapsed |-> FALSE]

\* kept: the cache, how many characters were taken of each file.
Unread == [kept |-> [f \in {} |-> 0], chars |-> 0]

PlanningTypeOK ==
    /\ planner \in Planner
    /\ \A f \in DOMAIN reader.kept : f \in 1 .. Len(Contents)
    /\ reader.chars \in Nat
    /\ asks \in [Attempts -> Ask]
    /\ held \subseteq Attempts

PlanningInit ==
    /\ planner = [at |-> "idle", story |-> TRUE, evidence |-> NoEvidence(FALSE),
                  attempt |-> 0, log |-> <<>>, refused |-> FALSE,
                  outcome |-> "none"]
    /\ reader = Unread
    /\ asks = [a \in Attempts |-> NotAsked]
    /\ held = {}

-----------------------------------------------------------------------------
(* The evidence                                                            *)

\* truncate: a file over its bound is cut after a line, or inside its first one.
Cut(file, bound) ==
    LET whole == {b \in file.breaks : 1 < b /\ b <= bound}
    IN  IF file.chars <= bound THEN file.chars
        ELSE IF whole = {} THEN bound ELSE Max(whole)

\* createBoundedReader: a file is charged once, is cut to its own bound or to
\* the rest of the total, and is not read when nothing is left.
ReadBounded(r, f) ==
    LET rest == MaxTotal - r.chars
        bound == IF MaxChars < rest THEN MaxChars ELSE rest
        taken == Cut(Contents[f], bound)
    IN  IF \/ f \in DOMAIN r.kept
           \/ Cardinality(DOMAIN r.kept) >= MaxFiles
           \/ rest = 0
        THEN r
        ELSE [kept |-> [g \in DOMAIN r.kept \cup {f} |->
                            IF g = f THEN taken ELSE r.kept[g]],
              chars |-> r.chars + taken]

Inspected(files) ==
    SubSeq(files, 1, IF MaxInspect < Len(files) THEN MaxInspect ELSE Len(files))

\* Discovery inspects the first files; then every file is read for the prompt.
ReadAll(order) == FoldLeft(ReadBounded, Unread, order)

\* An empty file is not evidence.
SawEvidence(r) == \E f \in DOMAIN r.kept : r.kept[f] > 0

\* The files of a set in reading order.
InReadingOrder(files) ==
    CHOOSE s \in [1 .. Cardinality(files) -> files] :
        \A i, j \in DOMAIN s : i < j => s[i] < s[j]

\* planStory, up to the evidence: of all files but those nobody can read.  A
\* page is only found in what was read.
PlanStory(usable, canRead, scoped, found, unreadable) ==
    LET files == InReadingOrder((1 .. Len(Contents)) \ unreadable)
        r == IF canRead THEN ReadAll(Inspected(files) \o files)
             ELSE Unread
    IN  /\ planner.at = "idle"
        /\ found => SawEvidence(r)
        /\ IF usable
           THEN /\ reader' = r
                /\ planner' = [planner EXCEPT !.at = "gathering",
                       !.evidence = [gated |-> canRead, saw |-> SawEvidence(r),
                                     page |-> found, scoped |-> scoped]]
           ELSE /\ planner' = [planner EXCEPT !.at = "over",
                                              !.outcome = "unusable"]
                /\ UNCHANGED reader
        /\ UNCHANGED <<asks, held>>

\* The gate before the model: a page nobody can name is a question for a human.
Unresolved(e) == e.gated /\ e.saw /\ e.scoped /\ ~e.page

JudgeEvidence ==
    /\ planner.at = "gathering"
    /\ reader' = Unread
    /\ planner' = IF Unresolved(planner.evidence)
                  THEN [planner EXCEPT !.at = "over",
                                       !.outcome = "unresolved-surface"]
                  ELSE [planner EXCEPT !.at = "ready", !.attempt = 1]
    /\ UNCHANGED <<asks, held>>

\* amendPlan: no evidence, so no gate and nothing to hold the targets against.
AmendPlan(usable, scoped) ==
    /\ planner.at = "idle"
    /\ planner' = IF usable
                  THEN [planner EXCEPT !.at = "ready", !.attempt = 1,
                                       !.story = FALSE,
                                       !.evidence = NoEvidence(scoped)]
                  ELSE [planner EXCEPT !.at = "over", !.story = FALSE,
                                       !.outcome = "unusable"]
    /\ UNCHANGED <<reader, asks, held>>

-----------------------------------------------------------------------------
(* The loop                                                                *)

\* validateExecutionPlan: the codes it answers for a plan, and whether it holds.
Codes(answer, e) ==
    {c \in {"target-role", "target-missing"} :
        \/ c = "target-role" /\ answer = "misplaced" /\ e.gated /\ e.scoped
        \/ c = "target-missing" /\ answer = "missing" /\ e.gated /\ e.saw}

IsValid(answer, e) ==
    answer \in {"missing", "misplaced", "sound"} /\ Codes(answer, e) = {}

\* What the attempt's record says of an answer.
RecordOf(answer, e) ==
    [stage |-> CASE answer = "threw" -> "generate-error"
                 [] answer = "garbled" -> "parse"
                 [] IsValid(answer, e) -> "accepted"
                 [] OTHER -> "validate",
     codes |-> Codes(answer, e)]

\* The attempt ends with an answer or an error: the plan is accepted, or there
\* is another attempt, or the loop gives up with the reason it has.
EndAttempt(answer) ==
    LET rec == RecordOf(answer, planner.evidence)
        refused == planner.refused \/ rec.codes # {}
        noted == [planner EXCEPT !.log = Append(@, rec), !.refused = refused]
    IN  planner' =
          IF rec.stage = "accepted"
          THEN [noted EXCEPT !.at = "over", !.outcome = "accepted"]
          ELSE IF planner.attempt <= MaxPlanRetries
          THEN [noted EXCEPT !.at = "ready", !.attempt = @ + 1]
          ELSE [noted EXCEPT !.at = "over",
                         !.outcome = IF refused THEN "refused-target"
                                     ELSE "plan-invalid"]

\* executeGenerate: the timer is armed and the call starts.
Generate ==
    LET a == planner.attempt
    IN  /\ planner.at = "ready"
        /\ planner' = [planner EXCEPT !.at = "waiting"]
        /\ asks' = [asks EXCEPT ![a].at = "checking"]
        /\ UNCHANGED <<reader, held>>

\* The timer fires first: the attempt is over, its call is not.
PlanTimeout ==
    /\ planner.at = "waiting"
    /\ EndAttempt("threw")
    /\ UNCHANGED <<reader, asks, held>>

\* Mutant: the settlement flag is one for all attempts.
IsAwaitedByAny(a) == planner.at = "waiting"

\* tryAcquireSettlement: whether the loop still waits for the call of attempt a.
IsAwaited(a) == planner.at = "waiting" /\ planner.attempt = a

\* The call of attempt a ends with what its record holds.
Answered(a) ==
    IF IsAwaited(a) THEN EndAttempt(asks'[a].answer) ELSE UNCHANGED planner

-----------------------------------------------------------------------------
(* The governed call                                                       *)

\* checkpoint of the runner, inside generateText: it throws once the run is
\* paused or stopped, or when the control state cannot be read.
AskCheckpoint(a, passes) ==
    /\ asks[a].at = "checking"
    /\ asks' = [asks EXCEPT ![a].at = IF passes THEN "admitting" ELSE "ended"]
    /\ IF passes THEN UNCHANGED planner ELSE Answered(a)
    /\ UNCHANGED <<reader, held>>

\* The governor admits or refuses; a refusal is recorded on the run if it can
\* be, and thrown to the loop.
AskAdmit(a, admitted) ==
    /\ asks[a].at = "admitting"
    /\ asks' = [asks EXCEPT ![a].at = IF admitted THEN "running" ELSE "ended"]
    /\ held' = IF admitted THEN held \cup {a} ELSE held
    /\ IF admitted THEN UNCHANGED planner ELSE Answered(a)
    /\ UNCHANGED reader

\* The stream ends, or fails.
AskReturns(a, answer) ==
    /\ asks[a].at = "running"
    /\ asks' = [asks EXCEPT ![a].at = "settling", ![a].answer = answer]
    /\ UNCHANGED <<planner, reader, held>>

\* runGovernedLlmCall settles on both paths, the store may fail to and nobody
\* asks; the usage record after it is best effort and changes nothing here.
AskSettle(a, ok) ==
    /\ asks[a].at = "settling"
    /\ asks' = [asks EXCEPT ![a].at = "ended", ![a].lapsed = ~ok]
    /\ held' = IF ok THEN held \ {a} ELSE held
    /\ Answered(a)
    /\ UNCHANGED reader

PlanningNext ==
    \/ \E usable, canRead, scoped, found \in BOOLEAN,
          unreadable \in SUBSET DOMAIN Contents :
           PlanStory(usable, canRead, scoped, found, unreadable)
    \/ \E usable, scoped \in BOOLEAN : AmendPlan(usable, scoped)
    \/ JudgeEvidence \/ Generate \/ PlanTimeout
    \/ \E a \in Attempts :
           \/ \E ok \in BOOLEAN :
                  AskCheckpoint(a, ok) \/ AskAdmit(a, ok) \/ AskSettle(a, ok)
           \/ \E answer \in PlanAnswer \cup {"threw"} : AskReturns(a, answer)

PlanningSpec == PlanningInit /\ [][PlanningNext]_planningVars

-----------------------------------------------------------------------------
\* The reader keeps its bounds however discovery and the prompt share it, and
\* charges for a file once.
ReadsWithinBounds ==
    /\ Cardinality(DOMAIN reader.kept) <= MaxFiles
    /\ reader.chars <= MaxTotal
    /\ reader.chars =
           MapThenFoldSet(LAMBDA x, y : x + y, 0, LAMBDA f : reader.kept[f],
                          LAMBDA S : CHOOSE f \in S : TRUE, DOMAIN reader.kept)

\* A reservation outlives its call only where the store failed to settle it,
\* also when nobody waits for the call any more.
ReservationsFollowCalls ==
    \A a \in held : asks[a].at \in {"running", "settling"} \/ asks[a].lapsed

\* What the loop says of an attempt is what the call of this attempt answered
\* in time, and of the whole, what all its attempts came to: never the late
\* answer of an abandoned call.
OutcomeIsOfItsAttempts ==
    LET log == planner.log
        accepted == {i \in DOMAIN log : log[i].stage = "accepted"}
        outcome == planner.outcome
    IN  /\ \A i \in DOMAIN log :
               log[i].stage # "generate-error" =>
                   /\ asks[i].at = "ended"
                   /\ log[i] = RecordOf(asks[i].answer, planner.evidence)
        /\ accepted = IF outcome = "accepted" THEN {planner.attempt} ELSE {}
        /\ outcome \in {"refused-target", "plan-invalid"} =>
               /\ Len(log) = MaxPlanRetries + 1
               /\ (\E i \in DOMAIN log : log[i].codes # {})
                      <=> outcome = "refused-target"

\* The loop, the calls it may have abandoned, and the budget agree.
PlanningIsAccounted ==
    ReadsWithinBounds /\ ReservationsFollowCalls /\ OutcomeIsOfItsAttempts
=============================================================================
