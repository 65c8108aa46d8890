------------------------------- MODULE DoneLoop --------------------------------
(***************************************************************************)
(* The Definition of Done of a run (agent/lib/dark-factory/definition-of-  *)
(* done.ts): open the pull request, verify the acceptance criteria, then   *)
(* check, fix or accept findings for at most MaxRounds rounds, each step   *)
(* recorded on the run ledger under an id that a later invocation of the   *)
(* same run uses again.  finalizeRunAsDone adds the label.                 *)
(*                                                                         *)
(* An invocation is one call, perhaps in another process after the one     *)
(* before died; what it keeps in memory is lost with it, comments, labels  *)
(* and the ledger stay.  Checks and fixes answer anything.  The counts an  *)
(* event carries are left out: a replay may agree with the logged event    *)
(* or not, and the ledger refuses one that does not.                       *)
(*                                                                         *)
(* The label and the ledger are those of a caller that injects them. The   *)
(* factory's own runner (dodDeps, dark-factory-runner.ts:1329) injects     *)
(* neither: there the steps are not on the run's ledger, and the label is  *)
(* the runner's.                                                           *)
(***************************************************************************)
EXTENDS RunLedger

CONSTANTS
    Reviews,    \* invocations of the Definition of Done
    Findings,   \* what checks can report
    Grave,      \* the findings of severity "error"
    MaxRounds   \* resolveMaxReviewRounds

ASSUME DoneAssumption ==
    /\ Grave \subseteq Findings
    /\ MaxRounds \in Nat \ {0}
    /\ Nil # "done"

VARIABLES
    review,     \* the invocations
    explained,  \* accepted findings whose explanation is on the pull request
    doneLabel   \* df:done is on the ticket

doneOnly == <<review, explained, doneLabel>>
doneVars == <<ledgerVars, doneOnly>>

Unasked == [at |-> "new", run |-> Nil, round |-> 0, open |-> {},
            accepted |-> {}, posting |-> {}, result |-> Nil]

Review == [at : {"new", "pr", "criteria", "unverified", "check", "fix", "post",
                 "withhold", "carry", "pass", "succeed", "fail", "refuse",
                 "label", "over"},
           run : Runs \cup {Nil}, round : 0..MaxRounds,
           open : SUBSET Findings, accepted : SUBSET Findings,
           posting : SUBSET Findings,
           result : {Nil, "done", "blocked", "refused"}]

DoneTypeOK ==
    /\ review \in [Reviews -> Review]
    /\ explained \subseteq Findings
    /\ doneLabel \in BOOLEAN

-----------------------------------------------------------------------------
(* The events                                                              *)

PrEvent == [id |-> <<"dod", "pr-opened">>, type |-> "pr.opened",
            status |-> "running"]
CriteriaEvent == [id |-> <<"dod", "ac-criteria-blocked">>,
                  type |-> "review.round", status |-> "blocked"]
RoundEvent(n, s) == [id |-> <<"dod-review", n>>, type |-> "review.round",
                     status |-> s]
DoneEvent(s) == [id |-> <<"dod", "terminal">>, type |-> "run.terminal",
                 status |-> s]
BegunEvent == [id |-> <<"dod", "begun">>, type |-> "dispatch.started",
               status |-> "running"]

DoneEventIds ==
    {PrEvent.id, CriteriaEvent.id, DoneEvent("failed").id, BegunEvent.id,
     RetireId}
    \cup {RoundEvent(n, "running").id : n \in 1..MaxRounds}
    \cup {AcceptedId(d) : d \in Deliveries}

ASSUME DoneIdsAssumption == DoneEventIds \subseteq EventIds

Turn(v, next) == review' = [review EXCEPT ![v] = next]
Here(v) == review[v]
Over(v, result) == [Here(v) EXCEPT !.at = "over", !.result = result]

\* persistDODRunEvent: the event is taken, or found there already with the
\* same data, and the invocation goes on; or the write fails or is refused,
\* and the result is blocked.
RecordDone(v, e, next) ==
    LET r == Here(v).run IN
    /\ \/ /\ AppendEvent(r, e)
          /\ Turn(v, next)
       \/ /\ e \in log[r]
          /\ UNCHANGED ledgerVars
          /\ Turn(v, next)
       \/ /\ UNCHANGED ledgerVars
          /\ Turn(v, Over(v, "blocked"))
    /\ UNCHANGED <<explained, doneLabel>>

Decide(v, next) ==
    /\ Turn(v, next)
    /\ UNCHANGED <<ledgerVars, explained, doneLabel>>

-----------------------------------------------------------------------------
(* Before the loop                                                         *)

\* createPullRequest, answered or refused.
OpenPullRequest(v, r) ==
    /\ Here(v).at = "new"
    /\ status[r] # "none"
    /\ \E step \in {"pr", "refuse"} :
           Decide(v, [Here(v) EXCEPT !.at = step, !.run = r])

RecordRefused(v) ==
    /\ Here(v).at = "refuse"
    /\ RecordDone(v, DoneEvent("failed"), Over(v, "refused"))

RecordOpened(v) ==
    /\ Here(v).at = "pr"
    /\ RecordDone(v, PrEvent, [Here(v) EXCEPT !.at = "criteria"])

\* evaluateAcTraceability: every mapped criterion passed its test, or not.
VerifyCriteria(v) ==
    /\ Here(v).at = "criteria"
    /\ \/ Decide(v, [Here(v) EXCEPT !.at = "check", !.round = 1])
       \/ Decide(v, [Here(v) EXCEPT !.at = "unverified"])

RecordUnverified(v) ==
    /\ Here(v).at = "unverified"
    /\ RecordDone(v, CriteriaEvent, Over(v, "blocked"))

-----------------------------------------------------------------------------
(* A round                                                                 *)

\* runChecks throws, or reports; what was accepted before does not count.
RunChecks(v) ==
    /\ Here(v).at = "check"
    /\ \/ Decide(v, [Here(v) EXCEPT !.at = "fail"])
       \/ \E found \in SUBSET Findings :
             LET left == found \ Here(v).accepted IN
             Decide(v, [Here(v) EXCEPT !.open = left,
                        !.at = IF left = {} THEN "pass" ELSE "fix"])

\* A round that is not passed: the last one withholds, another carries on.
NextRound(v) == IF Here(v).round = MaxRounds THEN "withhold" ELSE "carry"

\* attemptFixes is absent, throws, or answers with dispositions; accepting a
\* grave finding, or any without an explanation, withholds done at once.
AttemptFixes(v) ==
    /\ Here(v).at = "fix"
    /\ \/ Decide(v, [Here(v) EXCEPT !.at = NextRound(v)])
       \/ Decide(v, [Here(v) EXCEPT !.at = "fail"])
       \/ Decide(v, [Here(v) EXCEPT !.at = "withhold"])
       \/ \E a \in SUBSET Here(v).open :
             Decide(v, [Here(v) EXCEPT
                        !.at = IF a \cap Grave = {} THEN "post" ELSE "withhold",
                        !.posting = a \ Grave])

\* Mutant: a finding counts as accepted whether its comment was posted or not.
PostAcceptedAnyway(v) ==
    /\ Here(v).at = "post"
    /\ \E f \in Here(v).posting :
          /\ Turn(v, [Here(v) EXCEPT !.posting = @ \ {f}, !.accepted = @ \cup {f}])
          /\ explained' \in {explained, explained \cup {f}}
    /\ UNCHANGED <<ledgerVars, doneLabel>>

\* One accepted finding: its explanation is on the pull request and it counts
\* as accepted; or the comment fails, its answer perhaps lost, and the rest
\* of the dispositions is dropped.
PostAccepted(v) ==
    /\ Here(v).at = "post"
    /\ \E f \in Here(v).posting :
          \/ /\ Turn(v, [Here(v) EXCEPT !.posting = @ \ {f},
                                        !.accepted = @ \cup {f}])
             /\ explained' = explained \cup {f}
          \/ /\ Turn(v, [Here(v) EXCEPT !.posting = {}, !.at = "withhold"])
             /\ explained' \in {explained, explained \cup {f}}
    /\ UNCHANGED <<ledgerVars, doneLabel>>

\* All dispositions are applied.
Disposed(v) ==
    /\ Here(v).at = "post"
    /\ Here(v).posting = {}
    /\ Decide(v, [Here(v) EXCEPT
                  !.at = IF Here(v).open \subseteq Here(v).accepted
                         THEN "pass" ELSE NextRound(v)])

\* Done is withheld: a question on the ticket, and the round is recorded.
Withhold(v) ==
    /\ Here(v).at = "withhold"
    /\ RecordDone(v, RoundEvent(Here(v).round, "blocked"), Over(v, "blocked"))

CarryOn(v) ==
    /\ Here(v).at = "carry"
    /\ RecordDone(v, RoundEvent(Here(v).round, "running"),
                  [Here(v) EXCEPT !.at = "check", !.round = @ + 1])

\* completeSuccessfully, in two writes.
PassRound(v) ==
    /\ Here(v).at = "pass"
    /\ RecordDone(v, RoundEvent(Here(v).round, "running"),
                  [Here(v) EXCEPT !.at = "succeed"])

Succeed(v) ==
    /\ Here(v).at = "succeed"
    /\ RecordDone(v, DoneEvent("succeeded"),
                  [Here(v) EXCEPT !.at = "label", !.result = "done"])

\* failExecution.
FailReview(v) ==
    /\ Here(v).at = "fail"
    /\ RecordDone(v, DoneEvent("failed"), Over(v, "blocked"))

\* finalizeRunAsDone; the write may fail.
LabelDone(v) ==
    /\ Here(v).at = "label"
    /\ Turn(v, [Here(v) EXCEPT !.at = "over"])
    /\ doneLabel' \in {doneLabel, TRUE}
    /\ UNCHANGED <<ledgerVars, explained>>

-----------------------------------------------------------------------------
\* The process dies.
ReviewDies(v) ==
    /\ Here(v).at \notin {"new", "over"}
    /\ Decide(v, [Here(v) EXCEPT !.at = "over"])

\* Meanwhile the run was accepted and started, and may be ended or retired.
ReviewedRun ==
    /\ \/ /\ Runs = {r \in Runs : status[r] = "none"}
          /\ \E d \in Deliveries, i \in Issues, r \in Runs :
                 AcceptDelivery(d, i, r)
       \/ \E r \in Runs : AppendEvent(r, BegunEvent)
       \/ \E i \in Issues : RetireRunClaim(i)
    /\ UNCHANGED doneOnly

DoneInit ==
    /\ Init
    /\ review = [v \in Reviews |-> Unasked]
    /\ explained = {}
    /\ doneLabel = FALSE

ReviewStep(v) ==
    \/ \E r \in Runs : OpenPullRequest(v, r)
    \/ RecordRefused(v) \/ RecordOpened(v)
    \/ VerifyCriteria(v) \/ RecordUnverified(v)
    \/ RunChecks(v) \/ AttemptFixes(v) \/ PostAccepted(v) \/ Disposed(v)
    \/ Withhold(v) \/ CarryOn(v) \/ PassRound(v) \/ Succeed(v)
    \/ FailReview(v) \/ LabelDone(v) \/ ReviewDies(v)

DoneNext ==
    \/ ReviewedRun
    \/ \E v \in Reviews : ReviewStep(v)

DoneSpec == DoneInit /\ [][DoneNext]_doneVars

-----------------------------------------------------------------------------
(* Properties                                                              *)

\* What the last checks of an invocation reported is gone or accepted, with an
\* explanation that anyone can read; nothing grave was accepted.
Earned(v) ==
    /\ Here(v).round > 0
    /\ Here(v).open \cup Here(v).accepted \subseteq explained \ Grave

\* Done is never advertised without being earned: an invocation that answers
\* "done" earned it, the label is there only on a run the ledger shows as
\* succeeded, and the ledger shows that only if some invocation, even one that
\* died or lost the answer, earned it.
DoneIsEarned ==
    /\ \A v \in Reviews : Here(v).result = "done" =>
           Earned(v) /\ status[Here(v).run] = "succeeded"
    /\ doneLabel => \E v \in Reviews : Here(v).result = "done"
    /\ \A r \in Runs : DoneEvent("succeeded") \in log[r] =>
           \E v \in Reviews : Here(v).run = r /\ Earned(v)
=============================================================================
