------------------------------ MODULE RunLedger ------------------------------
(***************************************************************************)
(* The run-history store (agent/lib/dark-factory/run-history-store.ts and  *)
(* run-history-postgres.ts) with the projection rules of run-history.ts.   *)
(*                                                                         *)
(* The store keeps four tables: one summary row per run, the immutable     *)
(* event log of each run, the binding of a webhook delivery to the run it  *)
(* created, and one receipt per abort or resume delivery.  Every operation *)
(* below is one database transaction (BEGIN IMMEDIATE in SQLite, row locks *)
(* in PostgreSQL), so it is one action.  A refused call (the store answers *)
(* with mode "blocked") or a replayed one changes nothing: it is a         *)
(* stuttering step here, and the modules that call the store choose what   *)
(* the caller does next.                                                   *)
(***************************************************************************)
EXTENDS Naturals, FiniteSets

CONSTANTS
    Runs,        \* run identifiers the id factory can hand out
    Issues,      \* repo + issue pairs
    Deliveries,  \* GitHub delivery identifiers
    EventIds,    \* idempotency identities of lifecycle events
    Nil          \* an absent column

\* deliveryEventId (entry.ts) and the fixed id of a retirement.
AcceptedId(d) == <<d, "accepted">>
RetireId == <<"operator", "retire-claim">>

ASSUME LedgerAssumption ==
    /\ Nil \notin Runs
    /\ Nil \notin Issues
    /\ Nil \notin {"queued", "running", "blocked",
                   "succeeded", "failed", "aborted"}
    /\ RetireId \in EventIds
    /\ \A d \in Deliveries : AcceptedId(d) \in EventIds

VARIABLES
    issueOf,   \* df_run_summaries.repo/issue, Nil while the row is absent
    status,    \* df_run_summaries.status, "none" while the row is absent
    log,       \* df_run_events: the events recorded for a run
    bound,     \* df_run_deliveries: the run a trigger delivery created
    receipts   \* df_run_control_receipts: the progress of an abort/resume

ledgerVars == <<issueOf, status, log, bound, receipts>>

-----------------------------------------------------------------------------
(* Types                                                                   *)

Active == {"queued", "running", "blocked"}
Terminal == {"succeeded", "failed", "aborted"}
RunStatus == Active \cup Terminal

\* The event types that move the projection to "running" by default.
WorkTypes == {"dispatch.started", "dispatch.attempt", "run.resumed",
              "worker.progress", "worker.completed", "review.round",
              "pr.opened"}
EventTypes == WorkTypes \cup {"run.accepted", "worker.question",
                              "worker.roadblock", "run.terminal", "run.cost"}

\* What toRunEvent lets through: a terminal event names a terminal status.
WellFormed(e) ==
    /\ e.type = "run.accepted" => e.status = "queued"
    /\ e.type = "worker.question" => e.status = "blocked"
    /\ e.type = "run.resumed" => e.status = "running"
    /\ e.type = "run.terminal" => e.status \in Terminal

Event == {e \in [id : EventIds, type : EventTypes,
                 status : RunStatus \cup {Nil}] : WellFormed(e)}

Receipt == [issue : Issues, transition : {"abort", "resume"},
            run : Runs \cup {Nil}, handoffSent : BOOLEAN, completed : BOOLEAN]

TypeOK ==
    /\ issueOf \in [Runs -> Issues \cup {Nil}]
    /\ status \in [Runs -> RunStatus \cup {"none"}]
    /\ log \in [Runs -> SUBSET Event]
    /\ bound \in [Deliveries -> Runs \cup {Nil}]
    /\ receipts \in [Deliveries -> Receipt \cup {Nil}]

-----------------------------------------------------------------------------
(* The projection                                                          *)

\* Mutant: a parked run does not count as active.
ActiveRunsUnparked(i) ==
    {r \in Runs : status[r] \in {"queued", "running"} /\ issueOf[r] = i}

\* activeRunHolder, and the predicate of the partial UNIQUE index.
ActiveRuns(i) == {r \in Runs : status[r] \in Active /\ issueOf[r] = i}

EventIsLogged(r, id) == \E e \in log[r] : e.id = id

\* defaultStatusForEvent.
StatusAfter(e, s) ==
    CASE e.status # Nil -> e.status
      [] e.status = Nil /\ e.type \in WorkTypes -> "running"
      [] OTHER -> s

\* Mutant: a terminal run still takes events.
AppliesToTerminal(e, s) ==
    /\ e.type # "run.accepted"
    /\ s = "blocked" => e.type \in {"run.resumed", "run.terminal"}
    /\ e.type = "run.resumed" => s = "blocked"
    /\ StatusAfter(e, s) \in Terminal => e.type = "run.terminal"

\* The checks of applyRunEvent, in the state the summary row is in.
Applies(e, s) ==
    /\ s \notin Terminal
    /\ e.type # "run.accepted"
    /\ s = "blocked" => e.type \in {"run.resumed", "run.terminal"}
    /\ e.type = "run.resumed" => s = "blocked"
    /\ StatusAfter(e, s) \in Terminal => e.type = "run.terminal"

-----------------------------------------------------------------------------
(* The store's operations                                                  *)

Init ==
    /\ issueOf = [r \in Runs |-> Nil]
    /\ status = [r \in Runs |-> "none"]
    /\ log = [r \in Runs |-> {}]
    /\ bound = [d \in Deliveries |-> Nil]
    /\ receipts = [d \in Deliveries |-> Nil]

\* acceptDelivery replayed: the delivery already created a run.
IsReplay(d, i) == bound[d] # Nil /\ issueOf[bound[d]] = i

\* acceptDelivery refused: another run holds the claim on the issue.
IsConflict(d, i) == bound[d] = Nil /\ ActiveRuns(i) # {}

\* The writes of acceptDelivery.
InsertRun(d, i, r) ==
    /\ issueOf' = [issueOf EXCEPT ![r] = i]
    /\ status' = [status EXCEPT ![r] = "queued"]
    /\ log' = [log EXCEPT ![r] = {[id |-> AcceptedId(d),
                                   type |-> "run.accepted",
                                   status |-> "queued"]}]
    /\ bound' = [bound EXCEPT ![d] = r]
    /\ UNCHANGED receipts

\* Mutant: the run identifier is not checked to be new.
AcceptDeliveryOverRun(d, i, r) ==
    /\ bound[d] = Nil
    /\ ActiveRuns(i) = {}
    /\ InsertRun(d, i, r)

\* Mutant: the delivery's binding is not looked up.
AcceptDeliveryAnew(d, i, r) ==
    /\ ActiveRuns(i) = {}
    /\ status[r] = "none"
    /\ InsertRun(d, i, r)

\* acceptDelivery: a new delivery for an issue nobody works on creates a run.
AcceptDelivery(d, i, r) ==
    /\ bound[d] = Nil
    /\ ActiveRuns(i) = {}
    /\ status[r] = "none"
    /\ InsertRun(d, i, r)

\* claimControlDelivery, first time: r is the run it is bound to, Nil if none.
ClaimControlDelivery(d, i, t, r) ==
    /\ receipts[d] = Nil
    /\ r # Nil => status[r] # "none" /\ issueOf[r] = i
    /\ receipts' = [receipts EXCEPT ![d] =
           [issue |-> i, transition |-> t, run |-> r,
            handoffSent |-> FALSE, completed |-> FALSE]]
    /\ UNCHANGED <<issueOf, status, log, bound>>

\* Mutant: a later phase overwrites the flags of an earlier one.
AdvanceControlDeliveryOver(d, i, t, r, sent, done) ==
    /\ receipts[d] # Nil
    /\ receipts[d].issue = i
    /\ receipts[d].transition = t
    /\ receipts[d].run = r
    /\ sent => t = "resume"
    /\ receipts' = [receipts EXCEPT ![d].handoffSent = sent,
                                    ![d].completed = done]
    /\ UNCHANGED <<issueOf, status, log, bound>>

\* advanceControlDelivery: both phases are monotone flags of the same receipt.
AdvanceControlDelivery(d, i, t, r, sent, done) ==
    /\ receipts[d] # Nil
    /\ receipts[d].issue = i
    /\ receipts[d].transition = t
    /\ receipts[d].run = r
    /\ sent => t = "resume"
    /\ sent \/ done
    /\ receipts' = [receipts EXCEPT
           ![d].handoffSent = @ \/ sent,
           ![d].completed = @ \/ done]
    /\ UNCHANGED <<issueOf, status, log, bound>>

\* appendEvent: the event is recorded and the summary follows it.
AppendEvent(r, e) ==
    /\ status[r] # "none"
    /\ ~EventIsLogged(r, e.id)
    /\ Applies(e, status[r])
    /\ log' = [log EXCEPT ![r] = @ \cup {e}]
    /\ status' = [status EXCEPT ![r] = StatusAfter(e, @)]
    /\ UNCHANGED <<issueOf, bound, receipts>>

\* retireRunClaim: the holder is terminated unless it is "running".
RetireRunClaim(i) ==
    \E r \in ActiveRuns(i) :
        /\ status[r] # "running"
        /\ AppendEvent(r, [id |-> RetireId, type |-> "run.terminal",
                           status |-> "aborted"])

\* recordRunSummary: the caller's whole row replaces the stored one (the
\* issue of a run is never changed by a caller).  Only the partial UNIQUE
\* index on active runs can refuse it.
RecordRunSummary(r, s) ==
    /\ status[r] # "none"
    /\ s \in Active => ActiveRuns(issueOf[r]) \subseteq {r}
    /\ status' = [status EXCEPT ![r] = s]
    /\ UNCHANGED <<issueOf, log, bound, receipts>>

\* Everything but recordRunSummary, whose one caller RunDiff models.
Next ==
    \/ \E d \in Deliveries, i \in Issues, r \in Runs : AcceptDelivery(d, i, r)
    \/ \E d \in Deliveries, i \in Issues, t \in {"abort", "resume"},
          r \in Runs \cup {Nil} : ClaimControlDelivery(d, i, t, r)
    \/ \E d \in Deliveries, i \in Issues, t \in {"abort", "resume"},
          r \in Runs \cup {Nil}, sent, done \in BOOLEAN :
              AdvanceControlDelivery(d, i, t, r, sent, done)
    \/ \E r \in Runs, e \in Event : AppendEvent(r, e)
    \/ \E i \in Issues : RetireRunClaim(i)

Spec == Init /\ [][Next]_ledgerVars

-----------------------------------------------------------------------------
(* Properties                                                              *)

\* The active-run claim: two runs of one issue are never in flight together,
\* whatever deliveries, replays and retirements interleave (#328).
OneActiveRun ==
    \A r, q \in Runs :
        /\ status[r] \in Active
        /\ status[q] \in Active
        /\ issueOf[r] = issueOf[q]
        => r = q

\* The projection never disagrees with the log: a run is terminal exactly
\* when a run.terminal event is recorded, there is only one such event, and
\* it carries the status the summary shows.
TerminalIsExplained ==
    \A r \in Runs :
        /\ status[r] \in Terminal =>
               \E e \in log[r] : e.type = "run.terminal"
        /\ \A e \in log[r] : e.type = "run.terminal" => e.status = status[r]
        /\ \A e, f \in log[r] :
               e.type = "run.terminal" /\ f.type = "run.terminal" => e = f

\* Every run was created by exactly one delivery, and a control receipt is
\* only ever bound to a run of the issue it names.
BindingsAreSound ==
    /\ \A d \in Deliveries : bound[d] # Nil => status[bound[d]] # "none"
    /\ \A d, c \in Deliveries : bound[d] # Nil /\ bound[d] = bound[c] => d = c
    /\ \A d \in Deliveries :
           receipts[d] # Nil /\ receipts[d].run # Nil =>
               /\ status[receipts[d].run] # "none"
               /\ issueOf[receipts[d].run] = receipts[d].issue

\* A terminal run stays as it ended: nothing revives, re-labels or re-ends it.
TerminalIsFinal ==
    [][\A r \in Runs : status[r] \in Terminal => status'[r] = status[r]]_ledgerVars

-----------------------------------------------------------------------------
(* The claim as a lock (the abstract specification this store implements). *)

Lock == INSTANCE ClaimLock WITH
    held <- {r \in Runs : status[r] \in Active},
    ended <- {r \in Runs : status[r] \in Terminal},
    owner <- issueOf

\* The store implements the claim lock: acceptance takes the lock of a free
\* issue, a terminal event gives it back, and no run takes it twice.
ImplementsClaimLock == Lock!Spec
=============================================================================
