-------------------------------- MODULE Entry --------------------------------
(***************************************************************************)
(* The webhook entry point (agent/lib/dark-factory/entry.ts) over the run  *)
(* ledger.  GitHub delivers a label or a comment at least once; every      *)
(* delivery is handled by one invocation of runDarkFactoryDispatch, which  *)
(* makes one ledger, label or session call after another.  Invocations run *)
(* side by side (serverless instances), so every call is a step of its     *)
(* own, and any of them may be the last one its invocation makes: a crash, *)
(* a store that refuses, a paused factory and an early return all leave    *)
(* the same durable state behind, and GiveUp stands for each of them.      *)
(*                                                                         *)
(* Around the handlers: the agent session a handoff starts, which reports  *)
(* to the ledger, and the operator who retires a claim.                    *)
(***************************************************************************)
EXTENDS RunLedger

CONSTANTS
    Slots,       \* handler invocations that can run at the same time
    About,       \* the issue a delivery is about
    MaxReceived, \* bound: how many requests GitHub sends, redeliveries included
    Questions    \* bound: the questions one run can park on

VARIABLES
    kind,      \* what a delivery asks for, Nil before its first request
    received,  \* how many requests have been received (history)
    h,         \* the local state of each handler invocation
    agents,    \* runs whose session was started and has not parked or ended
    posts      \* handoffs the session API took, per delivery (history)

entryVars == <<kind, received, h, agents, posts>>
vars == <<ledgerVars, entryVars>>

-----------------------------------------------------------------------------
(* Local state of an invocation                                            *)

Kinds == {"trigger", "abort", "resume"}

Steps == {"idle", "accept", "label", "handoff", "started", "label-failed",
          "handoff-failed", "find", "claim", "unlabel", "terminal", "mark",
          "resume", "settle"}

\* active/activeStatus is what findActiveRun saw; run, runStatus, sent and
\* done are the receipt as claimControlDelivery returned it; dup is its
\* duplicate flag.  All of it may be stale by the time it is used.
Local == [pc : Steps, d : Deliveries \cup {Nil},
          active : Runs \cup {Nil}, activeStatus : RunStatus \cup {"none"},
          run : Runs \cup {Nil}, runStatus : RunStatus \cup {"none"},
          sent : BOOLEAN, done : BOOLEAN, dup : BOOLEAN]

Idle == [pc |-> "idle", d |-> Nil, active |-> Nil, activeStatus |-> "none",
         run |-> Nil, runStatus |-> "none",
         sent |-> FALSE, done |-> FALSE, dup |-> FALSE]

EntryTypeOK ==
    /\ TypeOK
    /\ kind \in [Deliveries -> Kinds \cup {Nil}]
    /\ received \in Nat
    /\ h \in [Slots -> Local]
    /\ agents \subseteq Runs
    /\ posts \in [Deliveries -> Nat]

EntryInit ==
    /\ Init
    /\ kind = [d \in Deliveries |-> Nil]
    /\ received = 0
    /\ h = [p \in Slots |-> Idle]
    /\ agents = {}
    /\ posts = [d \in Deliveries |-> 0]

At(p, step) == h[p].pc = step
Issue(p) == About[h[p].d]
KindOf(p) == kind[h[p].d]
Goto(p, step) == h' = [h EXCEPT ![p].pc = step]
Return(p) == h' = [h EXCEPT ![p] = Idle]
EventId(p, transition) == <<h[p].d, transition>>

\* The event identities the handlers and the session agent use.
EntryEventIds ==
    (Deliveries \X {"accepted", "dispatch-started", "label-failed",
                    "handoff-failed", "abort", "resume"})
    \cup ({"agent"} \X (Questions \cup {"end"}))
    \cup {RetireId}

ASSUME EntryAssumption ==
    /\ About \in [Deliveries -> Issues]
    /\ MaxReceived \in Nat
    /\ EntryEventIds \subseteq EventIds
    /\ Nil \notin Kinds
    /\ Nil \notin Receipt

\* Mutant: the terminal event leaves the run running.
TerminalEventRunning(p, transition, s) ==
    [id |-> EventId(p, transition), type |-> "run.terminal", status |-> "running"]

\* A terminal event of this delivery (recordTerminal).
TerminalEvent(p, transition, s) ==
    [id |-> EventId(p, transition), type |-> "run.terminal", status |-> s]

-----------------------------------------------------------------------------
(* Receiving                                                               *)

Receive(p, d) ==
    /\ At(p, "idle")
    /\ received < MaxReceived
    /\ received' = received + 1
    /\ \E k \in Kinds :
        /\ kind[d] \in {Nil, k}
        /\ kind' = [kind EXCEPT ![d] = k]
        /\ h' = [h EXCEPT ![p] = [Idle EXCEPT
                 !.pc = IF k = "trigger" THEN "accept" ELSE "find",
                 !.d = d]]
    /\ UNCHANGED <<ledgerVars, agents, posts>>

\* The invocation ends here: crash, refused call, paused factory or run.
GiveUp(p) ==
    /\ ~At(p, "idle")
    /\ Return(p)
    /\ UNCHANGED <<ledgerVars, kind, received, agents, posts>>

-----------------------------------------------------------------------------
(* Trigger: create the run, label, hand off, record the start              *)

\* A created run goes on to its side effects; a replayed delivery and an
\* issue somebody already works on are held.
Accept(p) ==
    /\ At(p, "accept")
    /\ \/ \E r \in Runs :
            /\ AcceptDelivery(h[p].d, Issue(p), r)
            /\ h' = [h EXCEPT ![p].pc = "label", ![p].run = r]
       \/ /\ IsReplay(h[p].d, Issue(p)) \/ IsConflict(h[p].d, Issue(p))
          /\ Return(p)
          /\ UNCHANGED ledgerVars
    /\ UNCHANGED <<kind, received, agents, posts>>

\* addLabels [running]: a label that could not be written fails the run.
AddRunningLabel(p) ==
    /\ At(p, "label")
    /\ Goto(p, "handoff") \/ Goto(p, "label-failed")
    /\ UNCHANGED <<ledgerVars, kind, received, agents, posts>>

\* postHandoff; an error answer says nothing of whether a session started.
Handoff(p) ==
    /\ At(p, "handoff")
    /\ \E ok, begun \in BOOLEAN :
        /\ ok => begun
        /\ IF begun
           THEN /\ agents' = agents \cup {h[p].run}
                /\ posts' = [posts EXCEPT ![h[p].d] = @ + 1]
           ELSE UNCHANGED <<agents, posts>>
        /\ CASE ok -> Goto(p, IF KindOf(p) = "trigger" THEN "started" ELSE "mark")
             [] ~ok /\ KindOf(p) = "trigger" -> Goto(p, "handoff-failed")
             [] OTHER -> Return(p)
    /\ UNCHANGED <<ledgerVars, kind, received>>

\* The last write of a trigger; refused (GiveUp) when the run is terminal.
RecordStarted(p) ==
    /\ At(p, "started")
    /\ AppendEvent(h[p].run, [id |-> EventId(p, "dispatch-started"),
                              type |-> "dispatch.started",
                              status |-> "running"])
    /\ Return(p)
    /\ UNCHANGED <<kind, received, agents, posts>>

RecordFailed(p) ==
    /\ h[p].pc \in {"label-failed", "handoff-failed"}
    /\ AppendEvent(h[p].run, TerminalEvent(p, h[p].pc, "failed"))
    /\ Return(p)
    /\ UNCHANGED <<kind, received, agents, posts>>

-----------------------------------------------------------------------------
(* Abort and resume: find the run, claim the delivery, act, settle         *)

\* findActiveRun: listRuns over the active statuses, limit 1.
FindActive(p) ==
    /\ At(p, "find")
    /\ \/ \E r \in ActiveRuns(Issue(p)) :
            h' = [h EXCEPT ![p].pc = "claim", ![p].active = r,
                           ![p].activeStatus = status[r]]
       \/ /\ ActiveRuns(Issue(p)) = {}
          /\ Goto(p, "claim")
    /\ UNCHANGED <<ledgerVars, kind, received, agents, posts>>

\* Mutant: a resume is bound to any active run.
EligibleActive(p) == h[p].active

\* A resume is only ever bound to a run that was seen parked.
Eligible(p) ==
    IF KindOf(p) = "abort" \/ h[p].activeStatus = "blocked"
    THEN h[p].active ELSE Nil

\* What the receipt x decides: act, settle (complete, nothing to do), or stop.
\* A pending delivery must not touch the labels of a later active run.
IsForEarlierRun(x) == x.dup /\ x.run # Nil /\ x.active \notin {Nil, x.run}

\* Mutant: a replayed abort is taken to be done.
AbortStepOnce(x) ==
    IF x.done THEN "idle"
    ELSE IF x.runStatus \in Terminal \/ x.dup THEN "settle"
    ELSE "unlabel"

AbortStep(x) ==
    IF x.done THEN "idle"
    ELSE IF x.runStatus \in Terminal THEN "settle"
    ELSE IF IsForEarlierRun(x) THEN "idle"
    ELSE IF x.dup /\ x.run = Nil /\ x.active # Nil THEN "settle"
    ELSE "unlabel"

ResumeStep(x) ==
    IF x.done THEN "idle"
    ELSE IF x.run = Nil \/ x.runStatus \in Terminal THEN "settle"
    ELSE IF IsForEarlierRun(x) THEN "idle"
    ELSE IF x.runStatus = "running" THEN "settle"
    ELSE IF x.sent THEN "resume"
    ELSE "unlabel"

\* The receipt a claim returned; a bound run's status is read with it.
Seen(p, run, sent, done, dup) ==
    [h[p] EXCEPT !.run = run, !.sent = sent, !.done = done, !.dup = dup,
                 !.runStatus = IF run = Nil THEN "none" ELSE status[run]]

Decide(p, x) ==
    LET next == IF KindOf(p) = "abort" THEN AbortStep(x) ELSE ResumeStep(x)
    IN  h' = [h EXCEPT ![p] =
                 IF next = "idle" THEN Idle
                 ELSE [Idle EXCEPT !.pc = next, !.d = x.d, !.run = x.run]]

\* claimControlDelivery: the first claim binds the run seen by FindActive, a
\* later one returns the stored receipt.
Claim(p) ==
    LET d == h[p].d
    IN  /\ At(p, "claim")
        /\ \/ /\ ClaimControlDelivery(d, Issue(p), KindOf(p), Eligible(p))
              /\ Decide(p, Seen(p, Eligible(p), FALSE, FALSE, FALSE))
           \/ /\ receipts[d] # Nil
              /\ Decide(p, Seen(p, receipts[d].run, receipts[d].handoffSent,
                                receipts[d].completed, TRUE))
              /\ UNCHANGED ledgerVars
        /\ UNCHANGED <<kind, received, agents, posts>>

\* removeLabels: running and question for an abort, question for a resume.
\* Nothing here reads a label back, so only the call's success matters.
Unlabel(p) ==
    /\ At(p, "unlabel")
    /\ Goto(p, CASE KindOf(p) = "resume" -> "handoff"
                [] KindOf(p) = "abort" /\ h[p].run # Nil -> "terminal"
                [] OTHER -> "settle")
    /\ UNCHANGED <<ledgerVars, kind, received, agents, posts>>

\* An append whose event id is already recorded succeeds if the data is equal,
\* the event's time included (sameEvent); a replay stamped at another time is
\* refused, and the invocation ends (GiveUp).
AppendOrReplay(r, e) ==
    \/ AppendEvent(r, e)
    \/ e \in log[r] /\ UNCHANGED ledgerVars

\* Mutant: the abort ends the run that is active now, not the one it claimed.
RecordAbortedActive(p) ==
    /\ At(p, "terminal")
    /\ \E r \in ActiveRuns(Issue(p)) :
           AppendOrReplay(r, TerminalEvent(p, "abort", "aborted"))
    /\ Goto(p, "settle")
    /\ UNCHANGED <<kind, received, agents, posts>>

RecordAborted(p) ==
    /\ At(p, "terminal")
    /\ AppendOrReplay(h[p].run, TerminalEvent(p, "abort", "aborted"))
    /\ Goto(p, "settle")
    /\ UNCHANGED <<kind, received, agents, posts>>

MarkHandoffSent(p) ==
    /\ At(p, "mark")
    /\ AdvanceControlDelivery(h[p].d, Issue(p), "resume", h[p].run, TRUE, FALSE)
    /\ Goto(p, "resume")
    /\ UNCHANGED <<kind, received, agents, posts>>

RecordResumed(p) ==
    /\ At(p, "resume")
    /\ AppendOrReplay(h[p].run, [id |-> EventId(p, "resume"),
                                 type |-> "run.resumed", status |-> "running"])
    /\ Goto(p, "settle")
    /\ UNCHANGED <<kind, received, agents, posts>>

\* advanceControlReceipt {completed: true}: the delivery is done with.
Settle(p) ==
    /\ At(p, "settle")
    /\ AdvanceControlDelivery(h[p].d, Issue(p), KindOf(p), h[p].run, FALSE, TRUE)
    /\ Return(p)
    /\ UNCHANGED <<kind, received, agents, posts>>

-----------------------------------------------------------------------------
(* The session agent and the operator                                      *)

\* A report of the agent; the ledger refuses it once the run is over.
AgentReports(r, e) ==
    /\ r \in agents
    /\ AppendEvent(r, e)
    /\ UNCHANGED <<kind, received, h, posts>>

\* The agent parks the run on a human decision and stops working on it.
AgentAsks(r) ==
    /\ \E q \in Questions :
           AgentReports(r, [id |-> <<"agent", q>>,
                            type |-> "worker.question", status |-> "blocked"])
    /\ agents' = agents \ {r}

AgentEnds(r) ==
    /\ \E s \in {"succeeded", "failed"} :
           AgentReports(r, [id |-> <<"agent", "end">>,
                            type |-> "run.terminal", status |-> s])
    /\ agents' = agents \ {r}

Retire(i) ==
    /\ RetireRunClaim(i)
    /\ UNCHANGED entryVars

-----------------------------------------------------------------------------
HandlerStep(p) ==
    \/ Accept(p) \/ AddRunningLabel(p) \/ Handoff(p)
    \/ RecordStarted(p) \/ RecordFailed(p)
    \/ FindActive(p) \/ Claim(p) \/ Unlabel(p)
    \/ RecordAborted(p) \/ MarkHandoffSent(p) \/ RecordResumed(p)
    \/ Settle(p)

EntryNext ==
    \/ \E p \in Slots, d \in Deliveries : Receive(p, d)
    \/ \E p \in Slots : HandlerStep(p) \/ GiveUp(p)
    \/ \E r \in Runs : AgentAsks(r) \/ AgentEnds(r)
    \/ \E i \in Issues : Retire(i)

EntrySpec == EntryInit /\ [][EntryNext]_vars

-----------------------------------------------------------------------------
(* Properties                                                              *)

\* However often a trigger is delivered and wherever its handlers die, the
\* session API takes at most one handoff for it.
TriggerIsHandedOffOnce ==
    \A d \in Deliveries : kind[d] = "trigger" => posts[d] <= 1

\* An abort that says it is completed really ended the run it was bound to,
\* across crashes, replays and a run that changed under it.
CompletedAbortEndedItsRun ==
    \A d \in Deliveries :
        /\ kind[d] = "abort" /\ receipts[d] # Nil
        /\ receipts[d].completed
        /\ receipts[d].run # Nil
        => status[receipts[d].run] \in Terminal

\* A resume hands work off only for a run that did park on a question; and
\* once it is completed after a handoff, the run was resumed or is over.
ResumeAnswersAPark ==
    \A d \in Deliveries :
        kind[d] = "resume" /\ posts[d] > 0 =>
            LET run == receipts[d].run
            IN  /\ \E e \in log[run] : e.type = "worker.question"
                /\ receipts[d].completed =>
                       \/ \E e \in log[run] : e.type = "run.resumed"
                       \/ status[run] \in Terminal

\* A replayed abort or resume never changes a later run of the issue: the
\* only run its append moves is the one its receipt was first bound to.
ControlMovesOnlyItsRun ==
    [][\A p \in Slots :
          h[p].pc \in {"terminal", "resume"} /\ h'[p].pc = "settle" =>
              \A r \in Runs : status'[r] # status[r] =>
                                 receipts[h[p].d].run = r]_vars

\* A binding is written once and a receipt's phases are never undone.
BindingsAreWriteOnce ==
    [][\A d \in Deliveries :
          /\ bound[d] # Nil => bound'[d] = bound[d]
          /\ receipts[d] # Nil =>
                /\ receipts'[d] # Nil
                /\ receipts'[d].run = receipts[d].run
                /\ receipts[d].handoffSent => receipts'[d].handoffSent
                /\ receipts[d].completed => receipts'[d].completed]_ledgerVars
=============================================================================
