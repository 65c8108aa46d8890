-------------------------------- MODULE Control --------------------------------
(***************************************************************************)
(* Operator control: performControlAction (control-service.ts) over the    *)
(* control stores (control.ts, control-postgres.ts).  The operator CLI and *)
(* the UI drive the same factory and the same runs side by side.  A call   *)
(* validates its request, reads the row of its scope, computes the next      *)
(* state and hands it to applyChange, which compares the row with the one    *)
(* that was read, writes it and appends one audit event, all in one        *)
(* transaction.  A conflict starts the call over, a bounded number of      *)
(* times.                                                                  *)
(***************************************************************************)
EXTENDS Naturals, Sequences

CONSTANTS
    ControlCalls,  \* calls of performControlAction
    Managed,       \* runs under control
    Factory,       \* the scope "factory"
    Stamps,        \* values of updatedAt, actor and reason together
    MaxConflicts,  \* how often a call starts over, 3 in the code
    NoRow          \* no row

Scopes == Managed \cup {Factory}
Actions == {"pause", "resume", "stop", "abort", "retry"}
Flags == [paused : BOOLEAN, stopped : BOOLEAN]
ControlRow == [flags : Flags, stamp : Stamps]
Answers == {"none", "applied", "duplicate", "invalid", "unavailable"}

ASSUME ControlAssumption ==
    /\ Factory \notin Managed
    /\ MaxConflicts \in Nat
    /\ NoRow \notin ControlRow

VARIABLES
    controls,  \* df_factory_control and df_run_control: the row of each scope
    audit,     \* df_control_events, in the order of their sequence column
    call       \* the local state of each call

controlVars == <<controls, audit, call>>

\* seen is the row the call read, stale by the time it is compared.
CallState == [pc : {"idle", "read", "apply", "answered"},
              action : Actions, scope : Scopes, seen : ControlRow \cup {NoRow},
              conflicts : 0..MaxConflicts, answer : Answers]

AuditRecord == [by : ControlCalls, action : {"pause", "resume", "stop"}, scope : Scopes]

ControlTypeOK ==
    /\ controls \in [Scopes -> ControlRow \cup {NoRow}]
    /\ audit \in Seq(AuditRecord)
    /\ call \in [ControlCalls -> CallState]

ControlInit ==
    /\ controls = [x \in Scopes |-> NoRow]
    /\ audit = <<>>
    /\ call = [p \in ControlCalls |->
              [pc |-> "idle", action |-> "pause", scope |-> Factory,
               seen |-> NoRow, conflicts |-> 0, answer |-> "none"]]

Answer(p, answer) ==
    call' = [call EXCEPT ![p].pc = "answered", ![p].answer = answer, ![p].seen = NoRow]

-----------------------------------------------------------------------------
(* The steps of a call                                                     *)

\* What the service and toControlEvent refuse before anything is read.
Refused(action, scope) ==
    \/ scope = Factory /\ action \in {"stop", "abort"}
    \/ action = "retry"
    \/ action \notin {"pause", "resume", "stop"}   \* toControlEvent

Validate(p) ==
    /\ call[p].pc = "idle"
    /\ \E action \in Actions, scope \in Scopes :
          call' = [call EXCEPT ![p] = [@ EXCEPT
                  !.action = action, !.scope = scope,
                  !.pc = IF Refused(action, scope) THEN "answered" ELSE "read",
                  !.answer = IF Refused(action, scope) THEN "invalid" ELSE call[p].answer]]
    /\ UNCHANGED <<controls, audit>>

\* The flags an action asks for.
Target(action) ==
    [paused |-> action = "pause", stopped |-> action \in {"stop", "abort"}]

IsStopped(x) == controls[x] # NoRow /\ controls[x].flags.stopped
AlreadySo(x, action) == controls[x] # NoRow /\ controls[x].flags = Target(action)

\* readFactory or readRun, and what it decides.
Read(p) ==
    LET x == call[p].scope
        action == call[p].action
    IN  /\ call[p].pc = "read"
        /\ \/ Answer(p, "unavailable")
           \/ /\ IsStopped(x)
              /\ Answer(p, IF Target(action).stopped THEN "duplicate" ELSE "invalid")
           \/ /\ ~IsStopped(x) /\ AlreadySo(x, action)
              /\ Answer(p, "duplicate")
           \/ /\ ~IsStopped(x) /\ ~AlreadySo(x, action)
              /\ call' = [call EXCEPT ![p].pc = "apply", ![p].seen = controls[x]]
        /\ UNCHANGED <<controls, audit>>

\* Mutant: only the pause flag is compared.
MatchesPause(p) ==
    LET is == controls[call[p].scope]
        was == call[p].seen
    IN  IF is = NoRow \/ was = NoRow THEN is = was
        ELSE is.flags.paused = was.flags.paused

\* matchesFactorySnapshot, matchesRunSnapshot.
Matches(p) == controls[call[p].scope] = call[p].seen

Conflict(p) ==
    /\ call[p].pc = "apply"
    /\ ~Matches(p)
    /\ IF call[p].conflicts < MaxConflicts
       THEN call' = [call EXCEPT ![p].pc = "read", ![p].seen = NoRow,
                           ![p].conflicts = @ + 1]
       ELSE Answer(p, "unavailable")
    /\ UNCHANGED <<controls, audit>>

\* What a commit writes to the row.
WriteRow(p) ==
    \E stamp \in Stamps :
        controls' = [controls EXCEPT ![call[p].scope] =
                   [flags |-> Target(call[p].action), stamp |-> stamp]]

AuditEvent(p) ==
    [by |-> p, action |-> call[p].action, scope |-> call[p].scope]

\* Mutant: a lost acknowledgement starts the call over.
CommitRetried(p) ==
    /\ call[p].pc = "apply"
    /\ Matches(p)
    /\ WriteRow(p)
    /\ audit' = Append(audit, AuditEvent(p))
    /\ \/ Answer(p, "applied")
       \/ call' = [call EXCEPT ![p].pc = "read", ![p].seen = NoRow]

\* The transaction commits; its acknowledgement may be lost.
Commit(p) ==
    /\ call[p].pc = "apply"
    /\ Matches(p)
    /\ WriteRow(p)
    /\ audit' = Append(audit, AuditEvent(p))
    /\ Answer(p, "applied") \/ Answer(p, "unavailable")

\* The store fails and nothing is written.
WriteFails(p) ==
    /\ call[p].pc = "apply"
    /\ Answer(p, "unavailable")
    /\ UNCHANGED <<controls, audit>>

ControlNext ==
    \E p \in ControlCalls :
        Validate(p) \/ Read(p) \/ Conflict(p) \/ Commit(p) \/ WriteFails(p)

ControlSpec == ControlInit /\ [][ControlNext]_controlVars

-----------------------------------------------------------------------------
(* Properties                                                              *)

\* The positions in the log of what was done to a scope, and by a call.
EventsOf(x) == {n \in DOMAIN audit : audit[n].scope = x}
EventsBy(p) == {n \in DOMAIN audit : audit[n].by = p}

\* The next event of scope x after position m is at position n.
FollowedBy(x, m, n) ==
    /\ m \in EventsOf(x) /\ n \in EventsOf(x) /\ m < n
    /\ \A k \in EventsOf(x) : k <= m \/ n <= k

\* The audit log explains the state: a scope has a row exactly when an event
\* names it, and its flags are what the last of these events asked for.  And
\* no update is lost: every audited action changed what it found, so two
\* operators never both apply on the strength of the same row, and nothing is
\* audited on a run after its stop.
AuditExplainsState ==
    \A x \in Scopes :
        /\ (EventsOf(x) = {}) <=> (controls[x] = NoRow)
        /\ \A n \in EventsOf(x) : (\A k \in EventsOf(x) : k <= n) =>
              controls[x].flags = Target(audit[n].action)
        /\ \A m, n \in DOMAIN audit : FollowedBy(x, m, n) =>
              /\ Target(audit[m].action) # Target(audit[n].action)
              /\ audit[m].action # "stop"

\* An operator is told the truth: "applied" left one audit event, a duplicate
\* and a refusal left none, and no call, however often it started over, ever
\* left two.
AnswersMatchAudit ==
    \A p \in ControlCalls :
        /\ \A m, n \in EventsBy(p) : m = n
        /\ call[p].answer = "applied" => EventsBy(p) # {}
        /\ call[p].answer \in {"duplicate", "invalid"} => EventsBy(p) = {}

\* The audit log is true: it explains every row, and every answer.
AuditIsTrue == AuditExplainsState /\ AnswersMatchAudit

\* A stop is permanent, whatever calls were under way when it was applied.
StopIsPermanent ==
    [][\A x \in Scopes : IsStopped(x) => controls'[x] = controls[x]]_controlVars

\* control-service.ts: "abort sets the SAME cooperative stop flag as stop", so
\* the abort of a run that is not stopped is not refused as invalid.
AbortIsAccepted ==
    \A p \in ControlCalls :
        call[p].action = "abort" /\ call[p].scope \in Managed => call[p].answer # "invalid"
=============================================================================
