-------------------------------- MODULE RunDiff --------------------------------
(***************************************************************************)
(* Diff capture (agent/lib/dark-factory/diff-capture.ts) beside the run    *)
(* ledger.  After the developer stage the dispatch handler stores the diff *)
(* of the workspace on the run: recordRunDiff reads the summary row, waits *)
(* for `git diff`, and writes the WHOLE row back through recordRunSummary. *)
(* While git runs, the store is free: the run's events, the operator's     *)
(* retirement and the next delivery of the issue all go on.                *)
(***************************************************************************)
EXTENDS RunLedger

CONSTANT About  \* the issue a delivery is about

ASSUME DiffAssumption == About \in [Deliveries -> Issues]

VARIABLE snapshot  \* the status recordRunDiff read, "none" outside a capture

diffVars == <<ledgerVars, snapshot>>

DiffTypeOK ==
    /\ TypeOK
    /\ snapshot \in [Runs -> RunStatus \cup {"none"}]

\* What the rest of the pipeline reports while a capture is in progress.
StageEvents ==
    {[id |-> <<"stage", "started">>,  type |-> "dispatch.started", status |-> "running"],
     [id |-> <<"stage", "question">>, type |-> "worker.question",  status |-> "blocked"],
     [id |-> <<"stage", "resumed">>,  type |-> "run.resumed",      status |-> "running"],
     [id |-> <<"stage", "ended">>,    type |-> "run.terminal",     status |-> "succeeded"]}

DiffEventIds ==
    {e.id : e \in StageEvents} \cup {RetireId}
    \cup {AcceptedId(d) : d \in Deliveries}

ASSUME DiffIdsAssumption == DiffEventIds \subseteq EventIds

\* The deliveries of one issue, for an instance.
AboutOneIssue == [d \in Deliveries |-> CHOOSE i \in Issues : TRUE]

DiffInit ==
    /\ Init
    /\ snapshot = [r \in Runs |-> "none"]

\* getRun: the row as it is now, kept across the git call.
BeginCapture(r) ==
    /\ snapshot[r] = "none"
    /\ status[r] # "none"
    /\ snapshot' = [snapshot EXCEPT ![r] = status[r]]
    /\ UNCHANGED ledgerVars

\* recordRunSummary with the row read before git ran; a refused write and an
\* empty diff (or a failed git) leave the row alone.
EndCapture(r) ==
    /\ snapshot[r] # "none"
    /\ RecordRunSummary(r, snapshot[r]) \/ UNCHANGED ledgerVars
    /\ snapshot' = [snapshot EXCEPT ![r] = "none"]

Accept(d) ==
    /\ \E r \in Runs : AcceptDelivery(d, About[d], r)
    /\ UNCHANGED snapshot

Report(r) ==
    /\ \E e \in StageEvents : AppendEvent(r, e)
    /\ UNCHANGED snapshot

Retire(i) ==
    /\ RetireRunClaim(i)
    /\ UNCHANGED snapshot

DiffNext ==
    \/ \E d \in Deliveries : Accept(d)
    \/ \E r \in Runs : Report(r) \/ BeginCapture(r) \/ EndCapture(r)
    \/ \E i \in Issues : Retire(i)

DiffSpec == DiffInit /\ [][DiffNext]_diffVars

=============================================================================
