---------------------------- MODULE RunLedgerProofs ----------------------------
(***************************************************************************)
(* What the run ledger guarantees for any number of runs, issues and       *)
(* deliveries, proved from the transactions of RunLedger alone: whichever  *)
(* handlers, agents and operators call the store, and in whatever order.   *)
(*                                                                         *)
(* And that the PostgreSQL store implements it, for any number of          *)
(* processes: whatever statements of other transactions come between its   *)
(* own, a COMMIT is the one operation that its transaction was opened for. *)
(* What the unique keys and the row locks keep apart, and what a           *)
(* transaction has read that they keep true until it commits, is the       *)
(* invariant.                                                              *)
(***************************************************************************)
EXTENDS RunLedgerPg, TLAPS

-----------------------------------------------------------------------------
(* Facts about the projection                                              *)

\* The statuses are apart from each other and from the absent column.
LEMMA StatusesApart ==
    /\ Active \cap Terminal = {}
    /\ "none" \notin RunStatus
    /\ Nil \notin RunStatus
BY LedgerAssumption DEF Active, Terminal, RunStatus

\* Applying an event to an active run gives a status a run may have, and a
\* terminal one exactly when the event is the terminal event.
LEMMA ProjectionStep ==
    ASSUME NEW e \in Event, NEW s \in Active, Applies(e, s)
    PROVE  /\ StatusAfter(e, s) \in RunStatus
           /\ StatusAfter(e, s) \in Terminal <=> e.type = "run.terminal"
           /\ e.type = "run.terminal" => e.status = StatusAfter(e, s)
<1>1. e.status \in RunStatus \cup {Nil} /\ WellFormed(e)
  BY DEF Event
<1>2. CASE e.status # Nil
  BY <1>1, <1>2, StatusesApart DEF StatusAfter, Applies, WellFormed, RunStatus
<1>3. CASE e.status = Nil
  <2>1. e.type # "run.terminal"
    BY <1>1, <1>3, StatusesApart DEF WellFormed, RunStatus
  <2>2. StatusAfter(e, s) \in Active
    BY <1>3, <2>1 DEF StatusAfter, Active, RunStatus
  <2> QED
    BY <2>1, <2>2, StatusesApart DEF RunStatus
<1> QED
  BY <1>2, <1>3

\* A run with a row that has not ended is active.
LEMMA AppendNeedsActive ==
    ASSUME TypeOK, NEW r \in Runs, NEW e, AppendEvent(r, e)
    PROVE  status[r] \in Active
BY DEF TypeOK, AppendEvent, Applies, RunStatus

-----------------------------------------------------------------------------
(* Every step of the store, named                                          *)

\* Retirement is one more appended event.
LEMMA RetireAppends ==
    ASSUME NEW i \in Issues, RetireRunClaim(i)
    PROVE  \E r \in Runs, e \in Event : AppendEvent(r, e)
<1>1. PICK r \in ActiveRuns(i) :
          AppendEvent(r, [id |-> RetireId, type |-> "run.terminal",
                          status |-> "aborted"])
  BY DEF RetireRunClaim
<1>2. [id |-> RetireId, type |-> "run.terminal", status |-> "aborted"] \in Event
  BY LedgerAssumption DEF Event, WellFormed, EventTypes, RunStatus, Terminal
<1> QED
  BY <1>1, <1>2 DEF ActiveRuns

\* What an accepted delivery changes: one fresh run, active, with one event.
LEMMA AcceptEffect ==
    ASSUME TypeOK, NEW d \in Deliveries, NEW i \in Issues, NEW r \in Runs,
           AcceptDelivery(d, i, r)
    PROVE  /\ status[r] = "none" /\ status'[r] = "queued" /\ issueOf'[r] = i
           /\ log'[r] = {[id |-> AcceptedId(d), type |-> "run.accepted",
                         status |-> "queued"]}
           /\ \A q \in Runs \ {r} : /\ status'[q] = status[q]
                                    /\ issueOf'[q] = issueOf[q]
                                    /\ log'[q] = log[q]
BY DEF TypeOK, AcceptDelivery, InsertRun

\* What an appended event changes: the status and the log of its run.
LEMMA AppendEffect ==
    ASSUME TypeOK, NEW r \in Runs, NEW e \in Event, AppendEvent(r, e)
    PROVE  /\ status'[r] = StatusAfter(e, status[r])
           /\ log'[r] = log[r] \cup {e}
           /\ \A q \in Runs \ {r} : status'[q] = status[q] /\ log'[q] = log[q]
           /\ issueOf' = issueOf
BY DEF TypeOK, AppendEvent

\* An event moves an active run to a status of the kind its type names.
LEMMA AppendMoves ==
    ASSUME TypeOK, NEW r \in Runs, NEW e \in Event, AppendEvent(r, e)
    PROVE  /\ status[r] \in Active /\ status[r] \notin Terminal
           /\ status'[r] \in RunStatus
           /\ status'[r] \in Terminal <=> e.type = "run.terminal"
           /\ e.type = "run.terminal" => e.status = status'[r]
<1>1. status[r] \in Active /\ Applies(e, status[r])
  BY AppendNeedsActive DEF AppendEvent
<1>2. status'[r] = StatusAfter(e, status[r])
  BY AppendEffect
<1> QED
  BY <1>1, <1>2, ProjectionStep, StatusesApart

\* A proof about a step need only look at the four kinds of transactions.
LEMMA StepCases ==
    ASSUME [Next]_ledgerVars
    PROVE  \/ \E d \in Deliveries, i \in Issues, r \in Runs : AcceptDelivery(d, i, r)
           \/ \E d \in Deliveries, i \in Issues, t \in {"abort", "resume"},
                 r \in Runs \cup {Nil} : ClaimControlDelivery(d, i, t, r)
           \/ \E d \in Deliveries, i \in Issues, t \in {"abort", "resume"},
                 r \in Runs \cup {Nil}, sent, done \in BOOLEAN :
                     AdvanceControlDelivery(d, i, t, r, sent, done)
           \/ \E r \in Runs, e \in Event : AppendEvent(r, e)
           \/ UNCHANGED ledgerVars
BY RetireAppends DEF Next

-----------------------------------------------------------------------------
(* Type correctness                                                        *)

\* Every transaction writes well-formed rows only.
LEMMA LedgerTypeStep ==
    ASSUME TypeOK, [Next]_ledgerVars
    PROVE  TypeOK'
<1>1. ASSUME NEW d \in Deliveries, NEW i \in Issues, NEW r \in Runs,
             AcceptDelivery(d, i, r)
      PROVE  TypeOK'
  <2>1. [id |-> AcceptedId(d), type |-> "run.accepted", status |-> "queued"]
            \in Event
    BY LedgerAssumption DEF Event, WellFormed, EventTypes, RunStatus, Active
  <2> QED
    BY <1>1, <2>1 DEF TypeOK, AcceptDelivery, InsertRun, RunStatus, Active
<1>2. ASSUME NEW d \in Deliveries, NEW i \in Issues, NEW t \in {"abort", "resume"},
             NEW r \in Runs \cup {Nil}, ClaimControlDelivery(d, i, t, r)
      PROVE  TypeOK'
  <2>1. [issue |-> i, transition |-> t, run |-> r, handoffSent |-> FALSE,
         completed |-> FALSE] \in Receipt
    BY DEF Receipt
  <2> QED
    BY <1>2, <2>1 DEF TypeOK, ClaimControlDelivery
<1>3. ASSUME NEW d \in Deliveries, NEW i \in Issues, NEW t \in {"abort", "resume"},
             NEW r \in Runs \cup {Nil}, NEW sent \in BOOLEAN, NEW done \in BOOLEAN,
             AdvanceControlDelivery(d, i, t, r, sent, done)
      PROVE  TypeOK'
  <2>1. receipts[d] \in Receipt
    BY <1>3 DEF TypeOK, AdvanceControlDelivery
  <2>2. [receipts[d] EXCEPT !.handoffSent = @ \/ sent, !.completed = @ \/ done]
            \in Receipt
    BY <2>1 DEF Receipt
  <2>3. receipts' = [receipts EXCEPT ![d] =
           [receipts[d] EXCEPT !.handoffSent = @ \/ sent, !.completed = @ \/ done]]
    BY <1>3, <2>1 DEF TypeOK, AdvanceControlDelivery, Receipt
  <2> QED
    BY <1>3, <2>2, <2>3 DEF TypeOK, AdvanceControlDelivery
<1>4. ASSUME NEW r \in Runs, NEW e \in Event, AppendEvent(r, e)
      PROVE  TypeOK'
  <2>1. status'[r] \in RunStatus
    BY <1>4, AppendMoves
  <2> QED
    BY <1>4, <2>1 DEF TypeOK, AppendEvent
<1>5. CASE UNCHANGED ledgerVars
  BY <1>5 DEF TypeOK, ledgerVars
<1> QED
  BY <1>1, <1>2, <1>3, <1>4, <1>5, StepCases

\* Every table always holds well-formed rows: the statuses are run statuses,
\* the events are events the record layer accepts, the receipts are receipts.
THEOREM LedgerTypeCorrect == Spec => []TypeOK
<1>1. Init => TypeOK
  BY DEF Init, TypeOK
<1>2. TypeOK /\ [Next]_ledgerVars => TypeOK'
  BY LedgerTypeStep
<1> QED
  BY <1>1, <1>2, PTL DEF Spec

-----------------------------------------------------------------------------
(* The active-run claim                                                    *)

\* For any number of runs and issues, two runs of one issue are never in
\* flight together.  Acceptance checks the claim in the transaction that
\* takes it, and an event keeps an active run active or ends it.
THEOREM AtMostOneActiveRun == Spec => []OneActiveRun
<1>1. Init => OneActiveRun
  BY DEF Init, OneActiveRun, Active
<1>2. TypeOK /\ OneActiveRun /\ [Next]_ledgerVars => OneActiveRun'
  <2> SUFFICES ASSUME TypeOK, OneActiveRun, [Next]_ledgerVars
               PROVE  OneActiveRun'
    OBVIOUS
  <2>1. ASSUME NEW d \in Deliveries, NEW i \in Issues, NEW r \in Runs,
               AcceptDelivery(d, i, r)
        PROVE  OneActiveRun'
    <3>1. \A q \in Runs \ {r} : status[q] \in Active => issueOf[q] # i
      BY <2>1 DEF AcceptDelivery, InsertRun, ActiveRuns
    <3>2. \A q \in Runs \ {r} : status'[q] \in Active => issueOf'[q] # issueOf'[r]
      BY <2>1, <3>1, AcceptEffect
    <3> QED
      BY <2>1, <3>2, AcceptEffect DEF OneActiveRun
  <2>2. ASSUME NEW r \in Runs, NEW e \in Event, AppendEvent(r, e)
        PROVE  OneActiveRun'
    <3>1. status[r] \in Active
      BY <2>2, AppendMoves
    <3>2. \A q \in Runs : status'[q] \in Active => status[q] \in Active
      BY <2>2, <3>1, AppendEffect
    <3> QED
      BY <2>2, <3>2, AppendEffect DEF OneActiveRun
  <2>3. CASE UNCHANGED <<issueOf, status>>
    BY <2>3 DEF OneActiveRun
  <2> QED
    BY <2>1, <2>2, <2>3, StepCases
       DEF ClaimControlDelivery, AdvanceControlDelivery, ledgerVars
<1> QED
  BY <1>1, <1>2, LedgerTypeCorrect, PTL DEF Spec

-----------------------------------------------------------------------------
(* The log explains the projection                                         *)

\* For any log and any interleaving of appends and retirements, a run is
\* terminal exactly when one terminal event, with that status, is in its log.
THEOREM LogExplainsTerminal == Spec => []TerminalIsExplained
<1>1. Init => TerminalIsExplained
  BY DEF Init, TerminalIsExplained, Terminal
<1>2. TypeOK /\ TerminalIsExplained /\ [Next]_ledgerVars => TerminalIsExplained'
  <2> SUFFICES ASSUME TypeOK, TerminalIsExplained, [Next]_ledgerVars
               PROVE  TerminalIsExplained'
    OBVIOUS
  <2> DEFINE Explained(r) ==
        /\ status[r] \in Terminal => \E e \in log[r] : e.type = "run.terminal"
        /\ \A e \in log[r] : e.type = "run.terminal" => e.status = status[r]
        /\ \A e, f \in log[r] :
               e.type = "run.terminal" /\ f.type = "run.terminal" => e = f
  <2>1. \A r \in Runs : Explained(r)
    BY DEF TerminalIsExplained
  <2>2. ASSUME NEW d \in Deliveries, NEW i \in Issues, NEW r \in Runs,
               AcceptDelivery(d, i, r)
        PROVE  \A q \in Runs : Explained(q)'
    <3>1. Explained(r)'
      BY <2>2, AcceptEffect DEF Terminal
    <3>2. \A q \in Runs \ {r} : Explained(q)'
      BY <2>1, <2>2, AcceptEffect
    <3> QED
      BY <3>1, <3>2
  <2>3. ASSUME NEW r \in Runs, NEW e \in Event, AppendEvent(r, e)
        PROVE  \A q \in Runs : Explained(q)'
    <3>1. status[r] \in Active /\ status[r] \notin Terminal
      BY <2>3, AppendMoves
    <3>2. \A f \in log[r] : f.type # "run.terminal"
      <4> SUFFICES ASSUME NEW f \in log[r], f.type = "run.terminal"
                   PROVE  status[r] \in Terminal
        BY <3>1
      <4>1. WellFormed(f)
        BY DEF TypeOK, Event
      <4> QED
        BY <2>1, <4>1 DEF WellFormed
    <3>3. /\ status'[r] \in Terminal <=> e.type = "run.terminal"
          /\ e.type = "run.terminal" => e.status = status'[r]
      BY <2>3, AppendMoves
    <3>4. Explained(r)'
      BY <2>3, <3>2, <3>3, AppendEffect
    <3>5. \A q \in Runs \ {r} : Explained(q)'
      BY <2>1, <2>3, AppendEffect
    <3> QED
      BY <3>4, <3>5
  <2>4. ASSUME UNCHANGED <<status, log>>
        PROVE  \A q \in Runs : Explained(q)'
    BY <2>1, <2>4
  <2>5. \A q \in Runs : Explained(q)'
    BY <2>2, <2>3, <2>4, StepCases
       DEF ClaimControlDelivery, AdvanceControlDelivery, ledgerVars
  <2> QED
    BY <2>5 DEF TerminalIsExplained
<1> QED
  BY <1>1, <1>2, LedgerTypeCorrect, PTL DEF Spec

-----------------------------------------------------------------------------
(* A terminal run is final                                                 *)

\* One transaction leaves a run that has ended as it is.
LEMMA TerminalStep ==
    ASSUME TypeOK, [Next]_ledgerVars, NEW q \in Runs, status[q] \in Terminal
    PROVE  status'[q] = status[q]
<1>1. ASSUME NEW d \in Deliveries, NEW i \in Issues, NEW r \in Runs,
             AcceptDelivery(d, i, r)
      PROVE  status'[q] = status[q]
  BY <1>1, AcceptEffect DEF Terminal
<1>2. ASSUME NEW r \in Runs, NEW e \in Event, AppendEvent(r, e)
      PROVE  status'[q] = status[q]
  BY <1>2, AppendEffect, AppendMoves
<1> QED
  BY <1>1, <1>2, StepCases
     DEF ClaimControlDelivery, AdvanceControlDelivery, ledgerVars

\* A run that exists goes on to exist, keeps its issue and every event
\* recorded for it, and once it has ended stays as it ended.
LEMMA LedgerGrows ==
    ASSUME TypeOK, [Next]_ledgerVars, NEW r \in Runs, status[r] # "none"
    PROVE  /\ status'[r] # "none"
           /\ status[r] \in Terminal => status'[r] = status[r]
           /\ log[r] \subseteq log'[r]
           /\ issueOf'[r] = issueOf[r]
<1>1. ASSUME NEW d \in Deliveries, NEW i \in Issues, NEW q \in Runs,
             AcceptDelivery(d, i, q)
      PROVE  status'[r] # "none" /\ log'[r] = log[r] /\ issueOf'[r] = issueOf[r]
  BY <1>1, AcceptEffect
<1>2. ASSUME NEW q \in Runs, NEW e \in Event, AppendEvent(q, e)
      PROVE  /\ status'[r] # "none" /\ log[r] \subseteq log'[r]
             /\ issueOf'[r] = issueOf[r]
  BY <1>2, AppendEffect, AppendMoves, StatusesApart
<1>3. status'[r] # "none" /\ log[r] \subseteq log'[r] /\ issueOf'[r] = issueOf[r]
  BY <1>1, <1>2, StepCases
     DEF ClaimControlDelivery, AdvanceControlDelivery, ledgerVars
<1> QED
  BY <1>3, TerminalStep

\* No transaction of the store but recordRunSummary changes the status of a
\* run that has ended.
THEOREM TerminalRunsStayEnded == Spec => TerminalIsFinal
<1>1. TypeOK /\ [Next]_ledgerVars
        => [\A r \in Runs : status[r] \in Terminal => status'[r] = status[r]]_ledgerVars
  BY TerminalStep
<1> QED
  BY <1>1, LedgerTypeCorrect, PTL DEF Spec, TerminalIsFinal

-----------------------------------------------------------------------------
(* Bindings                                                                *)

\* Every delivery's binding and every receipt always point at a run that
\* exists, of the right issue, and no two deliveries created the same run.
THEOREM BindingsStaySound == Spec => []BindingsAreSound
<1>1. Init => BindingsAreSound
  BY DEF Init, BindingsAreSound
<1>2. TypeOK /\ BindingsAreSound /\ [Next]_ledgerVars => BindingsAreSound'
  <2> SUFFICES ASSUME TypeOK, BindingsAreSound, [Next]_ledgerVars
               PROVE  BindingsAreSound'
    OBVIOUS
  <2>1. ASSUME NEW d \in Deliveries, NEW i \in Issues, NEW r \in Runs,
               AcceptDelivery(d, i, r)
        PROVE  BindingsAreSound'
    <3>1. /\ bound' = [bound EXCEPT ![d] = r]
          /\ receipts' = receipts
          /\ \A q \in Runs : status[q] # "none" =>
                 status'[q] # "none" /\ issueOf'[q] = issueOf[q]
          /\ status'[r] # "none"
      BY <2>1, AcceptEffect DEF AcceptDelivery, InsertRun
    <3>2. \A c \in Deliveries : bound[c] # r
      BY <2>1, LedgerAssumption DEF AcceptDelivery, InsertRun, BindingsAreSound
    <3>3. \A c \in Deliveries : bound'[c] # Nil => status'[bound'[c]] # "none"
      BY <3>1 DEF TypeOK, BindingsAreSound
    <3>4. \A c, b \in Deliveries : bound'[c] # Nil /\ bound'[c] = bound'[b] => c = b
      BY <3>1, <3>2 DEF TypeOK, BindingsAreSound
    <3>5. ASSUME NEW c \in Deliveries, receipts'[c] # Nil, receipts'[c].run # Nil
          PROVE  /\ status'[receipts'[c].run] # "none"
                 /\ issueOf'[receipts'[c].run] = receipts'[c].issue
      <4>1. receipts[c] \in Receipt
        BY <3>1, <3>5 DEF TypeOK
      <4>2. receipts[c].run \in Runs
        BY <3>1, <3>5, <4>1 DEF Receipt
      <4> QED
        BY <3>1, <3>5, <4>2 DEF BindingsAreSound
    <3> QED
      BY <3>3, <3>4, <3>5 DEF BindingsAreSound
  <2>2. ASSUME NEW d \in Deliveries, NEW i \in Issues, NEW t \in {"abort", "resume"},
               NEW r \in Runs \cup {Nil}, ClaimControlDelivery(d, i, t, r)
        PROVE  BindingsAreSound'
    <3>1. /\ receipts' = [receipts EXCEPT ![d] =
                [issue |-> i, transition |-> t, run |-> r,
                 handoffSent |-> FALSE, completed |-> FALSE]]
          /\ r # Nil => status[r] # "none" /\ issueOf[r] = i
          /\ UNCHANGED <<issueOf, status, bound>>
      BY <2>2 DEF ClaimControlDelivery
    <3> QED
      BY <3>1 DEF TypeOK, BindingsAreSound
  <2>3. ASSUME NEW d \in Deliveries, NEW i \in Issues, NEW t \in {"abort", "resume"},
               NEW r \in Runs \cup {Nil}, NEW sent \in BOOLEAN, NEW done \in BOOLEAN,
               AdvanceControlDelivery(d, i, t, r, sent, done)
        PROVE  BindingsAreSound'
    <3>1. /\ receipts'[d].run = receipts[d].run
          /\ receipts'[d].issue = receipts[d].issue
          /\ receipts[d] # Nil
          /\ \A c \in Deliveries \ {d} : receipts'[c] = receipts[c]
          /\ UNCHANGED <<issueOf, status, bound>>
      BY <2>3 DEF TypeOK, Receipt, AdvanceControlDelivery
    <3> QED
      BY <3>1 DEF BindingsAreSound
  <2>4. ASSUME NEW r \in Runs, NEW e \in Event, AppendEvent(r, e)
        PROVE  BindingsAreSound'
    <3>1. /\ \A q \in Runs : status[q] # "none" => status'[q] # "none"
          /\ UNCHANGED <<issueOf, bound, receipts>>
      BY <2>4, AppendEffect, AppendMoves, StatusesApart DEF AppendEvent
    <3>2. \A c \in Deliveries : bound[c] \in Runs \cup {Nil}
      BY DEF TypeOK
    <3>3. \A c \in Deliveries :
             receipts[c] # Nil => receipts[c].run \in Runs \cup {Nil}
      BY DEF TypeOK, Receipt
    <3> QED
      BY <3>1, <3>2, <3>3 DEF BindingsAreSound
  <2>5. CASE UNCHANGED ledgerVars
    BY <2>5 DEF BindingsAreSound, ledgerVars
  <2> QED
    BY <2>1, <2>2, <2>3, <2>4, <2>5, StepCases
<1> QED
  BY <1>1, <1>2, LedgerTypeCorrect, PTL DEF Spec

-----------------------------------------------------------------------------
(* The ledger implements the claim lock                                    *)

\* Every step of the store is, seen through the runs it keeps active and the
\* runs it has ended, the acquisition of a free issue, a release, or nothing.
THEOREM LedgerImplementsClaimLock == Spec => ImplementsClaimLock
<1> DEFINE Held == {r \in Runs : status[r] \in Active}
           Ended == {r \in Runs : status[r] \in Terminal}
<1>1. Init => Lock!Init
  BY DEF Init, Lock!Init, Active, Terminal
<1>2. TypeOK /\ [Next]_ledgerVars => [Lock!Next]_Lock!lockVars
  <2> SUFFICES ASSUME TypeOK, [Next]_ledgerVars
               PROVE  [Lock!Next]_Lock!lockVars
    OBVIOUS
  <2>1. ASSUME NEW d \in Deliveries, NEW i \in Issues, NEW r \in Runs,
               AcceptDelivery(d, i, r)
        PROVE  Lock!Acquire(r, i)
    <3>1. r \notin Held \cup Ended
      BY <2>1, AcceptEffect DEF Active, Terminal
    <3>2. \A q \in Held : issueOf[q] # i
      BY <2>1 DEF AcceptDelivery, InsertRun, ActiveRuns
    <3>3. Held' = Held \cup {r} /\ Ended' = Ended
      BY <2>1, AcceptEffect DEF Active, Terminal
    <3>4. issueOf' = [issueOf EXCEPT ![r] = i]
      BY <2>1 DEF AcceptDelivery, InsertRun
    <3> QED
      BY <3>1, <3>2, <3>3, <3>4 DEF Lock!Acquire
  <2>2. ASSUME NEW r \in Runs, NEW e \in Event, AppendEvent(r, e),
               e.type = "run.terminal"
        PROVE  Lock!Release(r)
    <3>1. status[r] \in Active /\ status'[r] \in Terminal
      BY <2>2, AppendMoves
    <3>2. r \in Held /\ Held' = Held \ {r} /\ Ended' = Ended \cup {r}
      BY <2>2, <3>1, AppendEffect, StatusesApart
    <3> QED
      BY <2>2, <3>2, AppendEffect DEF Lock!Release
  <2>3. ASSUME NEW r \in Runs, NEW e \in Event, AppendEvent(r, e),
               e.type # "run.terminal"
        PROVE  UNCHANGED Lock!lockVars
    <3>1. status[r] \in Active /\ status'[r] \in Active
      BY <2>3, AppendMoves DEF RunStatus
    <3>2. Held' = Held /\ Ended' = Ended
      BY <2>3, <3>1, AppendEffect, StatusesApart
    <3> QED
      BY <2>3, <3>2, AppendEffect DEF Lock!lockVars
  <2>4. ASSUME UNCHANGED <<issueOf, status>>
        PROVE  UNCHANGED Lock!lockVars
    BY <2>4 DEF Lock!lockVars
  <2> QED
    BY <2>1, <2>2, <2>3, <2>4, StepCases
       DEF Lock!Next, ClaimControlDelivery, AdvanceControlDelivery, ledgerVars
<1> QED
  BY <1>1, <1>2, LedgerTypeCorrect, PTL DEF Spec, ImplementsClaimLock, Lock!Spec

-----------------------------------------------------------------------------
(* The PostgreSQL store: its inductive invariant                           *)

\* What a transaction has found out so far still holds.
AcceptIsSound(c) ==
    /\ txn[c].at \in {"reserve", "holder", "insert", "commit"}
    /\ txn[c].row = Nil
    /\ status[CallOf(c).run] = "none"
    /\ txn[c].at # "reserve" => bound[CallOf(c).delivery] = Nil
    /\ txn[c].at = "commit" => ActiveRuns(CallOf(c).issue) = {}

AppendIsSound(c) ==
    /\ txn[c].at \in {"lock", "event", "commit"}
    /\ txn[c].row = CallOf(c).run
    /\ status[CallOf(c).run] # "none"
    /\ txn[c].at # "lock" => txn[c].seen = status[CallOf(c).run]
    /\ txn[c].at = "commit" => /\ ~EventIsLogged(CallOf(c).run, CallOf(c).event.id)
                               /\ Applies(CallOf(c).event, txn[c].seen)

RetireIsSound(c) ==
    /\ txn[c].at \in {"holder", "lock", "event", "commit"}
    /\ txn[c].at = "holder" <=> txn[c].row = Nil
    /\ txn[c].row # Nil => /\ status[txn[c].row] # "none"
                           /\ issueOf[txn[c].row] = CallOf(c).issue
    /\ txn[c].at \in {"event", "commit"} => txn[c].seen = status[txn[c].row]
    /\ txn[c].at = "commit" => txn[c].seen \in Active \ {"running"}

ClaimIsSound(c) ==
    /\ txn[c].at \in {"lock", "event", "receipt", "commit"}
    /\ txn[c].row = CallOf(c).run
    /\ txn[c].at \in {"lock", "event"} => txn[c].row # Nil
    /\ txn[c].at \in {"receipt", "commit"} /\ txn[c].row # Nil =>
           status[txn[c].row] # "none" /\ issueOf[txn[c].row] = CallOf(c).issue
    /\ txn[c].at = "commit" => receipts[CallOf(c).delivery] = Nil

AdvanceIsSound(c) ==
    /\ txn[c].at \in {"receipt", "commit"}
    /\ txn[c].row = Nil
    /\ txn[c].at = "commit" =>
           /\ receipts[CallOf(c).delivery] # Nil
           /\ receipts[CallOf(c).delivery].issue = CallOf(c).issue
           /\ receipts[CallOf(c).delivery].run = CallOf(c).run
           /\ receipts[CallOf(c).delivery].transition = CallOf(c).transition

TxnIsSound(c) ==
    /\ Serves(c, "accept") => AcceptIsSound(c)
    /\ Serves(c, "append") => AppendIsSound(c)
    /\ Serves(c, "retire") => RetireIsSound(c)
    /\ Serves(c, "claim") => ClaimIsSound(c)
    /\ Serves(c, "advance") => AdvanceIsSound(c)

\* No two transactions hold one lock, and a fresh run identifier is fresh.
LocksApart(c, o) ==
    /\ \A d \in Deliveries : /\ ~(HoldsDelivery(c, d) /\ HoldsDelivery(o, d))
                             /\ ~(HoldsReceipt(c, d) /\ HoldsReceipt(o, d))
    /\ \A i \in Issues : ~(HoldsClaim(c, i) /\ HoldsClaim(o, i))
    /\ \A r \in Runs : ~(HoldsRun(c, r) /\ HoldsRun(o, r))
    /\ Serves(c, "accept") /\ Serves(o, "accept") => CallOf(c).run # CallOf(o).run

\* A retired run has ended, so no event of a run in flight is a retirement's.
RetiredIsEnded ==
    \A r \in Runs : EventIsLogged(r, RetireId) => status[r] \in Terminal

PgInv ==
    /\ TypeOK /\ PgTypeOK
    /\ RetiredIsEnded
    /\ \A c \in Clients : TxnIsSound(c)
    /\ \A c, o \in Clients : c # o => LocksApart(c, o)

-----------------------------------------------------------------------------
(* What a call carries, and what a step changes of a transaction           *)

\* The fields of a call, by the operation it asks for.
LEMMA CallFields ==
    ASSUME NEW a \in Calls
    PROVE  /\ a.op \in {"accept", "append", "retire", "claim", "advance"}
           /\ a.op = "accept" => /\ a.delivery \in Deliveries /\ a.issue \in Issues
                                 /\ a.run \in Runs
           /\ a.op = "append" => a.run \in Runs /\ a.event \in PgEvents
           /\ a.op = "retire" => a.issue \in Issues
           /\ a.op \in {"claim", "advance"} =>
                 /\ a.delivery \in Deliveries /\ a.issue \in Issues
                 /\ a.transition \in {"abort", "resume"} /\ a.run \in Runs \cup {Nil}
           /\ a.op = "advance" => /\ a.sent \in BOOLEAN /\ a.done \in BOOLEAN
                                  /\ a.sent \/ a.done
                                  /\ a.sent => a.transition = "resume"
BY DEF Calls

\* An open transaction is one, and NoTxn is none.
LEMMA TxnFields ==
    ASSUME PgTypeOK, NEW c \in Clients, ~Before(c, "idle")
    PROVE  /\ txn[c] \in Transaction /\ CallOf(c) \in Calls
           /\ txn[c].row \in Runs \cup {Nil}
<1>1. txn[c] \in Transaction \cup {NoTxn}
  BY DEF PgTypeOK
<1>2. txn[c] # NoTxn
  BY DEF Before, NoTxn
<1> QED
  BY <1>1, <1>2 DEF Transaction, CallOf

Statements == {"reserve", "holder", "insert", "lock", "event", "receipt", "commit"}

\* Going on with a transaction changes its place and nothing else.
LEMMA ProceedEffect ==
    ASSUME PgTypeOK, NEW c \in Clients, ~Before(c, "idle"),
           NEW s \in Statements, Proceed(c, s)
    PROVE  /\ PgTypeOK'
           /\ txn'[c].at = s /\ txn'[c].call = txn[c].call
           /\ txn'[c].row = txn[c].row /\ txn'[c].seen = txn[c].seen
           /\ \A o \in OtherClients(c) : txn'[o] = txn[o]
<1> DEFINE x == [txn[c] EXCEPT !.at = s]
<1>1. txn[c] \in Transaction
  BY TxnFields
<1>2. /\ x \in Transaction /\ x.at = s /\ x.call = txn[c].call
      /\ x.row = txn[c].row /\ x.seen = txn[c].seen
  BY <1>1 DEF Transaction, Statements
<1>3. txn' = [txn EXCEPT ![c] = x]
  BY DEF Proceed
<1> HIDE DEF x
<1> QED
  BY <1>2, <1>3 DEF PgTypeOK, OtherClients

\* Opening or closing a transaction leaves the others alone.
LEMMA PlaceEffect ==
    ASSUME PgTypeOK, NEW c \in Clients, NEW x \in Transaction \cup {NoTxn},
           txn' = [txn EXCEPT ![c] = x]
    PROVE  /\ PgTypeOK' /\ txn'[c] = x
           /\ \A o \in OtherClients(c) : txn'[o] = txn[o]
BY DEF PgTypeOK, OtherClients

-----------------------------------------------------------------------------
(* Statements that write nothing for others to see                         *)

\* What holds of the other transactions, and between them, goes on holding.
LEMMA QuietStep ==
    ASSUME PgInv, NEW c \in Clients, UNCHANGED ledgerVars, PgTypeOK',
           \A o \in OtherClients(c) : txn'[o] = txn[o],
           TxnIsSound(c)',
           \A o \in OtherClients(c) : LocksApart(c, o)'
    PROVE  PgInv'
<1>1. TypeOK' /\ RetiredIsEnded'
  BY DEF PgInv, TypeOK, RetiredIsEnded, EventIsLogged, ledgerVars
<1>2. ASSUME NEW o \in OtherClients(c)
      PROVE  TxnIsSound(o)'
  <2>1. TxnIsSound(o) /\ txn'[o] = txn[o]
    BY <1>2 DEF PgInv, OtherClients
  <2> QED
    BY <2>1 DEF TxnIsSound, AcceptIsSound, AppendIsSound, RetireIsSound, ClaimIsSound,
                AdvanceIsSound, Serves, Before, CallOf, ActiveRuns, EventIsLogged,
                ledgerVars
<1>3. ASSUME NEW o \in OtherClients(c)
      PROVE  LocksApart(o, c)'
  BY <1>3 DEF LocksApart
<1>4. ASSUME NEW o \in OtherClients(c), NEW p \in OtherClients(c), o # p
      PROVE  LocksApart(o, p)'
  <2>1. LocksApart(o, p) /\ txn'[o] = txn[o] /\ txn'[p] = txn[p]
    BY <1>4 DEF PgInv, OtherClients
  <2> QED
    BY <2>1 DEF LocksApart, HoldsDelivery, HoldsReceipt, HoldsClaim, HoldsRun,
                Serves, Before, CallOf
<1> QED
  BY <1>1, <1>2, <1>3, <1>4 DEF PgInv, OtherClients

\* Ending a transaction, whether refused, replayed or rolled back.
LEMMA QuietEnd ==
    ASSUME PgInv, NEW c \in Clients, UNCHANGED ledgerVars, EndTxn(c)
    PROVE  PgInv'
<1>1. PgTypeOK' /\ txn'[c] = NoTxn /\ \A o \in OtherClients(c) : txn'[o] = txn[o]
  BY PlaceEffect DEF PgInv, EndTxn
<1>2. TxnIsSound(c)'
  BY <1>1 DEF TxnIsSound, Serves, Before, NoTxn
<1>3. \A o \in OtherClients(c) : LocksApart(c, o)'
  BY <1>1 DEF LocksApart, HoldsDelivery, HoldsReceipt, HoldsClaim, HoldsRun,
              Serves, Before, NoTxn
<1> QED
  BY <1>1, <1>2, <1>3, QuietStep

\* A lock that c takes is one that no other transaction holds.
LEMMA LocksTaken ==
    ASSUME NEW c \in Clients, NEW o \in OtherClients(c), LocksApart(c, o),
           txn'[o] = txn[o],
           \A d \in Deliveries : /\ HoldsDelivery(c, d)' =>
                                        HoldsDelivery(c, d) \/ ~HoldsDelivery(o, d)
                                 /\ HoldsReceipt(c, d)' =>
                                        HoldsReceipt(c, d) \/ ~HoldsReceipt(o, d),
           \A i \in Issues : HoldsClaim(c, i)' => HoldsClaim(c, i) \/ ~HoldsClaim(o, i),
           \A r \in Runs : HoldsRun(c, r)' => HoldsRun(c, r) \/ ~HoldsRun(o, r),
           Serves(c, "accept")' /\ Serves(o, "accept") =>
               \/ Serves(c, "accept") /\ txn'[c].call = txn[c].call
               \/ txn'[c].call.run # txn[o].call.run
    PROVE  LocksApart(c, o)'
<1>1. /\ \A d \in Deliveries : /\ HoldsDelivery(o, d)' <=> HoldsDelivery(o, d)
                               /\ HoldsReceipt(o, d)' <=> HoldsReceipt(o, d)
      /\ \A i \in Issues : HoldsClaim(o, i)' <=> HoldsClaim(o, i)
      /\ \A r \in Runs : HoldsRun(o, r)' <=> HoldsRun(o, r)
      /\ Serves(o, "accept")' <=> Serves(o, "accept")
  BY DEF HoldsDelivery, HoldsReceipt, HoldsClaim, HoldsRun, Serves, Before, CallOf
<1> QED
  BY <1>1 DEF LocksApart, CallOf

\* A transaction that is opened holds no lock.
LEMMA QuietBegin ==
    ASSUME PgInv, NEW c \in Clients, Before(c, "idle"), NEW a \in Calls,
           NEW s \in Statements, NEW r \in Runs \cup {Nil},
           BeginTxn(c, a, s, r),
           \/ a.op = "accept" /\ s = "reserve" /\ r = Nil /\ IsFresh(a.run)
           \/ a.op = "append" /\ s = "lock" /\ r = a.run /\ status[r] # "none"
           \/ a.op = "retire" /\ s = "holder" /\ r = Nil
           \/ a.op = "claim" /\ s = (IF r = Nil THEN "receipt" ELSE "lock") /\ r = a.run
           \/ a.op = "advance" /\ s = "receipt" /\ r = Nil
    PROVE  PgInv'
<1> DEFINE x == [at |-> s, call |-> a, row |-> r, seen |-> Nil]
<1>1. x \in Transaction /\ txn' = [txn EXCEPT ![c] = x] /\ UNCHANGED ledgerVars
  BY DEF BeginTxn, Transaction, Statements
<1>2. x.at = s /\ x.call = a /\ x.row = r /\ x.at # "idle"
  BY DEF Statements
<1> HIDE DEF x
<1>3. PgTypeOK' /\ txn'[c] = x /\ \A o \in OtherClients(c) : txn'[o] = txn[o]
  BY <1>1, PlaceEffect DEF PgInv
<1>4. Nil \notin Runs
  BY LedgerAssumption
<1>5. TxnIsSound(c)'
  BY <1>1, <1>2, <1>3, <1>4 DEF TxnIsSound, AcceptIsSound, AppendIsSound,
     RetireIsSound, ClaimIsSound, AdvanceIsSound, Serves, Before, CallOf, IsFresh,
     ledgerVars
<1>6. ASSUME NEW o \in OtherClients(c)
      PROVE  LocksApart(c, o)'
  <2>1. LocksApart(c, o)
    BY <1>6 DEF PgInv, OtherClients
  <2>2. /\ \A d \in Deliveries : ~HoldsDelivery(c, d)' /\ ~HoldsReceipt(c, d)'
        /\ \A i \in Issues : ~HoldsClaim(c, i)'
        /\ \A q \in Runs : ~HoldsRun(c, q)'
    BY <1>2, <1>3, <1>4 DEF HoldsDelivery, HoldsReceipt, HoldsClaim, HoldsRun, Serves,
       Before, CallOf
  <2>3. Serves(c, "accept")' /\ Serves(o, "accept") =>
            txn'[c].call.run # txn[o].call.run
    BY <1>2, <1>3, <1>6 DEF Serves, Before, CallOf, IsFresh, OtherClients
  <2> QED
    BY <1>3, <1>6, <2>1, <2>2, <2>3, LocksTaken
<1> QED
  BY <1>1, <1>3, <1>5, <1>6, QuietStep

\* Every call is opened that way.
LEMMA StartKeepsInv ==
    ASSUME PgInv, NEW c \in Clients, PgStart(c)
    PROVE  PgInv'
<1>0. Before(c, "idle")
  BY DEF PgStart
<1>1. ASSUME NEW d \in Arriving, NEW i \in Issues, NEW r \in Runs, BeginAccept(c, d, i, r)
      PROVE  PgInv'
  <2>1. [op |-> "accept", delivery |-> d, issue |-> i, run |-> r] \in Calls
    BY <1>1 DEF Calls, Arriving
  <2> QED
    BY <1>0, <1>1, <2>1, QuietBegin DEF BeginAccept, Statements
<1>2. ASSUME NEW r \in Runs, NEW e \in PgEvents, BeginAppend(c, r, e)
      PROVE  PgInv'
  <2>1. [op |-> "append", run |-> r, event |-> e] \in Calls
    BY <1>2 DEF Calls
  <2> QED
    BY <1>0, <1>2, <2>1, QuietBegin DEF BeginAppend, Statements
<1>3. ASSUME NEW i \in Issues, BeginRetire(c, i)
      PROVE  PgInv'
  <2>1. [op |-> "retire", issue |-> i] \in Calls
    BY <1>3 DEF Calls
  <2> QED
    BY <1>0, <1>3, <2>1, QuietBegin DEF BeginRetire, Statements
<1>4. ASSUME NEW d \in Arriving, NEW i \in Issues, NEW t \in {"abort", "resume"},
             NEW r \in Runs \cup {Nil}, BeginClaim(c, d, i, t, r)
      PROVE  PgInv'
  <2>1. [op |-> "claim", delivery |-> d, issue |-> i, transition |-> t, run |-> r]
            \in Calls
    BY <1>4 DEF Calls, Arriving
  <2> QED
    BY <1>0, <1>4, <2>1, QuietBegin DEF BeginClaim, Statements
<1>5. ASSUME NEW d \in Arriving, NEW i \in Issues, NEW t \in {"abort", "resume"},
             NEW r \in Runs \cup {Nil}, NEW sent \in BOOLEAN, NEW done \in BOOLEAN,
             BeginAdvance(c, d, i, t, r, sent, done)
      PROVE  PgInv'
  <2>1. [op |-> "advance", delivery |-> d, issue |-> i, transition |-> t, run |-> r,
         sent |-> sent, done |-> done] \in Calls
    BY <1>5 DEF Calls, Arriving, BeginAdvance
  <2> QED
    BY <1>0, <1>5, <2>1, QuietBegin DEF BeginAdvance, Statements
<1> QED
  BY <1>1, <1>2, <1>3, <1>4, <1>5 DEF PgStart

\* Going on with a transaction: it is sound where it gets to, and what it
\* holds there that it did not hold before is held by no other.
LEMMA QuietProceed ==
    ASSUME PgInv, NEW c \in Clients, ~Before(c, "idle"), UNCHANGED ledgerVars,
           NEW s \in Statements, Proceed(c, s),
           TxnIsSound(c)',
           \A o \in OtherClients(c) :
               /\ \A d \in Deliveries : /\ HoldsDelivery(c, d)' =>
                                               HoldsDelivery(c, d) \/ ~HoldsDelivery(o, d)
                                        /\ HoldsReceipt(c, d)' =>
                                               HoldsReceipt(c, d) \/ ~HoldsReceipt(o, d)
               /\ \A i \in Issues :
                      HoldsClaim(c, i)' => HoldsClaim(c, i) \/ ~HoldsClaim(o, i)
               /\ \A r \in Runs : HoldsRun(c, r)' => HoldsRun(c, r) \/ ~HoldsRun(o, r)
    PROVE  PgInv'
<1>1. /\ PgTypeOK' /\ txn'[c].at = s /\ txn'[c].call = txn[c].call
      /\ \A o \in OtherClients(c) : txn'[o] = txn[o]
  BY ProceedEffect DEF PgInv
<1>2. Serves(c, "accept")' => Serves(c, "accept")
  BY <1>1 DEF Serves, CallOf
<1>3. ASSUME NEW o \in OtherClients(c)
      PROVE  LocksApart(c, o)'
  <2>1. LocksApart(c, o)
    BY <1>3 DEF PgInv, OtherClients
  <2> QED
    BY <1>1, <1>2, <1>3, <2>1, LocksTaken
<1> QED
  BY <1>1, <1>3, QuietStep

\* The delivery's row is reserved when no other transaction has it.
LEMMA ReserveKeepsInv ==
    ASSUME PgInv, NEW c \in Clients, Reserve(c)
    PROVE  PgInv'
<1>1. CASE bound[CallOf(c).delivery] # Nil
  BY <1>1, QuietEnd DEF Reserve
<1>2. CASE bound[CallOf(c).delivery] = Nil
  <2>1. /\ Before(c, "reserve") /\ ~Before(c, "idle") /\ UNCHANGED ledgerVars
        /\ Proceed(c, "holder") /\ "holder" \in Statements
        /\ \A o \in OtherClients(c) : ~HoldsDelivery(o, CallOf(c).delivery)
    BY <1>2 DEF Reserve, Before, Statements
  <2>2. /\ txn'[c].at = "holder" /\ txn'[c].call = txn[c].call /\ txn'[c].row = txn[c].row
    BY <2>1, ProceedEffect DEF PgInv
  <2>3. TxnIsSound(c) /\ CallOf(c) \in Calls
    BY <2>1, TxnFields DEF PgInv
  <2>4. CallOf(c).op = "accept" /\ AcceptIsSound(c)
    BY <2>1, <2>3, CallFields DEF TxnIsSound, Serves, Before, AppendIsSound,
       RetireIsSound, ClaimIsSound, AdvanceIsSound
  <2>5. TxnIsSound(c)'
    BY <1>2, <2>1, <2>2, <2>4 DEF TxnIsSound, AcceptIsSound, Serves, CallOf, ledgerVars
  <2>6. /\ \A d \in Deliveries : /\ HoldsDelivery(c, d)' => d = CallOf(c).delivery
                                 /\ ~HoldsReceipt(c, d)'
        /\ \A i \in Issues : ~HoldsClaim(c, i)'
        /\ \A r \in Runs : ~HoldsRun(c, r)'
    BY <2>2, <2>4, LedgerAssumption DEF HoldsDelivery, HoldsReceipt, HoldsClaim,
       HoldsRun, Serves, Before, CallOf, AcceptIsSound
  <2> QED
    BY <2>1, <2>5, <2>6, QuietProceed
<1> QED
  BY <1>1, <1>2

\* The holder is looked up with no lock taken.
LEMMA ReadHolderKeepsInv ==
    ASSUME PgInv, NEW c \in Clients, ReadHolder(c)
    PROVE  PgInv'
<1>1. CASE ActiveRuns(CallOf(c).issue) # {}
  BY <1>1, QuietEnd DEF ReadHolder
<1>2. CASE ActiveRuns(CallOf(c).issue) = {}
  <2>1. /\ Before(c, "holder") /\ ~Before(c, "idle") /\ UNCHANGED ledgerVars
        /\ Proceed(c, "insert") /\ "insert" \in Statements /\ CallOf(c).op = "accept"
    BY <1>2 DEF ReadHolder, Before, Statements, Serves
  <2>2. /\ txn'[c].at = "insert" /\ txn'[c].call = txn[c].call /\ txn'[c].row = txn[c].row
    BY <2>1, ProceedEffect DEF PgInv
  <2>3. AcceptIsSound(c)
    BY <2>1 DEF PgInv, TxnIsSound, Serves
  <2>4. TxnIsSound(c)'
    BY <2>1, <2>2, <2>3 DEF TxnIsSound, AcceptIsSound, Serves, Before, CallOf, ledgerVars
  <2>5. /\ \A d \in Deliveries : /\ HoldsDelivery(c, d)' => HoldsDelivery(c, d)
                                 /\ ~HoldsReceipt(c, d)'
        /\ \A i \in Issues : ~HoldsClaim(c, i)'
        /\ \A r \in Runs : ~HoldsRun(c, r)'
    BY <2>1, <2>2, <2>3, LedgerAssumption DEF HoldsDelivery, HoldsReceipt, HoldsClaim,
       HoldsRun, Serves, Before, CallOf, AcceptIsSound
  <2> QED
    BY <2>1, <2>4, <2>5, QuietProceed
<1> QED
  BY <1>1, <1>2

\* The insert takes the entry of the unique index, and finds no active run.
LEMMA InsertSummaryKeepsInv ==
    ASSUME PgInv, NEW c \in Clients, InsertSummary(c)
    PROVE  PgInv'
<1>1. CASE ActiveRuns(CallOf(c).issue) # {}
  BY <1>1, QuietEnd DEF InsertSummary
<1>2. CASE ActiveRuns(CallOf(c).issue) = {}
  <2>1. /\ Before(c, "insert") /\ ~Before(c, "idle") /\ UNCHANGED ledgerVars
        /\ Proceed(c, "commit") /\ "commit" \in Statements
        /\ \A o \in OtherClients(c) : ~HoldsClaim(o, CallOf(c).issue)
    BY <1>2 DEF InsertSummary, Before, Statements
  <2>2. /\ txn'[c].at = "commit" /\ txn'[c].call = txn[c].call /\ txn'[c].row = txn[c].row
    BY <2>1, ProceedEffect DEF PgInv
  <2>3. TxnIsSound(c) /\ CallOf(c) \in Calls
    BY <2>1, TxnFields DEF PgInv
  <2>4. CallOf(c).op = "accept" /\ AcceptIsSound(c)
    BY <2>1, <2>3, CallFields DEF TxnIsSound, Serves, Before, AppendIsSound,
       RetireIsSound, ClaimIsSound, AdvanceIsSound
  <2>5. TxnIsSound(c)'
    BY <1>2, <2>1, <2>2, <2>4 DEF TxnIsSound, AcceptIsSound, Serves, Before, CallOf,
       ActiveRuns, ledgerVars
  <2>6. /\ \A d \in Deliveries : /\ HoldsDelivery(c, d)' => HoldsDelivery(c, d)
                                 /\ ~HoldsReceipt(c, d)'
        /\ \A i \in Issues : HoldsClaim(c, i)' => i = CallOf(c).issue
        /\ \A r \in Runs : ~HoldsRun(c, r)'
    BY <2>1, <2>2, <2>4, LedgerAssumption DEF HoldsDelivery, HoldsReceipt, HoldsClaim,
       HoldsRun, Serves, Before, CallOf, AcceptIsSound
  <2> QED
    BY <2>1, <2>5, <2>6, QuietProceed
<1> QED
  BY <1>1, <1>2

\* The holder a retirement finds is a run of the issue, not yet locked.
LEMMA FindHolderKeepsInv ==
    ASSUME PgInv, NEW c \in Clients, FindHolder(c)
    PROVE  PgInv'
<1>1. CASE EndTxn(c)
  BY <1>1, QuietEnd DEF FindHolder
<1>2. ASSUME NEW r \in ActiveRuns(CallOf(c).issue),
             txn' = [txn EXCEPT ![c].at = "lock", ![c].row = r]
      PROVE  PgInv'
  <2> DEFINE x == [txn[c] EXCEPT !.at = "lock", !.row = r]
  <2>1. /\ ~Before(c, "idle") /\ UNCHANGED ledgerVars /\ CallOf(c).op = "retire"
        /\ r \in Runs /\ status[r] # "none" /\ issueOf[r] = CallOf(c).issue
    BY <1>2 DEF FindHolder, Before, Serves, ActiveRuns, Active
  <2>2. txn[c] \in Transaction
    BY <2>1, TxnFields DEF PgInv
  <2>3. x \in Transaction /\ x.at = "lock" /\ x.call = txn[c].call /\ x.row = r
    BY <2>1, <2>2 DEF Transaction
  <2>4. txn' = [txn EXCEPT ![c] = x]
    BY <1>2
  <2> HIDE DEF x
  <2>5. /\ PgTypeOK' /\ txn'[c] = x
        /\ \A o \in OtherClients(c) : txn'[o] = txn[o]
    BY <2>3, <2>4, PlaceEffect DEF PgInv
  <2>6. TxnIsSound(c)'
    BY <2>1, <2>3, <2>5, LedgerAssumption DEF TxnIsSound, RetireIsSound, Serves, Before,
       CallOf, ledgerVars
  <2>7. /\ \A d \in Deliveries : ~HoldsDelivery(c, d)' /\ ~HoldsReceipt(c, d)'
        /\ \A i \in Issues : ~HoldsClaim(c, i)'
        /\ \A q \in Runs : ~HoldsRun(c, q)'
        /\ ~Serves(c, "accept")'
    BY <2>1, <2>3, <2>5 DEF HoldsDelivery, HoldsReceipt, HoldsClaim, HoldsRun, Serves,
       Before, CallOf
  <2>8. \A o \in OtherClients(c) : LocksApart(c, o)'
    BY <2>7 DEF LocksApart
  <2> QED
    BY <2>1, <2>5, <2>6, <2>8, QuietStep
<1> QED
  BY <1>1, <1>2 DEF FindHolder

\* The row is locked when no other transaction has it, and read as it is then.
LEMMA LockRunKeepsInv ==
    ASSUME PgInv, NEW c \in Clients, LockRun(c)
    PROVE  PgInv'
<1> DEFINE x == [txn[c] EXCEPT !.at = "event", !.seen = status[txn[c].row]]
<1>1. /\ Before(c, "lock") /\ ~Before(c, "idle") /\ UNCHANGED ledgerVars
      /\ \A o \in OtherClients(c) : ~HoldsRun(o, txn[c].row)
  BY DEF LockRun, Before
<1>2. txn[c] \in Transaction /\ CallOf(c) \in Calls /\ TxnIsSound(c)
  BY <1>1, TxnFields DEF PgInv
<1>3. /\ CallOf(c).op \in {"append", "retire", "claim"} /\ txn[c].row \in Runs
      /\ CallOf(c).op = "append" => AppendIsSound(c)
      /\ CallOf(c).op = "retire" => RetireIsSound(c)
      /\ CallOf(c).op = "claim" => ClaimIsSound(c)
  BY <1>1, <1>2, CallFields, LedgerAssumption DEF TxnIsSound, Serves, Before, AcceptIsSound,
     AdvanceIsSound, AppendIsSound, RetireIsSound, ClaimIsSound, Transaction, CallOf
<1>4. status[txn[c].row] \in RunStatus \cup {"none", Nil}
  BY <1>3 DEF PgInv, TypeOK
<1>5. /\ x \in Transaction /\ x.at = "event" /\ x.call = txn[c].call /\ x.row = txn[c].row
      /\ x.seen = status[txn[c].row]
  BY <1>2, <1>4 DEF Transaction
<1>6. txn' = [txn EXCEPT ![c] = x]
  BY DEF LockRun
<1> HIDE DEF x
<1>7. PgTypeOK' /\ txn'[c] = x /\ \A o \in OtherClients(c) : txn'[o] = txn[o]
  BY <1>5, <1>6, PlaceEffect DEF PgInv
<1>8. TxnIsSound(c)'
  BY <1>1, <1>3, <1>5, <1>7, LedgerAssumption DEF TxnIsSound, AppendIsSound,
     RetireIsSound, ClaimIsSound, Serves, Before, CallOf, ledgerVars
<1>9. ASSUME NEW o \in OtherClients(c)
      PROVE  LocksApart(c, o)'
  <2>1. LocksApart(c, o) /\ txn'[o] = txn[o]
    BY <1>7, <1>9 DEF PgInv, OtherClients
  <2>2. /\ \A d \in Deliveries : ~HoldsDelivery(c, d)' /\ ~HoldsReceipt(c, d)'
        /\ \A i \in Issues : ~HoldsClaim(c, i)'
        /\ \A r \in Runs : HoldsRun(c, r)' => ~HoldsRun(o, r)
        /\ ~Serves(c, "accept")'
    BY <1>1, <1>3, <1>5, <1>7, <1>9 DEF HoldsDelivery, HoldsReceipt, HoldsClaim, HoldsRun,
       Serves, Before, CallOf
  <2> QED
    BY <1>9, <2>1, <2>2, LocksTaken
<1> QED
  BY <1>1, <1>7, <1>8, <1>9, QuietStep

\* From the locked row on nothing more is locked, up to a receipt.
LEMMA LocksKept ==
    ASSUME PgInv, NEW c \in Clients, ~Before(c, "idle"), ~Before(c, "lock"),
           NEW s \in Statements, Proceed(c, s), CallOf(c).op # "accept",
           s = "commit" => CallOf(c).op \in {"append", "retire"}
    PROVE  /\ \A d \in Deliveries : ~HoldsDelivery(c, d)' /\ ~HoldsReceipt(c, d)'
           /\ \A i \in Issues : ~HoldsClaim(c, i)'
           /\ \A r \in Runs : HoldsRun(c, r)' => HoldsRun(c, r)
BY ProceedEffect DEF PgInv, HoldsDelivery, HoldsReceipt, HoldsClaim, HoldsRun, Serves,
   Before, CallOf

\* The event was looked for, and found to apply, in the row that is locked.
LEMMA CheckEventKeepsInv ==
    ASSUME PgInv, NEW c \in Clients, CheckEvent(c)
    PROVE  PgInv'
<1>1. CASE EndTxn(c)
  BY <1>1, QuietEnd DEF CheckEvent
<1>2. CASE Proceed(c, "commit") /\ ~EventIsLogged(txn[c].row, EventOf(c).id)
           /\ Applies(EventOf(c), txn[c].seen)
  <2>1. /\ Before(c, "event") /\ ~Before(c, "idle") /\ ~Before(c, "lock")
        /\ UNCHANGED ledgerVars /\ "commit" \in Statements
        /\ CallOf(c).op = "append" /\ EventOf(c) = CallOf(c).event
    BY DEF CheckEvent, Before, Statements, Serves, EventOf
  <2>2. /\ txn'[c].at = "commit" /\ txn'[c].call = txn[c].call
        /\ txn'[c].row = txn[c].row /\ txn'[c].seen = txn[c].seen
    BY <1>2, <2>1, ProceedEffect DEF PgInv
  <2>3. AppendIsSound(c)
    BY <2>1 DEF PgInv, TxnIsSound, Serves
  <2>4. TxnIsSound(c)'
    BY <1>2, <2>1, <2>2, <2>3 DEF TxnIsSound, AppendIsSound, Serves, Before, CallOf,
       EventIsLogged, ledgerVars
  <2> QED
    BY <1>2, <2>1, <2>4, LocksKept, QuietProceed
<1> QED
  BY <1>1, <1>2 DEF CheckEvent

\* A retirement goes on with a holder in flight that is not running.
LEMMA CheckRetireKeepsInv ==
    ASSUME PgInv, NEW c \in Clients, CheckRetire(c)
    PROVE  PgInv'
<1>1. CASE EndTxn(c)
  BY <1>1, QuietEnd DEF CheckRetire
<1>2. CASE Proceed(c, "commit") /\ txn[c].seen \in Active \ {"running"}
  <2>1. /\ Before(c, "event") /\ ~Before(c, "idle") /\ ~Before(c, "lock")
        /\ UNCHANGED ledgerVars /\ "commit" \in Statements /\ CallOf(c).op = "retire"
    BY DEF CheckRetire, Before, Statements, Serves
  <2>2. /\ txn'[c].at = "commit" /\ txn'[c].call = txn[c].call
        /\ txn'[c].row = txn[c].row /\ txn'[c].seen = txn[c].seen
    BY <1>2, <2>1, ProceedEffect DEF PgInv
  <2>3. RetireIsSound(c)
    BY <2>1 DEF PgInv, TxnIsSound, Serves
  <2>4. TxnIsSound(c)'
    BY <1>2, <2>1, <2>2, <2>3 DEF TxnIsSound, RetireIsSound, Serves, Before, CallOf,
       ledgerVars
  <2> QED
    BY <1>2, <2>1, <2>4, LocksKept, QuietProceed
<1> QED
  BY <1>1, <1>2 DEF CheckRetire

\* The target of a control delivery is a run of its issue.
LEMMA CheckTargetKeepsInv ==
    ASSUME PgInv, NEW c \in Clients, CheckTarget(c)
    PROVE  PgInv'
<1>1. CASE EndTxn(c)
  BY <1>1, QuietEnd DEF CheckTarget
<1>2. CASE /\ Proceed(c, "receipt") /\ status[txn[c].row] # "none"
           /\ issueOf[txn[c].row] = CallOf(c).issue
  <2>1. /\ Before(c, "event") /\ ~Before(c, "idle") /\ ~Before(c, "lock")
        /\ UNCHANGED ledgerVars /\ "receipt" \in Statements /\ CallOf(c).op = "claim"
    BY DEF CheckTarget, Before, Statements, Serves
  <2>2. /\ txn'[c].at = "receipt" /\ txn'[c].call = txn[c].call /\ txn'[c].row = txn[c].row
    BY <1>2, <2>1, ProceedEffect DEF PgInv
  <2>3. ClaimIsSound(c)
    BY <2>1 DEF PgInv, TxnIsSound, Serves
  <2>4. TxnIsSound(c)'
    BY <1>2, <2>1, <2>2, <2>3 DEF TxnIsSound, ClaimIsSound, Serves, Before, CallOf,
       ledgerVars
  <2> QED
    BY <1>2, <2>1, <2>4, LocksKept, QuietProceed
<1> QED
  BY <1>1, <1>2 DEF CheckTarget

\* A receipt is inserted, or locked, when no other transaction has it.
LEMMA ReceiptKeepsInv ==
    ASSUME PgInv, NEW c \in Clients, InsertReceipt(c) \/ LockReceipt(c)
    PROVE  PgInv'
<1>1. CASE EndTxn(c)
  BY <1>1, QuietEnd DEF InsertReceipt, LockReceipt
<1>2. ASSUME Proceed(c, "commit"),
             \/ CallOf(c).op = "claim" /\ receipts[CallOf(c).delivery] = Nil
             \/ /\ CallOf(c).op = "advance"
                /\ receipts[CallOf(c).delivery] # Nil
                /\ receipts[CallOf(c).delivery].issue = CallOf(c).issue
                /\ receipts[CallOf(c).delivery].run = CallOf(c).run
                /\ receipts[CallOf(c).delivery].transition = CallOf(c).transition
      PROVE  PgInv'
  <2>1. /\ Before(c, "receipt") /\ ~Before(c, "idle") /\ UNCHANGED ledgerVars
        /\ "commit" \in Statements
        /\ \A o \in OtherClients(c) : ~HoldsReceipt(o, CallOf(c).delivery)
    BY DEF InsertReceipt, LockReceipt, Before, Statements
  <2>2. /\ txn'[c].at = "commit" /\ txn'[c].call = txn[c].call /\ txn'[c].row = txn[c].row
    BY <1>2, <2>1, ProceedEffect DEF PgInv
  <2>3. /\ CallOf(c).op = "claim" => ClaimIsSound(c)
        /\ CallOf(c).op = "advance" => AdvanceIsSound(c)
    BY <2>1 DEF PgInv, TxnIsSound, Serves
  <2>4. TxnIsSound(c)'
    BY <1>2, <2>1, <2>2, <2>3 DEF TxnIsSound, ClaimIsSound, AdvanceIsSound, Serves,
       Before, CallOf, ledgerVars
  <2>5. /\ \A d \in Deliveries : /\ ~HoldsDelivery(c, d)'
                                 /\ HoldsReceipt(c, d)' => d = CallOf(c).delivery
        /\ \A i \in Issues : ~HoldsClaim(c, i)'
        /\ \A r \in Runs : HoldsRun(c, r)' => HoldsRun(c, r)
    BY <1>2, <2>1, <2>2 DEF HoldsDelivery, HoldsReceipt, HoldsClaim, HoldsRun, Serves,
       Before, CallOf
  <2> QED
    BY <1>2, <2>1, <2>4, <2>5, QuietProceed
<1>3. CASE InsertReceipt(c)
  BY <1>1, <1>2, <1>3 DEF InsertReceipt, Serves
<1>4. CASE LockReceipt(c)
  BY <1>1, <1>2, <1>4 DEF LockReceipt, Serves
<1> QED
  BY <1>3, <1>4

-----------------------------------------------------------------------------
(* A commit is the operation its transaction was opened for                *)

IsCommit(c) == CommitAccept(c) \/ CommitEvent(c) \/ CommitReceipt(c)

\* An accepted delivery is unbound still, its issue free and its run new.
LEMMA AcceptCommits ==
    ASSUME PgInv, NEW c \in Clients, CommitAccept(c)
    PROVE  AcceptDelivery(CallOf(c).delivery, CallOf(c).issue, CallOf(c).run)
<1>1. AcceptIsSound(c) /\ Before(c, "commit")
  BY DEF PgInv, TxnIsSound, CommitAccept
<1> QED
  BY <1>1 DEF AcceptIsSound, Before, CommitAccept, AcceptDelivery

\* The event an append or a retirement commits applies to the row as it is.
LEMMA EventCommits ==
    ASSUME PgInv, NEW c \in Clients, CommitEvent(c)
    PROVE  /\ txn[c].row \in Runs /\ EventOf(c) \in Event
           /\ AppendEvent(txn[c].row, EventOf(c))
           /\ Serves(c, "append") => txn[c].row = CallOf(c).run
           /\ Serves(c, "retire") => /\ txn[c].row \in ActiveRuns(CallOf(c).issue)
                                     /\ status[txn[c].row] # "running"
<1>1. Before(c, "commit") /\ ~Before(c, "idle") /\ CallOf(c) \in Calls
  BY TxnFields DEF CommitEvent, Before, PgInv
<1>2. CASE Serves(c, "append")
  <2>1. /\ AppendIsSound(c) /\ EventOf(c) = CallOf(c).event
        /\ CallOf(c).run \in Runs /\ EventOf(c) \in Event /\ ~Serves(c, "retire")
    BY <1>1, <1>2, CallFields, PgAssumption DEF PgInv, TxnIsSound, EventOf, Serves
  <2>2. txn[c].row = CallOf(c).run /\ txn[c].seen = status[CallOf(c).run]
    BY <1>1, <2>1 DEF AppendIsSound, Before
  <2>3. AppendEvent(CallOf(c).run, EventOf(c))
    <3>1. /\ log' = [log EXCEPT ![CallOf(c).run] = @ \cup {EventOf(c)}]
          /\ status' = [status EXCEPT ![CallOf(c).run] =
                            StatusAfter(EventOf(c), status[CallOf(c).run])]
          /\ UNCHANGED <<issueOf, bound, receipts>>
      BY <2>2 DEF CommitEvent
    <3>2. /\ status[CallOf(c).run] # "none" /\ Applies(EventOf(c), status[CallOf(c).run])
          /\ ~EventIsLogged(CallOf(c).run, EventOf(c).id)
      BY <1>1, <2>1, <2>2 DEF AppendIsSound, Before
    <3> QED
      BY <3>1, <3>2 DEF AppendEvent
  <2> QED
    BY <2>1, <2>2, <2>3
<1>3. CASE Serves(c, "retire")
  <2> DEFINE r == txn[c].row
             e == [id |-> RetireId, type |-> "run.terminal", status |-> "aborted"]
  <2>1. RetireIsSound(c) /\ EventOf(c) = e /\ ~Serves(c, "append")
    BY <1>1, <1>3 DEF PgInv, TxnIsSound, EventOf, Serves
  <2>2. /\ r \in Runs /\ r # Nil /\ issueOf[r] = CallOf(c).issue
        /\ txn[c].seen = status[r] /\ status[r] \in Active /\ status[r] # "running"
    BY <1>1, <2>1, TxnFields DEF RetireIsSound, Before, PgInv
  <2>3. e \in Event
    BY LedgerAssumption DEF Event, WellFormed, EventTypes, RunStatus, Terminal
  <2>4. Applies(e, status[r])
    <3>1. StatusAfter(e, status[r]) = "aborted"
      BY LedgerAssumption DEF StatusAfter
    <3> QED
      BY <2>2, <3>1, StatusesApart DEF Applies
  <2>5. ~EventIsLogged(r, e.id) /\ status[r] # "none"
    BY <2>2, StatusesApart DEF PgInv, RetiredIsEnded, RunStatus
  <2>6. /\ log' = [log EXCEPT ![r] = @ \cup {e}]
        /\ status' = [status EXCEPT ![r] = StatusAfter(e, status[r])]
        /\ UNCHANGED <<issueOf, bound, receipts>>
    BY <2>1, <2>2 DEF CommitEvent
  <2>7. AppendEvent(r, e)
    BY <2>4, <2>5, <2>6 DEF AppendEvent
  <2> QED
    BY <2>1, <2>2, <2>3, <2>7 DEF ActiveRuns
<1> QED
  BY <1>2, <1>3 DEF CommitEvent

\* A receipt is new still, or the claimed one.
LEMMA ReceiptCommits ==
    ASSUME PgInv, NEW c \in Clients, CommitReceipt(c)
    PROVE  LET a == CallOf(c) IN
           \/ /\ a.op = "claim"
              /\ ClaimControlDelivery(a.delivery, a.issue, a.transition, a.run)
           \/ /\ a.op = "advance"
              /\ AdvanceControlDelivery(a.delivery, a.issue, a.transition, a.run,
                                        a.sent, a.done)
<1> DEFINE a == CallOf(c)
<1>1. Before(c, "commit") /\ ~Before(c, "idle") /\ a \in Calls
  BY TxnFields DEF CommitReceipt, Before, PgInv
<1>2. CASE Serves(c, "claim")
  <2>1. ClaimIsSound(c) /\ a.op = "claim" /\ ~Serves(c, "advance")
    BY <1>2 DEF PgInv, TxnIsSound, Serves
  <2>2. receipts[a.delivery] = Nil
    BY <1>1, <2>1 DEF ClaimIsSound, Before
  <2>3. a.run # Nil => status[a.run] # "none" /\ issueOf[a.run] = a.issue
    BY <1>1, <2>1 DEF ClaimIsSound, Before
  <2> QED
    BY <2>1, <2>2, <2>3 DEF CommitReceipt, ClaimControlDelivery
<1>3. CASE Serves(c, "advance")
  <2>1. AdvanceIsSound(c) /\ a.op = "advance" /\ ~Serves(c, "claim")
    BY <1>3 DEF PgInv, TxnIsSound, Serves
  <2>2. /\ receipts[a.delivery] # Nil /\ receipts[a.delivery].issue = a.issue
        /\ receipts[a.delivery].run = a.run
        /\ receipts[a.delivery].transition = a.transition
    BY <1>1, <2>1 DEF AdvanceIsSound, Before
  <2>3. (a.sent \/ a.done) /\ (a.sent => a.transition = "resume")
    BY <1>1, <2>1, CallFields
  <2> QED
    BY <2>1, <2>2, <2>3 DEF CommitReceipt, AdvanceControlDelivery
<1> QED
  BY <1>2, <1>3 DEF CommitReceipt

\* Each commit is the call's operation, and that is a step of the ledger.
LEMMA CommitIsOperation ==
    ASSUME PgInv, NEW c \in Clients, IsCommit(c)
    PROVE  ~Before(c, "idle") /\ Operation(CallOf(c)) /\ Next
<1>1. ~Before(c, "idle") /\ CallOf(c) \in Calls
  BY TxnFields DEF IsCommit, CommitAccept, CommitEvent, CommitReceipt, Before, PgInv
<1>2. CASE CommitAccept(c)
  <2>1. CallOf(c).op = "accept"
    BY <1>2 DEF CommitAccept, Serves
  <2> QED
    BY <1>1, <1>2, <2>1, AcceptCommits, CallFields DEF Operation, Next
<1>3. CASE CommitEvent(c) /\ Serves(c, "append")
  <2>1. CallOf(c).op = "append" /\ EventOf(c) = CallOf(c).event
    BY <1>3 DEF Serves, EventOf
  <2>2. AppendEvent(CallOf(c).run, CallOf(c).event) /\ CallOf(c).event \in Event
    BY <1>3, <2>1, EventCommits
  <2> QED
    BY <1>1, <2>1, <2>2, CallFields DEF Operation, Next
<1>4. CASE CommitEvent(c) /\ Serves(c, "retire")
  <2>1. /\ CallOf(c).op = "retire"
        /\ EventOf(c) = [id |-> RetireId, type |-> "run.terminal", status |-> "aborted"]
    BY <1>4 DEF Serves, EventOf
  <2>2. RetireRunClaim(CallOf(c).issue)
    BY <1>4, <2>1, EventCommits DEF RetireRunClaim
  <2> QED
    BY <1>1, <2>1, <2>2, CallFields DEF Operation, Next
<1>5. CASE CommitReceipt(c)
  BY <1>1, <1>5, ReceiptCommits, CallFields DEF Operation, Next
<1> QED
  BY <1>2, <1>3, <1>4, <1>5 DEF IsCommit, CommitEvent

-----------------------------------------------------------------------------
(* A commit leaves every other transaction sound                           *)

\* What holds of a transaction that another's acceptance does not touch.
LEMMA AcceptSparesOthers ==
    ASSUME PgInv, NEW c \in Clients, CommitAccept(c), NEW o \in OtherClients(c),
           txn'[o] = txn[o]
    PROVE  TxnIsSound(o)'
<1> DEFINE a == CallOf(c)
           b == CallOf(o)
<1>1. /\ AcceptIsSound(c) /\ Before(c, "commit") /\ Serves(c, "accept")
      /\ TxnIsSound(o) /\ LocksApart(c, o)
  BY DEF PgInv, TxnIsSound, CommitAccept, OtherClients
<1>2. a \in Calls /\ a.op = "accept" /\ ~Before(c, "idle")
  BY <1>1, TxnFields DEF PgInv, Serves
<1>3. a.delivery \in Deliveries /\ a.issue \in Issues /\ a.run \in Runs
  BY <1>2, CallFields
<1>4. /\ status[a.run] = "none" /\ status'[a.run] = "queued" /\ issueOf'[a.run] = a.issue
      /\ \A q \in Runs \ {a.run} : /\ status'[q] = status[q] /\ issueOf'[q] = issueOf[q]
                                   /\ log'[q] = log[q]
  BY <1>3, AcceptCommits, AcceptEffect DEF PgInv
<1>5. /\ \A d \in Deliveries \ {a.delivery} : bound'[d] = bound[d]
      /\ receipts' = receipts
  BY <1>3 DEF CommitAccept, InsertRun, PgInv, TypeOK
<1>6. CASE Before(o, "idle")
  BY <1>6 DEF TxnIsSound, Serves, Before
<1>7. CASE ~Before(o, "idle")
  <2>1. b \in Calls /\ txn[o].row \in Runs \cup {Nil} /\ b' = b
    BY <1>7, TxnFields DEF PgInv, OtherClients, CallOf
  <2>2. CASE b.op = "accept"
    <3>1. AcceptIsSound(o) /\ b.delivery \in Deliveries /\ b.issue \in Issues
          /\ b.run \in Runs
      BY <1>1, <1>7, <2>1, <2>2, CallFields DEF TxnIsSound, Serves
    <3>2. b.run # a.run
      BY <1>1, <1>2, <1>7, <2>2 DEF LocksApart, Serves
    <3>3. txn[o].at # "reserve" => b.delivery # a.delivery
      BY <1>1, <1>2, <1>7, <2>2, <3>1 DEF LocksApart, HoldsDelivery, Serves, Before
    <3>4. txn[o].at = "commit" => b.issue # a.issue
      BY <1>1, <1>2, <1>7, <2>2, <3>1 DEF LocksApart, HoldsClaim, Serves, Before
    <3>5. txn[o].at = "commit" => ActiveRuns(b.issue)' = {}
      BY <1>3, <1>4, <3>1, <3>4 DEF AcceptIsSound, ActiveRuns, CallOf
    <3>6. AcceptIsSound(o)'
      BY <1>3, <1>4, <1>5, <2>1, <3>1, <3>2, <3>3, <3>5 DEF AcceptIsSound, ActiveRuns
    <3> QED
      BY <2>1, <2>2, <3>6 DEF TxnIsSound, Serves
  <2>3. CASE b.op = "append"
    <3>1. AppendIsSound(o) /\ b.run \in Runs /\ b.run # a.run
      BY <1>1, <1>4, <1>7, <2>1, <2>3, CallFields DEF TxnIsSound, Serves, AppendIsSound
    <3>2. AppendIsSound(o)'
      BY <1>4, <2>1, <3>1 DEF AppendIsSound, EventIsLogged
    <3> QED
      BY <2>1, <2>3, <3>2 DEF TxnIsSound, Serves
  <2>4. CASE b.op = "retire"
    <3>1. RetireIsSound(o) /\ (txn[o].row # Nil => txn[o].row \in Runs \ {a.run})
      BY <1>1, <1>4, <1>7, <2>1, <2>4 DEF TxnIsSound, Serves, RetireIsSound
    <3>2. RetireIsSound(o)'
      BY <1>4, <2>1, <3>1 DEF RetireIsSound
    <3> QED
      BY <2>1, <2>4, <3>2 DEF TxnIsSound, Serves
  <2>5. CASE b.op = "claim"
    <3>1. /\ ClaimIsSound(o)
          /\ txn[o].at \in {"receipt", "commit"} /\ txn[o].row # Nil
                 => txn[o].row \in Runs \ {a.run}
      BY <1>1, <1>4, <1>7, <2>1, <2>5 DEF TxnIsSound, Serves, ClaimIsSound
    <3>2. ClaimIsSound(o)'
      BY <1>4, <1>5, <2>1, <3>1 DEF ClaimIsSound
    <3> QED
      BY <2>1, <2>5, <3>2 DEF TxnIsSound, Serves
  <2>6. CASE b.op = "advance"
    <3>1. AdvanceIsSound(o)
      BY <1>1, <1>7, <2>6 DEF TxnIsSound, Serves
    <3>2. AdvanceIsSound(o)'
      BY <1>5, <2>1, <3>1 DEF AdvanceIsSound
    <3> QED
      BY <2>1, <2>6, <3>2 DEF TxnIsSound, Serves
  <2> QED
    BY <2>1, <2>2, <2>3, <2>4, <2>5, <2>6, CallFields
<1> QED
  BY <1>6, <1>7

\* The same of an event: the row it moves is locked by no other.
LEMMA EventSparesOthers ==
    ASSUME PgInv, NEW c \in Clients, CommitEvent(c), NEW o \in OtherClients(c),
           txn'[o] = txn[o]
    PROVE  TxnIsSound(o)'
<1> DEFINE r == txn[c].row
           b == CallOf(o)
<1>1. /\ Before(c, "commit") /\ ~Before(c, "idle") /\ ~Before(c, "lock")
      /\ TxnIsSound(o) /\ LocksApart(c, o)
  BY DEF PgInv, CommitEvent, OtherClients, Before
<1>2. r \in Runs /\ EventOf(c) \in Event /\ AppendEvent(r, EventOf(c)) /\ TypeOK
  BY EventCommits DEF PgInv
<1>3. /\ status[r] \in Active /\ status[r] # "none" /\ status'[r] # "none"
      /\ \A q \in Runs \ {r} : status'[q] = status[q] /\ log'[q] = log[q]
      /\ issueOf' = issueOf /\ UNCHANGED <<bound, receipts>>
  BY <1>2, AppendEffect, AppendMoves, StatusesApart DEF CommitEvent, RunStatus
<1>4. HoldsRun(c, r)
  BY <1>1 DEF HoldsRun
<1>5. CASE Before(o, "idle")
  BY <1>5 DEF TxnIsSound, Serves, Before
<1>6. CASE ~Before(o, "idle")
  <2>1. b \in Calls /\ txn[o].row \in Runs \cup {Nil} /\ b' = b
    BY <1>6, TxnFields DEF PgInv, OtherClients, CallOf
  <2>2. txn[o].at # "lock" => txn[o].row # r
    BY <1>2, <1>1, <1>4, <1>6 DEF LocksApart, HoldsRun, Before
  <2>3. CASE b.op = "accept"
    <3>1. /\ AcceptIsSound(o) /\ b.issue \in Issues /\ b.run \in Runs \ {r}
      BY <1>1, <1>3, <1>6, <2>1, <2>3, CallFields DEF TxnIsSound, Serves, AcceptIsSound
    <3>2. txn[o].at = "commit" => ActiveRuns(b.issue)' = {}
      <4>1. SUFFICES ASSUME txn[o].at = "commit", NEW q \in Runs,
                            status'[q] \in Active, issueOf[q] = b.issue
                     PROVE  FALSE
        BY <1>3, <2>1 DEF ActiveRuns
      <4>2. status[q] \in Active
        BY <1>3, <4>1
      <4> QED
        BY <3>1, <4>1, <4>2 DEF AcceptIsSound, ActiveRuns
    <3>3. AcceptIsSound(o)'
      BY <1>3, <2>1, <3>1, <3>2 DEF AcceptIsSound, ActiveRuns
    <3> QED
      BY <2>1, <2>3, <3>3 DEF TxnIsSound, Serves
  <2>4. CASE b.op = "append"
    <3>1. AppendIsSound(o) /\ b.run \in Runs
      BY <1>1, <1>6, <2>1, <2>4, CallFields DEF TxnIsSound, Serves
    <3>2. status'[b.run] # "none" /\ (txn[o].at # "lock" => b.run # r)
      BY <1>3, <2>2, <3>1 DEF AppendIsSound
    <3>3. AppendIsSound(o)'
      BY <1>3, <2>1, <3>1, <3>2 DEF AppendIsSound, EventIsLogged
    <3> QED
      BY <2>1, <2>4, <3>3 DEF TxnIsSound, Serves
  <2>5. CASE b.op = "retire"
    <3>1. RetireIsSound(o)
      BY <1>1, <1>6, <2>5 DEF TxnIsSound, Serves
    <3>2. txn[o].row # Nil => txn[o].row \in Runs /\ status'[txn[o].row] # "none"
      BY <1>3, <2>1, <3>1 DEF RetireIsSound
    <3>3. txn[o].at \in {"event", "commit"} => txn[o].row \in Runs \ {r}
      BY <2>1, <2>2, <3>1 DEF RetireIsSound
    <3>4. RetireIsSound(o)'
      BY <1>3, <2>1, <3>1, <3>2, <3>3 DEF RetireIsSound
    <3> QED
      BY <2>1, <2>5, <3>4 DEF TxnIsSound, Serves
  <2>6. CASE b.op = "claim"
    <3>1. ClaimIsSound(o)
      BY <1>1, <1>6, <2>6 DEF TxnIsSound, Serves
    <3>2. txn[o].row # Nil /\ status[txn[o].row] # "none" => status'[txn[o].row] # "none"
      BY <1>3, <2>1
    <3>3. ClaimIsSound(o)'
      BY <1>3, <2>1, <3>1, <3>2 DEF ClaimIsSound
    <3> QED
      BY <2>1, <2>6, <3>3 DEF TxnIsSound, Serves
  <2>7. CASE b.op = "advance"
    <3>1. AdvanceIsSound(o)
      BY <1>1, <1>6, <2>7 DEF TxnIsSound, Serves
    <3>2. AdvanceIsSound(o)'
      BY <1>3, <2>1, <3>1 DEF AdvanceIsSound
    <3> QED
      BY <2>1, <2>7, <3>2 DEF TxnIsSound, Serves
  <2> QED
    BY <2>1, <2>3, <2>4, <2>5, <2>6, <2>7, CallFields
<1> QED
  BY <1>5, <1>6

\* And of a receipt, which only a claim or an advance of it could have read.
LEMMA ReceiptSparesOthers ==
    ASSUME PgInv, NEW c \in Clients, CommitReceipt(c), NEW o \in OtherClients(c),
           txn'[o] = txn[o]
    PROVE  TxnIsSound(o)'
<1> DEFINE d == CallOf(c).delivery
           b == CallOf(o)
<1>1. /\ Before(c, "commit") /\ ~Before(c, "idle") /\ CallOf(c) \in Calls
      /\ TxnIsSound(o) /\ LocksApart(c, o)
  BY TxnFields DEF PgInv, CommitReceipt, OtherClients, Before
<1>2. /\ CallOf(c).op \in {"claim", "advance"} /\ d \in Deliveries /\ HoldsReceipt(c, d)
  BY <1>1, CallFields DEF CommitReceipt, HoldsReceipt, Serves
<1>3. /\ \A q \in Deliveries \ {d} : receipts'[q] = receipts[q]
      /\ UNCHANGED <<issueOf, status, log, bound>>
  BY <1>2 DEF CommitReceipt, PgInv, TypeOK
<1>4. CASE Before(o, "idle")
  BY <1>4 DEF TxnIsSound, Serves, Before
<1>5. CASE ~Before(o, "idle")
  <2>1. b \in Calls /\ b' = b
    BY <1>5, TxnFields DEF PgInv, OtherClients, CallOf
  <2>2. CASE b.op \notin {"claim", "advance"}
    BY <1>1, <1>3, <2>1, <2>2 DEF TxnIsSound, Serves, AcceptIsSound, AppendIsSound,
       RetireIsSound, ActiveRuns, EventIsLogged, Before
  <2>3. CASE b.op \in {"claim", "advance"}
    <3>1. b.delivery \in Deliveries
      BY <2>1, <2>3, CallFields
    <3>2. txn[o].at = "commit" => b.delivery # d
      BY <1>1, <1>2, <1>5, <2>3, <3>1 DEF LocksApart, HoldsReceipt, Serves, Before
    <3> QED
      BY <1>1, <1>3, <1>5, <2>1, <2>3, <3>1, <3>2 DEF TxnIsSound, Serves, ClaimIsSound,
         AdvanceIsSound, Before
  <2> QED
    BY <2>2, <2>3
<1> QED
  BY <1>4, <1>5

\* A run ends when it is retired, and an ended run takes no event.
LEMMA RetiredStaysEnded ==
    ASSUME PgInv, NEW c \in Clients, IsCommit(c)
    PROVE  RetiredIsEnded'
<1>1. CASE CommitAccept(c)
  <2>1. /\ ~Before(c, "idle") /\ CallOf(c).op = "accept" /\ CallOf(c) \in Calls
    BY <1>1, TxnFields DEF CommitAccept, Serves, Before, PgInv
  <2>2. PICK d \in Deliveries, i \in Issues, r \in Runs : AcceptDelivery(d, i, r)
    BY <1>1, <2>1, CallFields, AcceptCommits
  <2>3. AcceptedId(d) # RetireId
    BY DEF AcceptedId, RetireId
  <2> QED
    BY <2>2, <2>3, AcceptEffect DEF PgInv, RetiredIsEnded, EventIsLogged
<1>2. CASE CommitEvent(c)
  <2> DEFINE r == txn[c].row
             e == EventOf(c)
  <2>1. r \in Runs /\ e \in Event /\ AppendEvent(r, e) /\ TypeOK
    BY <1>2, EventCommits DEF PgInv
  <2>2. /\ status[r] \notin Terminal /\ log'[r] = log[r] \cup {e}
        /\ status'[r] \in Terminal <=> e.type = "run.terminal"
        /\ \A q \in Runs \ {r} : status'[q] = status[q] /\ log'[q] = log[q]
    BY <2>1, AppendEffect, AppendMoves
  <2>3. e.id = RetireId => e.type = "run.terminal"
    <3>1. ~Before(c, "idle") /\ CallOf(c) \in Calls
      BY <1>2, TxnFields DEF PgInv, CommitEvent, Before
    <3>2. CASE Serves(c, "append")
      BY <3>1, <3>2, CallFields, PgAssumption DEF EventOf, Serves
    <3>3. CASE ~Serves(c, "append")
      BY <3>3 DEF EventOf
    <3> QED
      BY <3>2, <3>3
  <2> QED
    BY <2>1, <2>2, <2>3 DEF PgInv, RetiredIsEnded, EventIsLogged
<1>3. CASE CommitReceipt(c)
  BY <1>3 DEF CommitReceipt, PgInv, RetiredIsEnded, EventIsLogged
<1> QED
  BY <1>1, <1>2, <1>3 DEF IsCommit

\* A commit frees what its transaction held, and keeps the invariant.
LEMMA CommitKeepsInv ==
    ASSUME PgInv, NEW c \in Clients, IsCommit(c)
    PROVE  PgInv'
<1>1. PgTypeOK' /\ txn'[c] = NoTxn /\ \A o \in OtherClients(c) : txn'[o] = txn[o]
  BY PlaceEffect DEF PgInv, IsCommit, CommitAccept, CommitEvent, CommitReceipt, EndTxn
<1>2. TypeOK'
  BY CommitIsOperation, LedgerTypeStep DEF PgInv
<1>3. TxnIsSound(c)'
  BY <1>1 DEF TxnIsSound, Serves, Before, NoTxn
<1>4. \A o \in OtherClients(c) : TxnIsSound(o)'
  BY <1>1, AcceptSparesOthers, EventSparesOthers, ReceiptSparesOthers DEF IsCommit
<1>5. \A o \in OtherClients(c) : LocksApart(c, o)' /\ LocksApart(o, c)'
  BY <1>1 DEF LocksApart, HoldsDelivery, HoldsReceipt, HoldsClaim, HoldsRun,
              Serves, Before, NoTxn
<1>6. ASSUME NEW o \in OtherClients(c), NEW p \in OtherClients(c), o # p
      PROVE  LocksApart(o, p)'
  <2>1. LocksApart(o, p) /\ txn'[o] = txn[o] /\ txn'[p] = txn[p]
    BY <1>1, <1>6 DEF PgInv, OtherClients
  <2> QED
    BY <2>1 DEF LocksApart, HoldsDelivery, HoldsReceipt, HoldsClaim, HoldsRun,
                Serves, Before, CallOf
<1>7. RetiredIsEnded'
  BY RetiredStaysEnded
<1> QED
  BY <1>1, <1>2, <1>3, <1>4, <1>5, <1>6, <1>7 DEF PgInv, OtherClients

-----------------------------------------------------------------------------
(* The PostgreSQL store implements the ledger                              *)

\* A step keeps the invariant, and is a commit or changes no table.
LEMMA PgInvStep ==
    ASSUME PgInv, [PgNext]_pgVars
    PROVE  /\ PgInv'
           /\ UNCHANGED ledgerVars \/ (CommitsItsCall /\ Next)
<1>1. ASSUME NEW c \in Clients, PgStart(c)
      PROVE  PgInv' /\ UNCHANGED ledgerVars
  BY <1>1, StartKeepsInv DEF PgStart, BeginAccept, BeginAppend, BeginRetire,
     BeginClaim, BeginAdvance, BeginTxn
<1>2. ASSUME NEW c \in Clients, IsCommit(c)
      PROVE  PgInv' /\ CommitsItsCall /\ Next
  BY <1>2, CommitKeepsInv, CommitIsOperation DEF CommitsItsCall
<1>3. ASSUME NEW c \in Clients, Reserve(c) \/ ReadHolder(c) \/ InsertSummary(c)
      PROVE  PgInv' /\ UNCHANGED ledgerVars
  BY <1>3, ReserveKeepsInv, ReadHolderKeepsInv, InsertSummaryKeepsInv
     DEF Reserve, ReadHolder, InsertSummary
<1>4. ASSUME NEW c \in Clients, FindHolder(c) \/ LockRun(c) \/ CheckEvent(c) \/ CheckRetire(c)
      PROVE  PgInv' /\ UNCHANGED ledgerVars
  BY <1>4, FindHolderKeepsInv, LockRunKeepsInv, CheckEventKeepsInv, CheckRetireKeepsInv
     DEF FindHolder, LockRun, CheckEvent, CheckRetire
<1>5. ASSUME NEW c \in Clients, CheckTarget(c) \/ InsertReceipt(c) \/ LockReceipt(c)
      PROVE  PgInv' /\ UNCHANGED ledgerVars
  BY <1>5, CheckTargetKeepsInv, ReceiptKeepsInv DEF CheckTarget, InsertReceipt, LockReceipt
<1>6. ASSUME NEW c \in Clients, Rollback(c)
      PROVE  PgInv' /\ UNCHANGED ledgerVars
  BY <1>6, QuietEnd DEF Rollback
<1>7. CASE UNCHANGED pgVars
  <2>1. TypeOK' /\ PgTypeOK' /\ RetiredIsEnded'
    BY <1>7 DEF PgInv, TypeOK, PgTypeOK, RetiredIsEnded, EventIsLogged, pgVars, ledgerVars
  <2>2. \A c \in Clients : TxnIsSound(c)'
    BY <1>7 DEF PgInv, TxnIsSound, AcceptIsSound, AppendIsSound, RetireIsSound,
       ClaimIsSound, AdvanceIsSound, Serves, Before, CallOf, ActiveRuns, EventIsLogged,
       pgVars, ledgerVars
  <2>3. \A c, o \in Clients : c # o => LocksApart(c, o)'
    BY <1>7 DEF PgInv, LocksApart, HoldsDelivery, HoldsReceipt, HoldsClaim, HoldsRun,
       Serves, Before, CallOf, pgVars
  <2> QED
    BY <1>7, <2>1, <2>2, <2>3 DEF PgInv, pgVars
<1> QED
  BY <1>1, <1>2, <1>3, <1>4, <1>5, <1>6, <1>7 DEF PgNext, PgStatement, IsCommit

\* Before the first transaction there is nothing to keep.
LEMMA PgInvInit == PgInit => PgInv
<1> SUFFICES ASSUME PgInit
             PROVE  PgInv
  OBVIOUS
<1>1. TypeOK
  BY DEF PgInit, Init, TypeOK
<1>2. \A c \in Clients : Before(c, "idle")
  BY DEF PgInit, Before, NoTxn
<1>3. PgTypeOK /\ RetiredIsEnded
  BY DEF PgInit, Init, PgTypeOK, RetiredIsEnded, EventIsLogged
<1> QED
  BY <1>1, <1>2, <1>3 DEF PgInv, TxnIsSound, LocksApart, HoldsDelivery, HoldsReceipt,
     HoldsClaim, HoldsRun, Serves, Before

\* The locks keep what every open transaction has found out.
THEOREM PgInvariant == PgSpec => []PgInv
<1>1. PgInv /\ [PgNext]_pgVars => PgInv'
  BY PgInvStep
<1> QED
  BY <1>1, PgInvInit, PTL DEF PgSpec

\* Every commit is the one operation its transaction was opened for, whatever
\* statements of other processes came in between.
THEOREM PgCommitsItsCalls == PgSpec => [][CommitsItsCall]_ledgerVars
<1>1. PgInv /\ [PgNext]_pgVars => [CommitsItsCall]_ledgerVars
  BY PgInvStep
<1> QED
  BY <1>1, PgInvariant, PTL DEF PgSpec

\* The PostgreSQL store implements the atomic ledger, so every theorem about
\* the ledger is one about it.
THEOREM PgImplementsRunLedger == PgSpec => Spec
<1>1. PgInit => Init
  BY DEF PgInit
<1>2. PgInv /\ [PgNext]_pgVars => [Next]_ledgerVars
  BY PgInvStep
<1> QED
  BY <1>1, <1>2, PgInvariant, PTL DEF PgSpec, Spec

\* Two processes on one database never have two runs of an issue in flight.
THEOREM PgKeepsOneActiveRun == PgSpec => []OneActiveRun
BY PgImplementsRunLedger, AtMostOneActiveRun, PTL
=============================================================================
