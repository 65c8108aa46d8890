--------------------------- MODULE LedgerPartsProofs ---------------------------
(***************************************************************************)
(* What the parts over the run ledger guarantee, for any number of runs,   *)
(* deliveries, calls and processes: the PostgreSQL store beside the other  *)
(* parts, the refusals of the model gateway, the Definition of Done, and   *)
(* the runner processes.  Each part is proved about alone, with whatever   *)
(* else happens to a run among its steps, and then beside the others.      *)
(***************************************************************************)
EXTENDS LedgerParts, RunLedgerProofs, SequenceTheorems, FiniteSetTheorems

-----------------------------------------------------------------------------
(* The PostgreSQL store                                                    *)

\* Where the store moves, its invariant holds.
PgPartInv == part = "postgres" => PgInv

\* In a behaviour of the parts the store is the one of RunLedgerPg.
LEMMA PgPartStep ==
    ASSUME PgPartInv, [LedgerPartsNext]_partsVars
    PROVE  PgPartInv' /\ [part = "postgres" => CommitsItsCall]_ledgerVars
<1>1. part' = part
  BY DEF LedgerPartsNext, partsVars
<1>2. CASE part = "postgres"
  <2>1. PgInv /\ [PgNext]_pgVars
    BY <1>2 DEF PgPartInv, LedgerPartsNext, partsVars, pgVars
  <2> QED
    BY <1>1, <2>1, PgInvStep DEF PgPartInv
<1> QED
  BY <1>1, <1>2 DEF PgPartInv

\* Whatever statements of other processes come between those of a
\* transaction, its COMMIT is the one operation its caller asked for.
THEOREM PgPartImplementsLedger == LedgerPartsSpec => PgImplementsLedger
<1>1. LedgerPartsInit => PgPartInv
  BY PgInvInit DEF LedgerPartsInit, PgPartInv
<1>2. PgPartInv /\ [LedgerPartsNext]_partsVars
        => PgPartInv' /\ [part = "postgres" => CommitsItsCall]_ledgerVars
  BY PgPartStep
<1> QED
  BY <1>1, <1>2, PTL DEF LedgerPartsSpec, PgImplementsLedger

-----------------------------------------------------------------------------
(* The runner processes of an issue, alone                                 *)

Process == [pc : Working \cup {"idle", "parked", "ended", "silent", "crashed"},
            mode : Modes, run : Runs \cup {Nil}, plan : Deliveries \cup {Nil},
            shown : Deliveries \cup {Nil}, round : 0..MaxRevisions,
            ending : {"failed", "succeeded"}, aborting : BOOLEAN,
            pushed : BOOLEAN, done : BOOLEAN, lost : BOOLEAN]

\* What the locals of a process say of how far it came.
LocalsAgree(x) ==
    /\ x.pc \in {"idle", "begin"} => x.run = Nil /\ x.plan = Nil /\ ~x.pushed
    /\ x.pc \in {"setup", "plan"} => x.plan = Nil /\ ~x.pushed
    /\ x.pc \notin Working => x.plan = Nil /\ x.shown = Nil /\ x.mode = "fresh"
    /\ x.pc = "revise" => x.mode = "revise"
    /\ x.pc \in {"code", "push", "dod"} => x.mode = "approve"
    /\ x.pushed /\ x.pc \in Working => x.mode = "approve"
    /\ x.pc = "dod" \/ x.ending = "succeeded" => x.pushed
    /\ x.pc \in (Working \ {"labels", "marker"}) \cup {"idle"} => ~x.done

\* Every revision is planned on the ticket as read: the plan of an approval
\* is the one its human was shown, unless another process came in between.
PlanIsShown(p) ==
    ~overlap /\ proc[p].mode = "approve" /\ proc[p].shown # Nil =>
        /\ proc[p].pc \in {"begin", "setup", "plan"} => ticket.block = proc[p].shown
        /\ proc[p].pc \in {"post", "block", "record", "code", "push", "dod"}
              \/ proc[p].pushed => proc[p].plan = proc[p].shown

\* The author of a plan is a process that began, and not to code it.
AuthorsDoNotCode ==
    \A p \in Deliveries :
        ticket.block = p \/ (\E q \in Deliveries : proc[q].plan = p) =>
            proc[p].pc \notin {"idle", "begin"} /\ proc[p].mode # "approve"

\* An event that ends a run, by its identity, has ended it.
EndsRun(e) == e.id \in {<<"terminal", "lifecycle">>, <<"terminal", "label-failed">>}

EndedByEvents ==
    \A r \in Runs : \A e \in log[r] :
        /\ EndsRun(e) => e.type = "run.terminal"
        /\ e.type = "run.terminal" => status[r] \in Terminal

\* What a process that works alone on its run knows of the claim.
ClaimIsKnown(p) ==
    proc[p].run # Nil /\ ~proc[p].lost /\ ~Shared(p) =>
        /\ proc[p].pc = "ended" => status[proc[p].run] \in Terminal
        /\ proc[p].pc = "parked" => status[proc[p].run] \in Terminal \cup {"blocked"}
        /\ proc[p].pc \in Working \ {"labels", "marker"} =>
               \A e \in log[proc[p].run] : e.type # "worker.question"

RunnerInv ==
    /\ TypeOK
    /\ ticket \in [labels : SUBSET TerminalLabels, plan : Deliveries \cup {Nil},
                   block : Deliveries \cup {Nil}]
    /\ proc \in [Deliveries -> Process]
    /\ overlap \in BOOLEAN
    /\ \A r \in Runs : IsFiniteSet(log[r])
    /\ \A p \in Deliveries : LocalsAgree(proc[p])
    /\ \A p \in Deliveries : proc[p].run # Nil => status[proc[p].run] # "none"
    /\ \A r \in Runs : status[r] # "none" => \E p \in Deliveries : proc[p].run = r
    /\ AuthorsDoNotCode
    /\ ~overlap => \A p, q \in Deliveries : Alive(p) /\ Alive(q) => p = q
    /\ \A p \in Deliveries : PlanIsShown(p)
    /\ EndedByEvents
    /\ \A p \in Deliveries : ClaimIsKnown(p)
    /\ OutcomeIsEarned

-----------------------------------------------------------------------------
(* What the processes write                                                *)

\* The events a process may append to its run.
WritesOf(p) ==
    {ResumedEvent(p), TripRecord} \cup {QuestionEvent(n) : n \in 0..MaxRevisions}
    \cup {MarkerEvent(s) : s \in {"failed", "succeeded"}}
    \cup {LabelFailureEvent(s) : s \in {"failed", "succeeded"}}

RetireEvent == [id |-> RetireId, type |-> "run.terminal", status |-> "aborted"]

\* They are events of the ledger; only a terminal one has an end's identity,
\* and only an end succeeds.
LEMMA RunnerEvents ==
    /\ RetireEvent \in Event /\ ~EndsRun(RetireEvent)
    /\ \A p \in Deliveries : \A e \in WritesOf(p) :
          /\ e \in Event
          /\ EndsRun(e) => e.type = "run.terminal"
          /\ e.status = "succeeded" => e.type = "run.terminal"
<1>1. /\ {<<"breaker", "trip">>, <<"terminal", "lifecycle">>,
          <<"terminal", "label-failed">>, RetireId} \subseteq EventIds
      /\ \A n \in 0..MaxRevisions : <<"plan-approval", n>> \in EventIds
      /\ \A p \in Deliveries : <<p, "revision">> \in EventIds
  <2>1. 0..MaxRevisions \subseteq 0..MaxRevisions + 1
    BY RunnerAssumption
  <2> QED
    BY <2>1, RunnerIdsAssumption DEF RunnerEventIds
<1>2. RetireEvent \in Event /\ ~EndsRun(RetireEvent)
  BY <1>1 DEF RetireEvent, RetireId, Event, WellFormed, EventTypes, RunStatus, Terminal,
     EndsRun
<1>3. ASSUME NEW p \in Deliveries, NEW e \in WritesOf(p)
      PROVE  /\ e \in Event
             /\ EndsRun(e) => e.type = "run.terminal"
             /\ e.status = "succeeded" => e.type = "run.terminal"
  <2>1. CASE e = ResumedEvent(p)
    BY <1>1, <2>1 DEF ResumedEvent, Event, WellFormed, EventTypes, WorkTypes, RunStatus,
       Active, EndsRun
  <2>2. CASE e = TripRecord
    BY <1>1, <2>2 DEF TripRecord, Event, WellFormed, EventTypes, RunStatus, Terminal
  <2>3. ASSUME NEW n \in 0..MaxRevisions, e = QuestionEvent(n)
        PROVE  /\ e \in Event
               /\ EndsRun(e) => e.type = "run.terminal"
               /\ e.status = "succeeded" => e.type = "run.terminal"
    BY <1>1, <2>3 DEF QuestionEvent, Event, WellFormed, EventTypes, RunStatus, Active,
       EndsRun
  <2>4. ASSUME NEW t \in {"failed", "succeeded"},
               e = MarkerEvent(t) \/ e = LabelFailureEvent(t)
        PROVE  /\ e \in Event
               /\ EndsRun(e) => e.type = "run.terminal"
               /\ e.status = "succeeded" => e.type = "run.terminal"
    BY <1>1, <2>4 DEF MarkerEvent, LabelFailureEvent, Event, WellFormed, EventTypes,
       RunStatus, Terminal
  <2> QED
    BY <2>1, <2>2, <2>3, <2>4 DEF WritesOf
<1> QED
  BY <1>2, <1>3

\* What a step of process p may do to the ledger: nothing, the acceptance that
\* begins its run, or one event of its own on its run.
LedgerMove(p) ==
    \/ UNCHANGED ledgerVars
    \/ \E r \in Runs : /\ AcceptDelivery(p, Story, r)
                       /\ proc[p].pc = "begin" /\ proc'[p].run = r
    \/ \E e \in WritesOf(p) :
           /\ proc[p].run # Nil /\ AppendEvent(proc[p].run, e)
           /\ e.type = "worker.question" => proc[p].pc = "park"
           /\ e.status = "succeeded" => proc[p].ending = "succeeded"

LEMMA LedgerMoveIsNext ==
    ASSUME RunnerInv, NEW p \in Deliveries, LedgerMove(p)
    PROVE  [Next]_ledgerVars
<1>1. proc[p].run # Nil => proc[p].run \in Runs
  BY DEF RunnerInv, Process
<1> QED
  BY <1>1, RunnerEvents, RunnerAssumption DEF LedgerMove, Next

\* An ended run is not touched, and what ends a run has ended it.
LEMMA EndsStay ==
    ASSUME RunnerInv, NEW r \in Runs, NEW e \in Event, AppendEvent(r, e),
           EndsRun(e) => e.type = "run.terminal"
    PROVE  EndedByEvents' /\ \A q \in Runs : IsFiniteSet(log'[q])
<1>1. /\ status[r] \notin Terminal /\ log'[r] = log[r] \cup {e}
      /\ e.type = "run.terminal" => status'[r] \in Terminal
      /\ \A q \in Runs \ {r} : status'[q] = status[q] /\ log'[q] = log[q]
  BY AppendMoves, AppendEffect DEF RunnerInv
<1>2. EndedByEvents'
  BY <1>1 DEF RunnerInv, EndedByEvents
<1>3. IsFiniteSet(log'[r])
  BY <1>1, FS_AddElement DEF RunnerInv
<1> QED
  BY <1>1, <1>2, <1>3 DEF RunnerInv

LEMMA LedgerMoveKeeps ==
    ASSUME RunnerInv, NEW p \in Deliveries, LedgerMove(p)
    PROVE  /\ TypeOK' /\ EndedByEvents'
           /\ \A r \in Runs : IsFiniteSet(log'[r])
<1>1. TypeOK'
  BY LedgerMoveIsNext, LedgerTypeStep DEF RunnerInv
<1>2. CASE UNCHANGED ledgerVars
  BY <1>1, <1>2 DEF RunnerInv, EndedByEvents, ledgerVars
<1>3. ASSUME NEW r \in Runs, AcceptDelivery(p, Story, r)
      PROVE  EndedByEvents' /\ \A q \in Runs : IsFiniteSet(log'[q])
  <2> DEFINE a == [id |-> AcceptedId(p), type |-> "run.accepted", status |-> "queued"]
  <2>1. log'[r] = {a} /\ \A q \in Runs \ {r} : status'[q] = status[q] /\ log'[q] = log[q]
    BY <1>3, AcceptEffect, RunnerAssumption DEF RunnerInv
  <2>2. ~EndsRun(a) /\ a.type # "run.terminal"
    BY DEF EndsRun, AcceptedId
  <2> HIDE DEF a
  <2>3. EndedByEvents'
    BY <2>1, <2>2 DEF RunnerInv, EndedByEvents
  <2>4. IsFiniteSet(log'[r])
    BY <2>1, FS_Singleton
  <2> QED
    BY <2>1, <2>3, <2>4 DEF RunnerInv
<1>4. ASSUME NEW e \in WritesOf(p), proc[p].run # Nil, AppendEvent(proc[p].run, e)
      PROVE  EndedByEvents' /\ \A q \in Runs : IsFiniteSet(log'[q])
  <2>1. proc[p].run \in Runs
    BY <1>4 DEF RunnerInv, Process
  <2> QED
    BY <1>4, <2>1, RunnerEvents, EndsStay
<1> QED
  BY <1>1, <1>2, <1>3, <1>4 DEF LedgerMove

\* What happens to a run that another process works on alone.
LEMMA OthersRunStays ==
    ASSUME RunnerInv, NEW p \in Deliveries, LedgerMove(p),
           NEW q \in Deliveries, p # q, proc[q].run # Nil, ~Shared(q)
    PROVE  status'[proc[q].run] = status[proc[q].run] /\ log'[proc[q].run] = log[proc[q].run]
<1> DEFINE r == proc[q].run
<1>1. r \in Runs /\ status[r] # "none" /\ proc[p].run # r
  BY DEF RunnerInv, Process, Shared
<1>2. ASSUME NEW s \in Runs, AcceptDelivery(p, Story, s)
      PROVE  status'[r] = status[r] /\ log'[r] = log[r]
  BY <1>1, <1>2, AcceptEffect, RunnerAssumption DEF RunnerInv
<1>3. ASSUME NEW e \in WritesOf(p), proc[p].run # Nil, AppendEvent(proc[p].run, e)
      PROVE  status'[r] = status[r] /\ log'[r] = log[r]
  <2>1. proc[p].run \in Runs
    BY <1>3 DEF RunnerInv, Process
  <2> QED
    BY <1>1, <1>3, <2>1, RunnerEvents, AppendEffect DEF RunnerInv
<1> QED
  BY <1>2, <1>3 DEF LedgerMove, ledgerVars

\* One process moves.  What is left to show of a step is what is new about it.
LEMMA RunnerTurn ==
    ASSUME RunnerInv, NEW p \in Deliveries, Alive(p), NEW x \in Process,
           proc' = [proc EXCEPT ![p] = x], UNCHANGED overlap, LedgerMove(p),
           x.pc \notin {"idle", "begin"}, LocalsAgree(x),
           x.run = proc[p].run \/ (proc[p].run = Nil /\ x.run \in Runs),
           x.run # Nil => status'[x.run] # "none",
           proc[p].pushed => x.pushed, proc[p].done => x.done,
           x.mode = "approve" => proc[p].mode = "approve",
           \/ x.plan \in {proc[p].plan, ticket.block, Nil}
           \/ x.plan = p /\ x.mode # "approve",
           ticket' \in [labels : SUBSET TerminalLabels, plan : Deliveries \cup {Nil},
                        block : Deliveries \cup {Nil}],
           ticket'.block \in {ticket.block, proc[p].plan},
           "df:done" \in ticket'.labels => "df:done" \in ticket.labels \/ (x.pushed /\ x.done),
           PlanIsShown(p)', ClaimIsKnown(p)'
    PROVE  RunnerInv'
<1>1. proc'[p] = x /\ \A q \in Deliveries \ {p} : proc'[q] = proc[q]
  BY DEF RunnerInv
<1>2. /\ TypeOK' /\ EndedByEvents' /\ \A r \in Runs : IsFiniteSet(log'[r])
      /\ [Next]_ledgerVars
  BY LedgerMoveKeeps, LedgerMoveIsNext
<1>3. proc' \in [Deliveries -> Process] /\ overlap' \in BOOLEAN
  BY DEF RunnerInv
<1>4. \A q \in Deliveries : LocalsAgree(proc'[q])
  BY <1>1 DEF RunnerInv
<1>5. \A q \in Deliveries : proc'[q].run # Nil => status'[proc'[q].run] # "none"
  BY <1>1, <1>2, LedgerGrows DEF RunnerInv, Process
<1>6. \A r \in Runs : status'[r] # "none" => \E q \in Deliveries : proc'[q].run = r
  <2> SUFFICES ASSUME NEW r \in Runs, status'[r] # "none"
               PROVE  \E q \in Deliveries : proc'[q].run = r
    OBVIOUS
  <2>1. CASE status[r] # "none"
    <3>1. PICK q \in Deliveries : proc[q].run = r
      BY <2>1 DEF RunnerInv
    <3>2. q = p => x.run = r
      BY <3>1, LedgerAssumption
    <3> QED
      BY <1>1, <3>1, <3>2
  <2>2. CASE status[r] = "none"
    <3>1. ASSUME NEW e \in WritesOf(p), proc[p].run # Nil, AppendEvent(proc[p].run, e)
          PROVE  FALSE
      <4>1. proc[p].run \in Runs /\ e \in Event
        BY <3>1, RunnerEvents DEF RunnerInv, Process
      <4> QED
        BY <2>2, <3>1, <4>1, AppendEffect DEF AppendEvent, RunnerInv
    <3>2. \E s \in Runs : AcceptDelivery(p, Story, s) /\ proc'[p].run = s
      BY <2>2, <3>1 DEF LedgerMove, ledgerVars
    <3> QED
      BY <2>2, <3>2, AcceptEffect, RunnerAssumption DEF RunnerInv
  <2> QED
    BY <2>1, <2>2
<1>7. AuthorsDoNotCode'
  <2> SUFFICES ASSUME NEW a \in Deliveries,
                      ticket'.block = a \/ \E q \in Deliveries : proc'[q].plan = a
               PROVE  proc'[a].pc \notin {"idle", "begin"} /\ proc'[a].mode # "approve"
    BY DEF AuthorsDoNotCode
  <2>1. \/ ticket.block = a \/ \E q \in Deliveries : proc[q].plan = a
        \/ a = p /\ x.mode # "approve"
    BY <1>1, RunnerAssumption
  <2> QED
    BY <1>1, <2>1 DEF RunnerInv, AuthorsDoNotCode
<1>8. ~overlap' => \A q, o \in Deliveries : Alive(q)' /\ Alive(o)' => q = o
  BY <1>1 DEF RunnerInv, Alive
<1>9. ASSUME NEW q \in Deliveries, q # p
      PROVE  PlanIsShown(q)'
  <2>1. ~overlap => ~Alive(q)
    BY <1>9 DEF RunnerInv
  <2>2. proc[q].mode = "approve" => Alive(q)
    BY DEF RunnerInv, LocalsAgree, Alive
  <2> QED
    BY <1>1, <1>9, <2>1, <2>2 DEF PlanIsShown
<1>10. ASSUME NEW q \in Deliveries, q # p
       PROVE  ClaimIsKnown(q)'
  <2>1. proc'[q] = proc[q] /\ (proc[q].run # Nil /\ Shared(q) => Shared(q)')
    BY <1>1, <1>10 DEF Shared
  <2> QED
    BY <1>10, <2>1, OthersRunStays DEF ClaimIsKnown, RunnerInv
<1>11. OutcomeIsEarned'
  <2>1. \A q \in Deliveries : /\ proc[q].pushed => proc'[q].pushed
                              /\ proc[q].done => proc'[q].done
                              /\ proc[q].run # Nil => proc'[q].run = proc[q].run
    BY <1>1
  <2>2. "df:done" \in ticket'.labels => \E q \in Deliveries : proc'[q].pushed /\ proc'[q].done
    BY <1>1, <2>1 DEF RunnerInv, OutcomeIsEarned
  <2>3. ASSUME NEW r \in Runs, status'[r] = "succeeded"
        PROVE  \E q \in Deliveries : proc'[q].run = r /\ proc'[q].pushed
    <3>1. CASE status[r] = "succeeded"
      BY <2>1, <3>1, LedgerAssumption DEF RunnerInv, OutcomeIsEarned
    <3>2. CASE status[r] # "succeeded"
      <4>1. PICK e \in WritesOf(p) :
                /\ proc[p].run # Nil /\ AppendEvent(proc[p].run, e)
                /\ e.status = "succeeded" => proc[p].ending = "succeeded"
        BY <2>3, <3>2, AcceptEffect, RunnerAssumption DEF LedgerMove, ledgerVars, RunnerInv
      <4>2. proc[p].run \in Runs /\ e \in Event
        BY <4>1, RunnerEvents DEF RunnerInv, Process
      <4>3. r = proc[p].run /\ e.status = "succeeded"
        BY <2>3, <3>2, <4>1, <4>2, AppendEffect, AppendMoves DEF RunnerInv, Terminal
      <4>4. proc[p].pushed
        BY <4>1, <4>3 DEF RunnerInv, LocalsAgree
      <4> QED
        BY <2>1, <4>1, <4>3, <4>4
    <3> QED
      BY <3>1, <3>2
  <2> QED
    BY <2>2, <2>3 DEF OutcomeIsEarned
<1> QED
  BY <1>1, <1>2, <1>3, <1>4, <1>5, <1>6, <1>7, <1>8, <1>9, <1>10, <1>11 DEF RunnerInv

-----------------------------------------------------------------------------
(* Steps that leave the ledger alone                                       *)

\* A process that goes on, or ends before it could write labels, knows no
\* more of its claim than it did.
LEMMA LocalTurn ==
    ASSUME RunnerInv, NEW p \in Deliveries, Alive(p), NEW x \in Process,
           proc' = [proc EXCEPT ![p] = x], UNCHANGED <<ledgerVars, overlap>>,
           x.pc \notin {"idle", "begin", "ended", "parked"}, LocalsAgree(x),
           x.pc \in Working \ {"labels", "marker"} => proc[p].pc \notin {"labels", "marker"},
           x.run = proc[p].run, x.lost = proc[p].lost,
           proc[p].pushed => x.pushed, proc[p].done => x.done,
           x.mode = "approve" => proc[p].mode = "approve",
           \/ x.plan \in {proc[p].plan, ticket.block, Nil}
           \/ x.plan = p /\ x.mode # "approve",
           ticket' \in [labels : SUBSET TerminalLabels, plan : Deliveries \cup {Nil},
                        block : Deliveries \cup {Nil}],
           ticket'.block \in {ticket.block, proc[p].plan},
           "df:done" \in ticket'.labels => "df:done" \in ticket.labels,
           PlanIsShown(p)'
    PROVE  RunnerInv'
<1>1. proc'[p] = x /\ \A q \in Deliveries \ {p} : proc'[q] = proc[q]
  BY DEF RunnerInv
<1>2. ClaimIsKnown(p)'
  <2>1. Shared(p)' <=> Shared(p)
    BY <1>1 DEF Shared
  <2> QED
    BY <1>1, <2>1 DEF RunnerInv, ClaimIsKnown, ledgerVars, Alive
<1>3. x.run # Nil => status'[x.run] # "none"
  BY DEF RunnerInv, ledgerVars
<1>4. LedgerMove(p)
  BY DEF LedgerMove
<1> QED
  BY <1>2, <1>3, <1>4, RunnerTurn

\* What is known of a process that works.
LEMMA Worker ==
    ASSUME RunnerInv, NEW p \in Deliveries, Alive(p)
    PROVE  /\ proc[p] \in Process /\ LocalsAgree(proc[p]) /\ PlanIsShown(p)
           /\ proc[p].run # Nil => proc[p].run \in Runs /\ status[proc[p].run] # "none"
           /\ ticket \in [labels : SUBSET TerminalLabels, plan : Deliveries \cup {Nil},
                          block : Deliveries \cup {Nil}]
BY DEF RunnerInv, Process

\* An exception, and a failure, go to the labels.
LEMMA ThrowKeepsInv ==
    ASSUME RunnerInv, NEW p \in Deliveries, Alive(p), proc[p].pc # "begin",
           Throw(p) \/ EndFailed(p), UNCHANGED <<ledgerVars, overlap, ticket>>
    PROVE  RunnerInv'
<1>1. PICK x \in Process :
          /\ proc' = [proc EXCEPT ![p] = x] /\ x.pc = "labels" /\ x.ending = "failed"
          /\ x.run = proc[p].run /\ x.plan = proc[p].plan /\ x.shown = proc[p].shown
          /\ x.mode = proc[p].mode /\ x.pushed = proc[p].pushed
          /\ x.done = proc[p].done /\ x.lost = proc[p].lost
  <2> DEFINE x == [proc[p] EXCEPT !.pc = "labels", !.ending = "failed", !.aborting = TRUE]
             y == [proc[p] EXCEPT !.pc = "labels", !.ending = "failed"]
  <2>1. x \in Process /\ y \in Process
    <3>1. proc[p] \in Process
      BY Worker
    <3> QED
      BY <3>1 DEF Process, Working
  <2>2. proc' = [proc EXCEPT ![p] = x] \/ proc' = [proc EXCEPT ![p] = y]
    BY DEF Throw, EndFailed, RunnerInv, Process
  <2>3. \A z \in {x, y} :
          /\ z.pc = "labels" /\ z.ending = "failed"
          /\ z.run = proc[p].run /\ z.plan = proc[p].plan /\ z.shown = proc[p].shown
          /\ z.mode = proc[p].mode /\ z.pushed = proc[p].pushed
          /\ z.done = proc[p].done /\ z.lost = proc[p].lost
    <3>1. proc[p] \in Process
      BY Worker
    <3> QED
      BY <3>1 DEF Process
  <2> HIDE DEF x, y
  <2> QED
    BY <2>1, <2>2, <2>3
<1>2. LocalsAgree(x)
  BY <1>1, Worker DEF LocalsAgree, Working, Alive
<1>3. PlanIsShown(p)'
  BY <1>1, Worker DEF PlanIsShown, RunnerInv
<1> QED
  BY <1>1, <1>2, <1>3, Worker, LocalTurn

\* A process that is over has forgotten its plan.
LEMMA StoppedFields ==
    ASSUME NEW p \in Deliveries, proc[p] \in Process,
           NEW pc \in {"parked", "ended", "silent", "crashed"}
    PROVE  /\ Stopped(p, pc) \in Process
           /\ Stopped(p, pc).pc = pc /\ Stopped(p, pc).mode = "fresh"
           /\ Stopped(p, pc).plan = Nil /\ Stopped(p, pc).shown = Nil
           /\ Stopped(p, pc).ending = "failed" /\ Stopped(p, pc).run = proc[p].run
           /\ Stopped(p, pc).pushed = proc[p].pushed
           /\ Stopped(p, pc).done = proc[p].done /\ Stopped(p, pc).lost = proc[p].lost
<1>1. Idle \in Process
  BY RunnerAssumption DEF Idle, Process, Modes
<1>2. /\ Idle.mode = "fresh" /\ Idle.plan = Nil /\ Idle.shown = Nil
      /\ Idle.ending = "failed"
  BY DEF Idle
<1> QED
  BY <1>1, <1>2 DEF Stopped, Process

LEMMA StoppedAgrees ==
    ASSUME NEW x \in Process, x.pc \in {"parked", "ended", "silent", "crashed"},
           x.mode = "fresh", x.plan = Nil, x.shown = Nil, x.ending = "failed"
    PROVE  LocalsAgree(x)
BY DEF LocalsAgree, Working

LEMMA StopKeepsInv ==
    ASSUME RunnerInv, NEW p \in Deliveries, Alive(p),
           NEW pc \in {"silent", "crashed"}, Stop(p, pc),
           UNCHANGED <<ledgerVars, overlap, ticket>>
    PROVE  RunnerInv'
<1> DEFINE x == Stopped(p, pc)
<1>1. /\ x \in Process /\ x.pc = pc /\ x.mode = "fresh"
      /\ x.plan = Nil /\ x.shown = Nil /\ x.ending = "failed" /\ x.run = proc[p].run
      /\ x.pushed = proc[p].pushed /\ x.done = proc[p].done /\ x.lost = proc[p].lost
  BY Worker, StoppedFields
<1>2. proc' = [proc EXCEPT ![p] = x]
  BY DEF Stop
<1> HIDE DEF x
<1>3. PlanIsShown(p)'
  BY <1>1, <1>2 DEF PlanIsShown, RunnerInv
<1> QED
  BY <1>1, <1>2, <1>3, Worker, StoppedAgrees, LocalTurn DEF Working

\* Setup, and the plan, of a fresh run or read off the ticket.
LEMMA SetupKeepsInv ==
    ASSUME RunnerInv, NEW p \in Deliveries, Setup(p)
    PROVE  RunnerInv'
<1>0. Alive(p) /\ proc[p].pc = "setup" /\ UNCHANGED <<ledgerVars, overlap>>
  BY DEF Setup, Alive, Working
<1>1. ASSUME NEW F \in SUBSET TerminalLabels,
             ticket' = [ticket EXCEPT !.labels = @ \cap F], Goto(p, "plan")
      PROVE  RunnerInv'
  <2> DEFINE x == [proc[p] EXCEPT !.pc = "plan"]
  <2>1. /\ x \in Process /\ x.pc = "plan" /\ x.mode = proc[p].mode
        /\ x.plan = proc[p].plan /\ x.shown = proc[p].shown
        /\ x.ending = proc[p].ending /\ x.run = proc[p].run
        /\ x.pushed = proc[p].pushed /\ x.done = proc[p].done /\ x.lost = proc[p].lost
    BY <1>0, Worker DEF Process, Working
  <2>2. proc' = [proc EXCEPT ![p] = x]
    BY <1>1 DEF Goto
  <2> HIDE DEF x
  <2>3. /\ ticket' \in [labels : SUBSET TerminalLabels, plan : Deliveries \cup {Nil},
                        block : Deliveries \cup {Nil}]
        /\ ticket'.block = ticket.block /\ ticket'.labels \subseteq ticket.labels
    BY <1>0, <1>1, Worker
  <2>4. LocalsAgree(x)
    BY <1>0, <2>1, Worker DEF LocalsAgree, Working
  <2>5. PlanIsShown(p)'
    BY <1>0, <2>1, <2>2, <2>3, Worker DEF PlanIsShown, RunnerInv
  <2> QED
    BY <1>0, <2>1, <2>2, <2>3, <2>4, <2>5, LocalTurn DEF Working
<1> QED
  BY <1>0, <1>1, StopKeepsInv, ThrowKeepsInv DEF Setup

LEMMA PlanKeepsInv ==
    ASSUME RunnerInv, NEW p \in Deliveries, Plan(p)
    PROVE  RunnerInv'
<1>0. /\ Alive(p) /\ proc[p].pc = "plan" /\ UNCHANGED <<ledgerVars, overlap, ticket>>
  BY DEF Plan, QuietLedger, Alive, Working
<1>1. ASSUME NEW x \in Process, proc' = [proc EXCEPT ![p] = x],
             x.pc \in {"post", "revise", "park"}, x.pc = "revise" <=> x.mode = "revise",
             \/ x.plan = p /\ x.mode = "fresh"
             \/ x.plan = Nil /\ x.mode = "fresh"
             \/ x.plan = ticket.block,
             x.mode = proc[p].mode, x.shown = proc[p].shown, x.ending = proc[p].ending,
             x.run = proc[p].run, x.pushed = proc[p].pushed, x.done = proc[p].done,
             x.lost = proc[p].lost
      PROVE  RunnerInv'
  <2>1. LocalsAgree(x)
    BY <1>0, <1>1, Worker DEF LocalsAgree, Working
  <2>2. PlanIsShown(p)'
    BY <1>0, <1>1, Worker DEF PlanIsShown, RunnerInv
  <2> QED
    BY <1>0, <1>1, <2>1, <2>2, Worker, LocalTurn DEF Working
<1>2. ASSUME proc[p].mode = "fresh",
             \/ proc' = [proc EXCEPT ![p].plan = p, ![p].pc = "post"]
             \/ Goto(p, "park")
      PROVE  RunnerInv'
  <2> DEFINE x == [proc[p] EXCEPT !.plan = p, !.pc = "post"]
             y == [proc[p] EXCEPT !.pc = "park"]
  <2>1. proc' = [proc EXCEPT ![p] = x] \/ proc' = [proc EXCEPT ![p] = y]
    BY <1>2 DEF Goto, RunnerInv, Process
  <2>2. \A z \in {x, y} :
          /\ z \in Process /\ z.mode = proc[p].mode /\ z.shown = proc[p].shown
          /\ z.ending = proc[p].ending /\ z.run = proc[p].run
          /\ z.pushed = proc[p].pushed /\ z.done = proc[p].done /\ z.lost = proc[p].lost
    <3>1. proc[p] \in Process
      BY <1>0, Worker
    <3>2. /\ x \in Process /\ x.mode = proc[p].mode /\ x.shown = proc[p].shown
          /\ x.ending = proc[p].ending /\ x.run = proc[p].run
          /\ x.pushed = proc[p].pushed /\ x.done = proc[p].done /\ x.lost = proc[p].lost
      BY <3>1 DEF Process, Working
    <3>3. /\ y \in Process /\ y.mode = proc[p].mode /\ y.shown = proc[p].shown
          /\ y.ending = proc[p].ending /\ y.run = proc[p].run
          /\ y.pushed = proc[p].pushed /\ y.done = proc[p].done /\ y.lost = proc[p].lost
      BY <3>1 DEF Process, Working
    <3> HIDE DEF x, y
    <3> QED
      BY <3>2, <3>3
  <2>3. /\ x.pc = "post" /\ x.plan = p
        /\ y.pc = "park" /\ y.plan = Nil
    BY <1>0, Worker DEF Process, LocalsAgree
  <2> HIDE DEF x, y
  <2> QED
    BY <1>1, <1>2, <2>1, <2>2, <2>3
<1>3. ASSUME proc[p].mode # "fresh",
             proc' = [proc EXCEPT ![p].plan = ticket.block, ![p].pc =
                         IF proc[p].mode = "revise" THEN "revise" ELSE "post"]
      PROVE  RunnerInv'
  <2> DEFINE pc == IF proc[p].mode = "revise" THEN "revise" ELSE "post"
             x == [proc[p] EXCEPT !.plan = ticket.block, !.pc = pc]
  <2>1. proc' = [proc EXCEPT ![p] = x]
    BY <1>3 DEF RunnerInv, Process
  <2>2. pc \in {"revise", "post"} /\ (pc = "revise" <=> proc[p].mode = "revise")
    OBVIOUS
  <2> HIDE DEF pc
  <2>3. /\ x \in Process /\ x.mode = proc[p].mode /\ x.shown = proc[p].shown
        /\ x.ending = proc[p].ending /\ x.run = proc[p].run
        /\ x.pushed = proc[p].pushed /\ x.done = proc[p].done /\ x.lost = proc[p].lost
        /\ x.pc = pc /\ x.plan = ticket.block
    BY <1>0, <2>2, Worker DEF Process, Working
  <2> HIDE DEF x
  <2> QED
    BY <1>1, <1>3, <2>1, <2>2, <2>3
<1> QED
  BY <1>0, <1>2, <1>3, ThrowKeepsInv DEF Plan

\* From the plan on, a process goes on with what it has.
LEMMA GoOnKeepsInv ==
    ASSUME RunnerInv, NEW p \in Deliveries, Alive(p),
           proc[p].pc \in {"post", "block", "record", "code"},
           NEW pc \in {"block", "record", "park", "code", "push"},
           pc \in {"code", "push"} => proc[p].mode = "approve",
           Goto(p, pc), UNCHANGED <<ledgerVars, overlap>>,
           ticket' \in [labels : SUBSET TerminalLabels, plan : Deliveries \cup {Nil},
                        block : Deliveries \cup {Nil}],
           ticket'.block \in {ticket.block, proc[p].plan}, ticket'.labels = ticket.labels
    PROVE  RunnerInv'
<1> DEFINE x == [proc[p] EXCEPT !.pc = pc]
<1>1. /\ x \in Process /\ x.pc = pc /\ x.mode = proc[p].mode
      /\ x.plan = proc[p].plan /\ x.shown = proc[p].shown
      /\ x.ending = proc[p].ending /\ x.run = proc[p].run
      /\ x.pushed = proc[p].pushed /\ x.done = proc[p].done /\ x.lost = proc[p].lost
  BY Worker DEF Process, Working
<1>2. proc' = [proc EXCEPT ![p] = x]
  BY DEF Goto
<1> HIDE DEF x
<1>3. LocalsAgree(x)
  BY <1>1, Worker DEF LocalsAgree, Working
<1>4. PlanIsShown(p)'
  BY <1>1, <1>2, Worker DEF PlanIsShown, RunnerInv
<1> QED
  BY <1>1, <1>2, <1>3, <1>4, LocalTurn DEF Working

\* The plan on the ticket and its record.
LEMMA PostKeepsInv ==
    ASSUME RunnerInv, NEW p \in Deliveries, Post(p) \/ PostBlock(p) \/ Record(p)
    PROVE  RunnerInv'
<1>0. /\ Alive(p) /\ UNCHANGED <<ledgerVars, overlap>>
      /\ proc[p].pc \in {"post", "block", "record"}
  BY DEF Post, PostBlock, Record, Alive, Working
<1>1. CASE (Throw(p) \/ EndFailed(p)) /\ UNCHANGED ticket
  BY <1>0, <1>1, ThrowKeepsInv
<1>2. CASE Post(p) /\ Goto(p, "block") /\ ticket' = [ticket EXCEPT !.plan = proc[p].plan]
  <2>1. /\ ticket' \in [labels : SUBSET TerminalLabels, plan : Deliveries \cup {Nil},
                        block : Deliveries \cup {Nil}]
        /\ ticket'.block = ticket.block /\ ticket'.labels = ticket.labels
    BY <1>0, <1>2, Worker DEF Process
  <2> QED
    BY <1>0, <1>2, <2>1, GoOnKeepsInv
<1>3. CASE PostBlock(p) /\ Goto(p, "record") /\ ticket' = [ticket EXCEPT !.block = proc[p].plan]
  <2>1. /\ ticket' \in [labels : SUBSET TerminalLabels, plan : Deliveries \cup {Nil},
                        block : Deliveries \cup {Nil}]
        /\ ticket'.block = proc[p].plan /\ ticket'.labels = ticket.labels
    BY <1>0, <1>3, Worker DEF Process
  <2> QED
    BY <1>0, <1>3, <2>1, GoOnKeepsInv
<1>4. CASE Record(p) /\ Goto(p, "code") /\ ~ParksForHumanApproval(proc[p].mode)
  BY <1>0, <1>4, Worker, GoOnKeepsInv DEF Record, ParksForHumanApproval
<1>5. CASE Record(p) /\ Goto(p, "park")
  BY <1>0, <1>5, Worker, GoOnKeepsInv DEF Record
<1> QED
  <2>1. CASE Post(p)
    BY <1>1, <1>2, <2>1 DEF Post
  <2>2. CASE PostBlock(p)
    BY <1>1, <1>3, <2>2 DEF PostBlock
  <2>3. CASE Record(p)
    BY <1>1, <1>4, <1>5, <2>3 DEF Record
  <2> QED
    BY <2>1, <2>2, <2>3

\* The push, and the Definition of Done.
LEMMA PushKeepsInv ==
    ASSUME RunnerInv, NEW p \in Deliveries, Push(p) \/ Dod(p)
    PROVE  RunnerInv'
<1>0. /\ Alive(p) /\ UNCHANGED <<ledgerVars, overlap, ticket>>
      /\ proc[p].pc \in {"push", "dod"}
  BY DEF Push, Dod, QuietLedger, Alive, Working
<1>1. ASSUME NEW x \in Process, proc' = [proc EXCEPT ![p] = x],
             \/ x.pc = "dod" /\ x.ending = proc[p].ending /\ x.done = proc[p].done
             \/ x.pc = "labels" /\ proc[p].pushed,
             x.pushed, proc[p].done => x.done,
             x.mode = proc[p].mode, x.shown = proc[p].shown, x.plan = proc[p].plan,
             x.run = proc[p].run, x.lost = proc[p].lost
      PROVE  RunnerInv'
  <2>1. LocalsAgree(x)
    BY <1>0, <1>1, Worker DEF LocalsAgree, Working
  <2>2. PlanIsShown(p)'
    BY <1>0, <1>1, Worker DEF PlanIsShown, RunnerInv
  <2> QED
    BY <1>0, <1>1, <2>1, <2>2, Worker, LocalTurn DEF Working
<1>2. CASE Push(p) /\ proc' = [proc EXCEPT ![p].pc = "dod", ![p].pushed = TRUE]
  <2> DEFINE x == [proc[p] EXCEPT !.pc = "dod", !.pushed = TRUE]
  <2>1. proc' = [proc EXCEPT ![p] = x]
    BY <1>2 DEF RunnerInv, Process
  <2>2. /\ x \in Process /\ x.pc = "dod" /\ x.pushed = TRUE /\ x.done = proc[p].done
        /\ x.ending = proc[p].ending
        /\ x.mode = proc[p].mode /\ x.shown = proc[p].shown /\ x.plan = proc[p].plan
        /\ x.run = proc[p].run /\ x.lost = proc[p].lost
    BY <1>0, Worker DEF Process, Working
  <2> HIDE DEF x
  <2> QED
    BY <1>1, <2>1, <2>2
<1>3. ASSUME Dod(p), NEW ok \in BOOLEAN,
             proc' = [proc EXCEPT ![p].pc = "labels", ![p].done = ok,
                                  ![p].ending = "succeeded"]
      PROVE  RunnerInv'
  <2> DEFINE x == [proc[p] EXCEPT !.pc = "labels", !.done = ok, !.ending = "succeeded"]
  <2>0. proc[p].pushed /\ ~proc[p].done
    BY <1>0, <1>3, Worker DEF LocalsAgree, Working, Dod
  <2>1. proc' = [proc EXCEPT ![p] = x]
    BY <1>3 DEF RunnerInv, Process
  <2>2. /\ x \in Process /\ x.pc = "labels" /\ x.pushed = proc[p].pushed
        /\ x.mode = proc[p].mode /\ x.shown = proc[p].shown /\ x.plan = proc[p].plan
        /\ x.run = proc[p].run /\ x.lost = proc[p].lost
    <3>1. proc[p] \in Process
      BY <1>0, Worker
    <3> QED
      BY <3>1 DEF Process, Working
  <2> HIDE DEF x
  <2> QED
    BY <1>1, <2>0, <2>1, <2>2
<1> QED
  <2>1. CASE Push(p)
    BY <1>0, <1>2, <2>1, ThrowKeepsInv DEF Push
  <2>2. CASE Dod(p)
    BY <1>0, <1>3, <2>2, ThrowKeepsInv, StopKeepsInv DEF Dod
  <2> QED
    BY <2>1, <2>2

-----------------------------------------------------------------------------
(* Steps that write on the run                                             *)

\* A write is a move of the ledger by the process.
LEMMA WriteMoves ==
    ASSUME RunnerInv, NEW p \in Deliveries, Alive(p), NEW e \in WritesOf(p),
           NEW ok \in BOOLEAN, Write(proc[p].run, e, ok),
           e.type = "worker.question" => proc[p].pc = "park",
           e.status = "succeeded" => proc[p].ending = "succeeded"
    PROVE  /\ LedgerMove(p)
           /\ proc[p].run # Nil =>
                 /\ status'[proc[p].run] # "none"
                 /\ log'[proc[p].run] \subseteq log[proc[p].run] \cup {e}
                 /\ ok => e \in log'[proc[p].run]
           /\ ~ok => UNCHANGED ledgerVars
           /\ ok => proc[p].run # Nil
<1>1. /\ ok => /\ proc[p].run # Nil
               /\ AppendEvent(proc[p].run, e) \/ (e \in log[proc[p].run] /\ UNCHANGED ledgerVars)
      /\ ~ok => UNCHANGED ledgerVars
  BY DEF Write
<1>2. LedgerMove(p)
  BY <1>1 DEF LedgerMove
<1>3. proc[p].run # Nil => status'[proc[p].run] # "none"
  BY <1>2, Worker, LedgerMoveIsNext, LedgerGrows DEF RunnerInv
<1>4. e \in Event
  BY RunnerEvents
<1>5. proc[p].run # Nil =>
          /\ log'[proc[p].run] \subseteq log[proc[p].run] \cup {e}
          /\ ok => e \in log'[proc[p].run]
  BY <1>1, <1>4, Worker, AppendEffect DEF RunnerInv, ledgerVars
<1> QED
  BY <1>1, <1>2, <1>3, <1>5

\* The rounds of a run are counted, and below the cap there is another.
LEMMA RoundFits ==
    ASSUME RunnerInv, NEW r \in Runs \cup {Nil}, ~CapReached(r)
    PROVE  Revisions(r) + 1 \in 0..MaxRevisions
<1>1. Revisions(r) \in Nat
  <2>1. CASE r = Nil
    BY <2>1 DEF Revisions
  <2>2. CASE r # Nil
    <3> DEFINE S == {e \in log[r] : e.type = "run.resumed"}
    <3>1. S \subseteq log[r] /\ IsFiniteSet(log[r])
      BY <2>2 DEF RunnerInv
    <3>2. Cardinality(S) \in Nat
      BY <3>1, FS_Subset, FS_CardinalityType
    <3> QED
      BY <2>2, <3>2 DEF Revisions
  <2> QED
    BY <2>1, <2>2
<1> QED
  BY <1>1, RunnerAssumption DEF CapReached

\* A revision resumes the run, or ends it.
LEMMA ReviseKeepsInv ==
    ASSUME RunnerInv, NEW p \in Deliveries, Revise(p)
    PROVE  RunnerInv'
<1>0. Alive(p) /\ proc[p].pc = "revise" /\ UNCHANGED <<overlap, ticket>>
  BY DEF Revise, Alive, Working
<1>1. ASSUME ~CapReached(proc[p].run), NEW ok \in BOOLEAN,
             Write(proc[p].run, ResumedEvent(p), ok),
             proc' = [proc EXCEPT ![p].pc = "post", ![p].plan = p,
                       ![p].round = Revisions(proc[p].run) + 1,
                       ![p].lost = @ \/ WasLost(proc[p].run, ResumedEvent(p), ok)]
      PROVE  RunnerInv'
  <2> DEFINE n == Revisions(proc[p].run) + 1
             lost == proc[p].lost \/ WasLost(proc[p].run, ResumedEvent(p), ok)
             x == [proc[p] EXCEPT !.pc = "post", !.plan = p, !.round = n, !.lost = lost]
  <2>1. n \in 0..MaxRevisions
    BY <1>0, <1>1, Worker, RoundFits DEF Process
  <2>2. lost \in BOOLEAN /\ (proc[p].lost => lost)
    BY DEF WasLost
  <2>3. proc' = [proc EXCEPT ![p] = x]
    BY <1>1 DEF RunnerInv, Process
  <2> HIDE DEF n, lost
  <2>4. /\ x \in Process /\ x.pc = "post" /\ x.plan = p /\ x.lost = lost
        /\ x.mode = proc[p].mode /\ x.shown = proc[p].shown
        /\ x.ending = proc[p].ending /\ x.run = proc[p].run
        /\ x.pushed = proc[p].pushed /\ x.done = proc[p].done
    <3>1. proc[p] \in Process
      BY <1>0, Worker
    <3> QED
      BY <3>1, <2>1, <2>2 DEF Process, Working
  <2> HIDE DEF x
  <2>5. /\ ResumedEvent(p) \in WritesOf(p) /\ ResumedEvent(p).type # "worker.question"
        /\ ResumedEvent(p).status # "succeeded"
    BY DEF WritesOf, ResumedEvent
  <2>6. /\ LedgerMove(p)
        /\ proc[p].run # Nil =>
              /\ status'[proc[p].run] # "none"
              /\ log'[proc[p].run] \subseteq log[proc[p].run] \cup {ResumedEvent(p)}
    BY <1>0, <1>1, <2>5, WriteMoves
  <2>7. proc'[p] = x /\ \A q \in Deliveries \ {p} : proc'[q] = proc[q]
    BY <2>3 DEF RunnerInv
  <2>8. ClaimIsKnown(p)'
    <3>1. Shared(p)' <=> Shared(p)
      BY <2>4, <2>7 DEF Shared
    <3> QED
      BY <1>0, <2>2, <2>4, <2>5, <2>6, <2>7, <3>1 DEF RunnerInv, ClaimIsKnown, Working
  <2>9. LocalsAgree(x) /\ x.mode = "revise"
    BY <1>0, <2>4, Worker DEF LocalsAgree, Working
  <2>10. PlanIsShown(p)'
    BY <2>7, <2>9 DEF PlanIsShown
  <2> QED
    BY <1>0, <2>3, <2>4, <2>6, <2>8, <2>9, <2>10, Worker, RunnerTurn
<1> QED
  BY <1>0, <1>1, ThrowKeepsInv DEF Revise

\* A process that goes to its labels, whatever it wrote or lost on the way.
LEMMA LabelsTurn ==
    ASSUME RunnerInv, NEW p \in Deliveries, Alive(p), NEW x \in Process,
           proc' = [proc EXCEPT ![p] = x], x.pc = "labels",
           x.ending \in {"failed", proc[p].ending},
           x.run = proc[p].run, x.plan = proc[p].plan, x.shown = proc[p].shown,
           x.mode = proc[p].mode, x.pushed = proc[p].pushed, x.done = proc[p].done,
           proc[p].pc # "begin", UNCHANGED overlap, LedgerMove(p),
           proc[p].run # Nil => status'[proc[p].run] # "none",
           ticket' \in [labels : SUBSET TerminalLabels, plan : Deliveries \cup {Nil},
                        block : Deliveries \cup {Nil}],
           ticket'.block = ticket.block,
           "df:done" \in ticket'.labels => "df:done" \in ticket.labels \/ (x.pushed /\ x.done)
    PROVE  RunnerInv'
<1>1. LocalsAgree(x)
  BY Worker DEF LocalsAgree, Working, Alive
<1>2. PlanIsShown(p)'
  BY Worker DEF PlanIsShown, RunnerInv
<1>3. ClaimIsKnown(p)'
  BY DEF ClaimIsKnown, RunnerInv
<1> QED
  BY <1>1, <1>2, <1>3, RunnerTurn DEF Working

\* A process that is over, with what is to show of its claim.
LEMMA OverTurn ==
    ASSUME RunnerInv, NEW p \in Deliveries, Alive(p), NEW x \in Process,
           NEW pc \in {"parked", "ended"},
           proc' = [proc EXCEPT ![p] = x], x.pc = pc, x.ending = "failed",
           x.mode = "fresh", x.plan = Nil, x.shown = Nil, x.run = proc[p].run,
           x.pushed = proc[p].pushed, x.done = proc[p].done,
           UNCHANGED overlap, LedgerMove(p),
           proc[p].run # Nil => status'[proc[p].run] # "none",
           proc[p].run # Nil /\ ~x.lost /\ ~Shared(p) =>
               \/ status'[proc[p].run] \in Terminal
               \/ pc = "parked" /\ status'[proc[p].run] = "blocked",
           ticket' \in [labels : SUBSET TerminalLabels, plan : Deliveries \cup {Nil},
                        block : Deliveries \cup {Nil}],
           ticket'.block = ticket.block,
           "df:done" \in ticket'.labels => "df:done" \in ticket.labels \/ (x.pushed /\ x.done)
    PROVE  RunnerInv'
<1>1. proc'[p] = x /\ \A q \in Deliveries \ {p} : proc'[q] = proc[q]
  BY DEF RunnerInv
<1>2. LocalsAgree(x)
  BY StoppedAgrees
<1>3. PlanIsShown(p)'
  BY <1>1 DEF PlanIsShown
<1>4. ClaimIsKnown(p)'
  <2>1. Shared(p)' <=> Shared(p)
    BY <1>1 DEF Shared
  <2> QED
    BY <1>1, <2>1 DEF ClaimIsKnown, Working
<1> QED
  BY <1>2, <1>3, <1>4, RunnerTurn

\* The park: the question blocks the run, or the process cleans up.
LEMMA ParkKeepsInv ==
    ASSUME RunnerInv, NEW p \in Deliveries, Park(p)
    PROVE  RunnerInv'
<1> DEFINE r == proc[p].run
           e == QuestionEvent(proc[p].round)
<1>0. Alive(p) /\ proc[p].pc = "park" /\ UNCHANGED <<overlap, ticket>>
  BY DEF Park, Alive, Working
<1>1. e \in WritesOf(p) /\ e.status # "succeeded" /\ e.type = "worker.question"
  BY <1>0, Worker DEF WritesOf, QuestionEvent, Process
<1>2. CASE /\ Write(r, e, FALSE)
           /\ proc' = [proc EXCEPT ![p].pc = "labels", ![p].aborting = TRUE,
                           ![p].lost = @ \/ CanWrite(r, e)]
  <2> DEFINE lost == proc[p].lost \/ CanWrite(r, e)
             x == [proc[p] EXCEPT !.pc = "labels", !.aborting = TRUE, !.lost = lost]
  <2>1. LedgerMove(p) /\ (r # Nil => status'[r] # "none")
    BY <1>0, <1>1, <1>2, WriteMoves
  <2>2. proc' = [proc EXCEPT ![p] = x]
    BY <1>2 DEF RunnerInv, Process
  <2>3. lost \in BOOLEAN
    OBVIOUS
  <2> HIDE DEF lost
  <2>4. /\ x \in Process /\ x.pc = "labels" /\ x.ending = proc[p].ending
        /\ x.run = proc[p].run /\ x.plan = proc[p].plan /\ x.shown = proc[p].shown
        /\ x.mode = proc[p].mode /\ x.pushed = proc[p].pushed /\ x.done = proc[p].done
    <3>1. proc[p] \in Process
      BY <1>0, Worker
    <3> QED
      BY <3>1, <2>3 DEF Process, Working
  <2> HIDE DEF x
  <2> QED
    BY <1>0, <2>1, <2>2, <2>4, Worker, LabelsTurn
<1>3. ASSUME Write(r, e, TRUE)
      PROVE  /\ LedgerMove(p) /\ r \in Runs /\ r # Nil /\ status'[r] # "none"
             /\ ~proc[p].lost /\ ~Shared(p) => status'[r] = "blocked"
  <2>1. LedgerMove(p) /\ r # Nil /\ r \in Runs /\ status'[r] # "none"
    BY <1>0, <1>1, <1>3, Worker, WriteMoves
  <2>2. ~proc[p].lost /\ ~Shared(p) => e \notin log[r]
    BY <1>0, <1>1, <2>1 DEF RunnerInv, ClaimIsKnown, Working
  <2>3. AppendEvent(r, e) => status'[r] = "blocked"
    <3>1. e.status = "blocked" /\ e.status # Nil
      BY LedgerAssumption DEF QuestionEvent
    <3> QED
      BY <1>1, <2>1, <3>1, RunnerEvents, AppendEffect DEF RunnerInv, StatusAfter
  <2> QED
    BY <1>3, <2>1, <2>2, <2>3 DEF Write
<1>4. CASE Write(r, e, TRUE) /\ Stop(p, "parked")
  <2> DEFINE x == Stopped(p, "parked")
  <2>1. /\ x \in Process /\ x.pc = "parked" /\ x.ending = "failed"
        /\ x.mode = "fresh" /\ x.plan = Nil /\ x.shown = Nil /\ x.run = proc[p].run
        /\ x.pushed = proc[p].pushed /\ x.done = proc[p].done /\ x.lost = proc[p].lost
    BY <1>0, Worker, StoppedFields
  <2>2. proc' = [proc EXCEPT ![p] = x]
    BY <1>4 DEF Stop
  <2> HIDE DEF x, r, e
  <2>3. /\ LedgerMove(p) /\ status'[r] # "none"
        /\ ~proc[p].lost /\ ~Shared(p) => status'[r] = "blocked"
    BY <1>3, <1>4
  <2> QED
    BY <1>0, <2>1, <2>2, <2>3, Worker, OverTurn DEF r
<1>5. CASE Write(r, e, TRUE) /\ Throw(p)
  <2> DEFINE x == [proc[p] EXCEPT !.pc = "labels", !.ending = "failed", !.aborting = TRUE]
  <2>1. proc' = [proc EXCEPT ![p] = x]
    BY <1>5 DEF Throw, RunnerInv, Process
  <2>2. /\ x \in Process /\ x.pc = "labels" /\ x.ending = "failed"
        /\ x.run = proc[p].run /\ x.plan = proc[p].plan /\ x.shown = proc[p].shown
        /\ x.mode = proc[p].mode /\ x.pushed = proc[p].pushed /\ x.done = proc[p].done
    BY <1>0, Worker DEF Process, Working
  <2> HIDE DEF x
  <2>3. LedgerMove(p) /\ status'[r] # "none"
    BY <1>3, <1>5
  <2> QED
    BY <1>0, <2>1, <2>2, <2>3, Worker, LabelsTurn
<1> QED
  BY <1>2, <1>4, <1>5 DEF Park

\* The coding phase: green, failed, or tripped and recorded.
LEMMA CodeKeepsInv ==
    ASSUME RunnerInv, NEW p \in Deliveries, Code(p)
    PROVE  RunnerInv'
<1>0. Alive(p) /\ proc[p].pc = "code" /\ UNCHANGED <<overlap, ticket>>
  BY DEF Code, Alive, Working
<1>1. CASE Goto(p, "push") /\ UNCHANGED ledgerVars
  <2>1. proc[p].mode = "approve"
    BY <1>0, Worker DEF LocalsAgree
  <2> QED
    BY <1>0, <1>1, <2>1, Worker, GoOnKeepsInv
<1>2. CASE EndFailed(p) /\ UNCHANGED ledgerVars
  BY <1>0, <1>2, ThrowKeepsInv
<1>3. ASSUME NEW ok \in BOOLEAN, Write(proc[p].run, TripRecord, ok), EndFailed(p)
      PROVE  RunnerInv'
  <2> DEFINE x == [proc[p] EXCEPT !.pc = "labels", !.ending = "failed"]
  <2>1. /\ TripRecord \in WritesOf(p) /\ TripRecord.status # "succeeded"
        /\ TripRecord.type # "worker.question"
    BY DEF WritesOf, TripRecord
  <2>2. LedgerMove(p) /\ (proc[p].run # Nil => status'[proc[p].run] # "none")
    BY <1>0, <1>3, <2>1, WriteMoves
  <2>3. proc' = [proc EXCEPT ![p] = x]
    BY <1>3 DEF EndFailed, RunnerInv, Process
  <2>4. /\ x \in Process /\ x.pc = "labels" /\ x.ending = "failed"
        /\ x.run = proc[p].run /\ x.plan = proc[p].plan /\ x.shown = proc[p].shown
        /\ x.mode = proc[p].mode /\ x.pushed = proc[p].pushed /\ x.done = proc[p].done
    BY <1>0, Worker DEF Process, Working
  <2> HIDE DEF x
  <2> QED
    BY <1>0, <2>2, <2>3, <2>4, Worker, LabelsTurn
<1> QED
  BY <1>1, <1>2, <1>3 DEF Code

-----------------------------------------------------------------------------
(* The terminal lifecycle                                                  *)

\* The events that end a run.
EndEvents == {MarkerEvent(s) : s \in {"failed", "succeeded"}}
             \cup {LabelFailureEvent(s) : s \in {"failed", "succeeded"}}

\* A run that cannot take its end has ended, and one that took it has.
LEMMA EndsAreFinal ==
    ASSUME RunnerInv, NEW r \in Runs, NEW e \in EndEvents, status[r] # "none"
    PROVE  /\ ~CanWrite(r, e) => status[r] \in Terminal
           /\ e \in log[r] => status[r] \in Terminal
           /\ AppendEvent(r, e) => status'[r] \in Terminal
           /\ e \notin log[r] /\ CanWrite(r, e) => ~EventIsLogged(r, e.id) /\ Applies(e, status[r])
<1>1. e.type = "run.terminal" /\ EndsRun(e) /\ e.status \in Terminal
  BY DEF EndEvents, MarkerEvent, LabelFailureEvent, EndsRun, Terminal
<1>2. EventIsLogged(r, e.id) => status[r] \in Terminal
  BY <1>1 DEF EventIsLogged, RunnerInv, EndedByEvents, EndsRun
<1>3. status[r] \notin Terminal => Applies(e, status[r])
  BY <1>1, LedgerAssumption DEF Applies, StatusAfter
<1>4. r # Nil
  BY LedgerAssumption
<1>5. e \in log[r] => EventIsLogged(r, e.id)
  BY DEF EventIsLogged
<1>6. AppendEvent(r, e) => status'[r] \in Terminal
  <2>1. \A t : StatusAfter(e, t) = e.status
    BY <1>1, LedgerAssumption DEF StatusAfter, Terminal
  <2> QED
    BY <1>1, <2>1 DEF AppendEvent, RunnerInv, TypeOK
<1> QED
  BY <1>2, <1>3, <1>4, <1>5, <1>6 DEF CanWrite

\* What ends with the outcome of the process is an event it may write.
LEMMA EndsAreWrites ==
    ASSUME RunnerInv, NEW p \in Deliveries, Alive(p),
           NEW e \in {MarkerEvent(proc[p].ending), LabelFailureEvent(proc[p].ending)}
    PROVE  /\ e \in WritesOf(p) /\ e \in EndEvents
           /\ e.type # "worker.question"
           /\ e.status = "succeeded" => proc[p].ending = "succeeded"
<1>1. proc[p].ending \in {"failed", "succeeded"}
  BY Worker DEF Process
<1> QED
  BY <1>1 DEF WritesOf, EndEvents, MarkerEvent, LabelFailureEvent

\* It returned: a failure that was not released yet is thrown, and the rest is
\* over, with the run ended.
LEMMA FinalisedKeepsInv ==
    ASSUME RunnerInv, NEW p \in Deliveries, Alive(p), proc[p].pc \in {"labels", "marker"},
           Finalised(p), UNCHANGED <<overlap, ticket>>, LedgerMove(p),
           proc[p].run # Nil => status'[proc[p].run] \in Terminal
    PROVE  RunnerInv'
<1>0. proc[p].run # Nil => status'[proc[p].run] # "none"
  BY DEF Terminal
<1>1. CASE Throw(p)
  <2> DEFINE x == [proc[p] EXCEPT !.pc = "labels", !.ending = "failed", !.aborting = TRUE]
  <2>1. proc' = [proc EXCEPT ![p] = x]
    BY <1>1 DEF Throw, RunnerInv, Process
  <2>2. /\ x \in Process /\ x.pc = "labels" /\ x.ending = "failed"
        /\ x.run = proc[p].run /\ x.plan = proc[p].plan /\ x.shown = proc[p].shown
        /\ x.mode = proc[p].mode /\ x.pushed = proc[p].pushed /\ x.done = proc[p].done
    BY Worker DEF Process, Working
  <2> HIDE DEF x
  <2> QED
    BY <1>0, <2>1, <2>2, Worker, LabelsTurn
<1>2. CASE Stop(p, "ended")
  <2> DEFINE x == Stopped(p, "ended")
  <2>1. /\ x \in Process /\ x.pc = "ended" /\ x.ending = "failed"
        /\ x.mode = "fresh" /\ x.plan = Nil /\ x.shown = Nil /\ x.run = proc[p].run
        /\ x.pushed = proc[p].pushed /\ x.done = proc[p].done
    BY Worker, StoppedFields
  <2>2. proc' = [proc EXCEPT ![p] = x]
    BY <1>2 DEF Stop
  <2> HIDE DEF x
  <2> QED
    BY <1>0, <2>1, <2>2, Worker, OverTurn
<1> QED
  BY <1>1, <1>2 DEF Finalised

\* It threw: the process releases the claim next, or was releasing it and is
\* over, with the run ended unless the ledger lost a write.
LEMMA ThrewKeepsInv ==
    ASSUME RunnerInv, NEW p \in Deliveries, Alive(p), proc[p].pc \in {"labels", "marker"},
           NEW lost \in BOOLEAN, proc' = [proc EXCEPT ![p] = ThrewLosing(p, lost)],
           UNCHANGED overlap, LedgerMove(p),
           proc[p].run # Nil => status'[proc[p].run] # "none",
           proc[p].run # Nil /\ ~lost => status'[proc[p].run] \in Terminal,
           ticket' \in [labels : SUBSET TerminalLabels, plan : Deliveries \cup {Nil},
                        block : Deliveries \cup {Nil}],
           ticket'.block = ticket.block,
           "df:done" \in ticket'.labels =>
               "df:done" \in ticket.labels \/ (proc[p].pushed /\ proc[p].done)
    PROVE  RunnerInv'
<1> DEFINE q == [proc[p] EXCEPT !.lost = @ \/ lost]
<1>1. /\ q \in Process /\ q.lost = (proc[p].lost \/ lost) /\ q.aborting = proc[p].aborting
      /\ q.run = proc[p].run /\ q.plan = proc[p].plan /\ q.shown = proc[p].shown
      /\ q.mode = proc[p].mode /\ q.pushed = proc[p].pushed /\ q.done = proc[p].done
  <2>1. (proc[p].lost \/ lost) \in BOOLEAN
    OBVIOUS
  <2> QED
    BY <2>1, Worker DEF Process
<1>2. ThrewLosing(p, lost) =
        IF q.aborting THEN [Stopped(p, "ended") EXCEPT !.lost = q.lost]
        ELSE [q EXCEPT !.pc = "labels", !.ending = "failed", !.aborting = TRUE]
  BY DEF ThrewLosing
<1> HIDE DEF q
<1>3. CASE q.aborting
  <2> DEFINE x == [Stopped(p, "ended") EXCEPT !.lost = q.lost]
  <2>1. /\ x \in Process /\ x.pc = "ended" /\ x.ending = "failed"
        /\ x.mode = "fresh" /\ x.plan = Nil /\ x.shown = Nil /\ x.run = proc[p].run
        /\ x.pushed = proc[p].pushed /\ x.done = proc[p].done /\ x.lost = q.lost
    <3>1. q.lost \in BOOLEAN
      BY <1>1 DEF Process
    <3> QED
      BY <3>1, Worker, StoppedFields DEF Process
  <2>2. proc' = [proc EXCEPT ![p] = x]
    BY <1>2, <1>3
  <2> HIDE DEF x
  <2>3. ~x.lost => ~lost
    BY <1>1, <2>1
  <2> QED
    BY <2>1, <2>2, <2>3, OverTurn
<1>4. CASE ~q.aborting
  <2> DEFINE x == [q EXCEPT !.pc = "labels", !.ending = "failed", !.aborting = TRUE]
  <2>1. /\ x \in Process /\ x.pc = "labels" /\ x.ending = "failed"
        /\ x.run = proc[p].run /\ x.plan = proc[p].plan /\ x.shown = proc[p].shown
        /\ x.mode = proc[p].mode /\ x.pushed = proc[p].pushed /\ x.done = proc[p].done
    BY <1>1 DEF Process, Working
  <2>2. proc' = [proc EXCEPT ![p] = x]
    BY <1>2, <1>4
  <2> HIDE DEF x
  <2> QED
    BY <2>1, <2>2, LabelsTurn
<1> QED
  BY <1>3, <1>4

\* The outcome's label is earned by the process that writes it.
LEMMA LabelIsEarned ==
    ASSUME NEW p \in Deliveries, "df:done" \in OutcomeLabel(p), LocalsAgree(proc[p])
    PROVE  proc[p].pushed /\ proc[p].done
BY DEF OutcomeLabel, LocalsAgree

LEMMA FinaliseLabelsKeepsInv ==
    ASSUME RunnerInv, NEW p \in Deliveries, FinaliseLabels(p)
    PROVE  RunnerInv'
<1> DEFINE r == proc[p].run
           e == LabelFailureEvent(proc[p].ending)
           labelled == ticket.labels \cup OutcomeLabel(p)
<1>0. Alive(p) /\ proc[p].pc = "labels" /\ UNCHANGED overlap
  BY DEF FinaliseLabels, Alive, Working
<1>1. ASSUME NEW ls \in {ticket.labels, labelled}, ticket' = [ticket EXCEPT !.labels = ls]
      PROVE  /\ ticket' \in [labels : SUBSET TerminalLabels, plan : Deliveries \cup {Nil},
                             block : Deliveries \cup {Nil}]
             /\ ticket'.block = ticket.block
             /\ "df:done" \in ticket'.labels =>
                    "df:done" \in ticket.labels \/ (proc[p].pushed /\ proc[p].done)
  <2>1. labelled \in SUBSET TerminalLabels
    BY <1>0, Worker DEF OutcomeLabel, TerminalLabels
  <2> HIDE DEF labelled
  <2>2. /\ ticket' \in [labels : SUBSET TerminalLabels, plan : Deliveries \cup {Nil},
                        block : Deliveries \cup {Nil}]
        /\ ticket'.block = ticket.block /\ ticket'.labels = ls
    BY <1>0, <1>1, <2>1, Worker
  <2> QED
    BY <1>0, <1>1, <2>2, Worker, LabelIsEarned DEF labelled
<1>2. CASE IsMarked(p) /\ Finalised(p) /\ UNCHANGED <<ledgerVars, ticket>>
  <2>1. LedgerMove(p)
    BY <1>2 DEF LedgerMove
  <2>2. r # Nil => status'[r] \in Terminal
    BY <1>0, <1>2, Worker, EndsAreFinal, EndsAreWrites DEF IsMarked, ledgerVars
  <2> QED
    BY <1>0, <1>2, <2>1, <2>2, FinalisedKeepsInv
<1>3. CASE /\ ticket' = [ticket EXCEPT !.labels = labelled]
           /\ Goto(p, "marker") /\ UNCHANGED ledgerVars
  <2> DEFINE x == [proc[p] EXCEPT !.pc = "marker"]
  <2>1. /\ x \in Process /\ x.pc = "marker" /\ x.mode = proc[p].mode
        /\ x.plan = proc[p].plan /\ x.shown = proc[p].shown
        /\ x.ending = proc[p].ending /\ x.run = proc[p].run
        /\ x.pushed = proc[p].pushed /\ x.done = proc[p].done /\ x.lost = proc[p].lost
    BY <1>0, Worker DEF Process, Working
  <2>2. proc' = [proc EXCEPT ![p] = x]
    BY <1>3 DEF Goto
  <2> HIDE DEF x
  <2>3. LocalsAgree(x)
    BY <1>0, <2>1, Worker DEF LocalsAgree, Working
  <2>4. PlanIsShown(p)'
    BY <1>0, <2>1, <2>2, Worker DEF PlanIsShown, RunnerInv
  <2>5. ClaimIsKnown(p)'
    BY <2>1, <2>2 DEF ClaimIsKnown, RunnerInv
  <2>6. LedgerMove(p) /\ (x.run # Nil => status'[x.run] # "none")
    BY <1>0, <1>3, <2>1, Worker DEF LedgerMove, ledgerVars
  <2> QED
    BY <1>0, <1>1, <1>3, <2>1, <2>2, <2>3, <2>4, <2>5, <2>6, RunnerTurn
<1>4. ASSUME NEW after \in {ticket.labels, labelled}, NEW lost \in BOOLEAN,
             lost => CanWrite(r, e), ticket' = [ticket EXCEPT !.labels = after],
             IF CanWrite(r, e) /\ ~lost /\ e \notin log[r]
             THEN AppendEvent(r, e) ELSE UNCHANGED ledgerVars,
             proc' = [proc EXCEPT ![p] = ThrewLosing(p, lost)]
      PROVE  RunnerInv'
  <2>1. e \in WritesOf(p) /\ e \in EndEvents /\ e.type # "worker.question"
        /\ (e.status = "succeeded" => proc[p].ending = "succeeded")
    BY <1>0, EndsAreWrites
  <2>2. LedgerMove(p)
    <3>1. CanWrite(r, e) => r # Nil
      BY DEF CanWrite
    <3> HIDE DEF e
    <3> QED
      BY <1>4, <2>1, <3>1 DEF LedgerMove
  <2>3. r # Nil => status'[r] # "none"
    BY <1>0, <2>2, Worker, LedgerMoveIsNext, LedgerGrows DEF RunnerInv
  <2>4. r # Nil /\ ~lost => status'[r] \in Terminal
    <3> SUFFICES ASSUME r # Nil, ~lost
                 PROVE  status'[r] \in Terminal
      OBVIOUS
    <3>1. r \in Runs /\ status[r] # "none"
      BY <1>0, Worker
    <3>2. CASE AppendEvent(r, e)
      BY <2>1, <3>1, <3>2, EndsAreFinal
    <3>3. CASE UNCHANGED ledgerVars /\ (~CanWrite(r, e) \/ e \in log[r])
      BY <2>1, <3>1, <3>3, EndsAreFinal DEF ledgerVars
    <3> QED
      BY <1>4, <3>2, <3>3
  <2> HIDE DEF r, e
  <2> QED
    BY <1>0, <1>1, <1>4, <2>2, <2>3, <2>4, ThrewKeepsInv DEF r
<1> QED
  BY <1>2, <1>3, <1>4 DEF FinaliseLabels

LEMMA FinaliseMarkerKeepsInv ==
    ASSUME RunnerInv, NEW p \in Deliveries, FinaliseMarker(p)
    PROVE  RunnerInv'
<1> DEFINE r == proc[p].run
           e == MarkerEvent(proc[p].ending)
<1>0. Alive(p) /\ proc[p].pc = "marker" /\ UNCHANGED <<overlap, ticket>>
  BY DEF FinaliseMarker, Alive, Working
<1>1. e \in WritesOf(p) /\ e \in EndEvents /\ e.type # "worker.question"
      /\ (e.status = "succeeded" => proc[p].ending = "succeeded")
  BY <1>0, EndsAreWrites
<1>2. CASE Write(r, e, TRUE) /\ Finalised(p)
  <2>1. LedgerMove(p) /\ r # Nil
    BY <1>0, <1>1, <1>2, WriteMoves
  <2>2. status'[r] \in Terminal
    BY <1>0, <1>1, <1>2, <2>1, Worker, EndsAreFinal DEF Write, ledgerVars
  <2> QED
    BY <1>0, <1>2, <2>1, <2>2, FinalisedKeepsInv
<1>3. ASSUME Write(r, e, FALSE), r # Nil, status[r] \in Terminal, Finalised(p)
      PROVE  RunnerInv'
  <2>1. LedgerMove(p) /\ status' = status
    BY <1>0, <1>1, <1>3, WriteMoves DEF ledgerVars
  <2> QED
    BY <1>0, <1>3, <2>1, FinalisedKeepsInv
<1>4. ASSUME Write(r, e, FALSE), ~(r # Nil /\ status[r] \in Terminal),
             proc' = [proc EXCEPT ![p] = ThrewLosing(p, CanWrite(r, e))]
      PROVE  RunnerInv'
  <2> DEFINE lost == CanWrite(r, e)
  <2>1. LedgerMove(p) /\ UNCHANGED ledgerVars
    BY <1>0, <1>1, <1>4, WriteMoves
  <2>2. r # Nil => lost /\ status'[r] # "none"
    BY <1>0, <1>1, <1>4, <2>1, Worker, EndsAreFinal DEF ledgerVars
  <2>3. lost \in BOOLEAN
    BY DEF CanWrite
  <2>4. proc' = [proc EXCEPT ![p] = ThrewLosing(p, lost)]
    BY <1>4
  <2> HIDE DEF lost
  <2> QED
    BY <1>0, <2>1, <2>2, <2>3, <2>4, Worker, ThrewKeepsInv
<1> QED
  BY <1>2, <1>3, <1>4 DEF FinaliseMarker

-----------------------------------------------------------------------------
(* The beginning of a process, and the operator                            *)

\* A process is launched beside the others.
LEMMA LaunchKeepsInv ==
    ASSUME RunnerInv, NEW p \in Deliveries, NEW m \in Modes, Launch(p, m)
    PROVE  RunnerInv'
<1> DEFINE seen == IF ticket.plan = ticket.block THEN ticket.plan ELSE Nil
           x == [proc[p] EXCEPT !.pc = "begin", !.mode = m, !.shown = seen]
<1>0. /\ proc[p] \in Process /\ LocalsAgree(proc[p]) /\ proc[p].pc = "idle"
      /\ seen \in Deliveries \cup {Nil} /\ UNCHANGED <<ledgerVars, ticket>>
      /\ overlap' \in BOOLEAN
      /\ ~overlap' => ~overlap /\ \A q \in Deliveries : ~Alive(q)
  BY DEF Launch, RunnerInv
<1>1. proc' = [proc EXCEPT ![p] = x]
  BY DEF Launch, RunnerInv, Process
<1>2. seen # Nil => ticket.block = seen
  OBVIOUS
<1> HIDE DEF seen
<1>3. /\ x \in Process /\ x.pc = "begin" /\ x.mode = m /\ x.plan = Nil
      /\ x.shown = seen /\ x.ending = "failed" /\ x.run = Nil
      /\ ~x.pushed /\ ~x.done
  BY <1>0 DEF Process, Working, LocalsAgree
<1> HIDE DEF x
<1>4. proc'[p] = x /\ \A q \in Deliveries \ {p} : proc'[q] = proc[q]
  BY <1>1 DEF RunnerInv
<1>5. proc' \in [Deliveries -> Process] /\ \A q \in Deliveries : LocalsAgree(proc'[q])
  <2>1. LocalsAgree(x)
    BY <1>3 DEF LocalsAgree, Working
  <2> QED
    BY <1>1, <1>3, <1>4, <2>1 DEF RunnerInv
<1>6. \A q \in Deliveries : proc'[q].run = proc[q].run /\ (Shared(q)' <=> Shared(q))
  <2>1. \A q \in Deliveries : proc'[q].run = proc[q].run
    BY <1>0, <1>3, <1>4 DEF LocalsAgree
  <2> QED
    BY <2>1 DEF Shared
<1>7. AuthorsDoNotCode'
  <2> SUFFICES ASSUME NEW a \in Deliveries,
                      ticket'.block = a \/ \E q \in Deliveries : proc'[q].plan = a
               PROVE  proc'[a].pc \notin {"idle", "begin"} /\ proc'[a].mode # "approve"
    BY DEF AuthorsDoNotCode
  <2>1. ticket.block = a \/ \E q \in Deliveries : proc[q].plan = a
    BY <1>0, <1>3, <1>4, RunnerAssumption
  <2> QED
    BY <1>0, <1>4, <2>1 DEF RunnerInv, AuthorsDoNotCode
<1>8. ~overlap' => \A q, o \in Deliveries : Alive(q)' /\ Alive(o)' => q = o
  BY <1>0, <1>4 DEF Alive
<1>9. ASSUME NEW q \in Deliveries
      PROVE  PlanIsShown(q)'
  <2>1. CASE q = p
    BY <1>0, <1>2, <1>3, <1>4, <2>1 DEF PlanIsShown
  <2>2. CASE q # p
    <3>1. proc[q].mode = "approve" => Alive(q)
      BY DEF RunnerInv, LocalsAgree, Alive
    <3> QED
      BY <1>0, <1>4, <2>2, <3>1 DEF PlanIsShown
  <2> QED
    BY <2>1, <2>2
<1>10. ASSUME NEW q \in Deliveries
       PROVE  ClaimIsKnown(q)'
  <2>1. CASE q = p
    BY <1>3, <1>4, <2>1 DEF ClaimIsKnown
  <2>2. CASE q # p
    BY <1>0, <1>4, <1>6, <2>2 DEF ClaimIsKnown, RunnerInv, ledgerVars
  <2> QED
    BY <2>1, <2>2
<1>11. /\ \A q \in Deliveries : proc'[q].run # Nil => status'[proc'[q].run] # "none"
       /\ \A r \in Runs : status'[r] # "none" => \E q \in Deliveries : proc'[q].run = r
       /\ \A r \in Runs : IsFiniteSet(log'[r])
       /\ TypeOK' /\ EndedByEvents'
  BY <1>0, <1>6 DEF RunnerInv, EndedByEvents, TypeOK, ledgerVars
<1>12. OutcomeIsEarned'
  <2>1. \A q \in Deliveries : /\ proc[q].pushed => proc'[q].pushed
                              /\ proc[q].done => proc'[q].done
    <3>1. ~proc[p].done
      BY <1>0 DEF LocalsAgree
    <3>2. ~proc[p].pushed
      BY <1>0 DEF LocalsAgree
    <3> QED
      BY <1>4, <3>1, <3>2
  <2>2. OutcomeIsEarned /\ ticket' = ticket /\ status' = status
    BY <1>0 DEF RunnerInv, ledgerVars
  <2>3. "df:done" \in ticket'.labels =>
           \E q \in Deliveries : proc'[q].pushed /\ proc'[q].done
    <3>1. ASSUME "df:done" \in ticket'.labels
          PROVE  \E q \in Deliveries : proc'[q].pushed /\ proc'[q].done
      <4>1. PICK q \in Deliveries : proc[q].pushed /\ proc[q].done
        BY <2>2, <3>1 DEF OutcomeIsEarned
      <4>2. proc'[q].pushed /\ proc'[q].done
        BY <2>1, <4>1
      <4> QED
        BY <4>2
    <3> QED
      BY <3>1
  <2>4. ASSUME NEW r \in Runs, status'[r] = "succeeded"
        PROVE  \E q \in Deliveries : proc'[q].run = r /\ proc'[q].pushed
    <3>1. PICK q \in Deliveries : proc[q].run = r /\ proc[q].pushed
      BY <2>2, <2>4 DEF OutcomeIsEarned
    <3>2. proc'[q].run = r
      BY <1>6, <3>1
    <3>3. proc'[q].pushed
      BY <2>1, <3>1
    <3> QED
      BY <3>2, <3>3
  <2> QED
    BY <2>3, <2>4 DEF OutcomeIsEarned
<1> QED
  BY <1>0, <1>5, <1>7, <1>8, <1>9, <1>10, <1>11, <1>12 DEF RunnerInv

\* The record of a run begins, or the parked run of a resume is taken up; a
\* run taken up is another process's too.
LEMMA BeginKeepsInv ==
    ASSUME RunnerInv, NEW p \in Deliveries, Begin(p)
    PROVE  RunnerInv'
<1>0. /\ Alive(p) /\ proc[p].pc = "begin" /\ UNCHANGED <<overlap, ticket>>
      /\ proc[p].run = Nil
  <2>1. Alive(p) /\ proc[p].pc = "begin" /\ UNCHANGED <<overlap, ticket>>
    BY DEF Begin, Alive, Working
  <2> QED
    BY <2>1, Worker DEF LocalsAgree
<1>1. ASSUME NEW r \in Runs, proc' = [proc EXCEPT ![p].pc = "setup", ![p].run = r],
             \/ AcceptDelivery(p, Story, r)
             \/ UNCHANGED ledgerVars /\ status[r] # "none"
      PROVE  RunnerInv'
  <2> DEFINE x == [proc[p] EXCEPT !.pc = "setup", !.run = r]
  <2>1. /\ x \in Process /\ x.pc = "setup" /\ x.run = r
        /\ x.mode = proc[p].mode /\ x.plan = proc[p].plan /\ x.shown = proc[p].shown
        /\ x.ending = proc[p].ending
        /\ x.pushed = proc[p].pushed /\ x.done = proc[p].done
    <3>1. proc[p] \in Process
      BY <1>0, Worker
    <3> QED
      BY <3>1 DEF Process, Working
  <2>2. proc' = [proc EXCEPT ![p] = x]
    BY <1>1 DEF RunnerInv, Process
  <2> HIDE DEF x
  <2>3. proc'[p] = x /\ \A q \in Deliveries \ {p} : proc'[q] = proc[q]
    BY <2>2 DEF RunnerInv
  <2>4. LocalsAgree(x)
    BY <1>0, <2>1, Worker DEF LocalsAgree, Working
  <2>5. PlanIsShown(p)'
    BY <1>0, <2>1, <2>3, Worker DEF PlanIsShown
  <2>6. LedgerMove(p)
    BY <1>0, <1>1, <2>1, <2>3 DEF LedgerMove
  <2>7. status'[r] # "none"
    BY <1>1, AcceptEffect, RunnerAssumption DEF RunnerInv, ledgerVars
  <2>8. ClaimIsKnown(p)'
    <3>1. CASE AcceptDelivery(p, Story, r)
      <4>1. \A e \in log'[r] : e.type # "worker.question"
        BY <3>1, AcceptEffect, RunnerAssumption DEF RunnerInv
      <4> QED
        BY <2>1, <2>3, <4>1 DEF ClaimIsKnown
    <3>2. CASE UNCHANGED ledgerVars /\ status[r] # "none"
      <4>1. PICK q \in Deliveries : proc[q].run = r
        BY <3>2 DEF RunnerInv
      <4>2. q # p
        BY <1>0, <4>1, LedgerAssumption
      <4>3. Shared(p)'
        BY <2>1, <2>3, <4>1, <4>2 DEF Shared
      <4> QED
        BY <4>3 DEF ClaimIsKnown
    <3> QED
      BY <1>1, <3>1, <3>2
  <2> QED
    BY <1>0, <1>1, <2>1, <2>2, <2>4, <2>5, <2>6, <2>7, <2>8, Worker, RunnerTurn
<1>2. CASE Stop(p, "silent") /\ UNCHANGED ledgerVars
  BY <1>0, <1>2, StopKeepsInv
<1>3. CASE Goto(p, "setup") /\ UNCHANGED ledgerVars
  <2> DEFINE x == [proc[p] EXCEPT !.pc = "setup"]
  <2>1. /\ x \in Process /\ x.pc = "setup" /\ x.run = proc[p].run
        /\ x.mode = proc[p].mode /\ x.plan = proc[p].plan /\ x.shown = proc[p].shown
        /\ x.ending = proc[p].ending /\ x.lost = proc[p].lost
        /\ x.pushed = proc[p].pushed /\ x.done = proc[p].done
    BY <1>0, Worker DEF Process, Working
  <2>2. proc' = [proc EXCEPT ![p] = x]
    BY <1>3 DEF Goto
  <2> HIDE DEF x
  <2>3. LocalsAgree(x)
    BY <1>0, <2>1, Worker DEF LocalsAgree, Working
  <2>4. PlanIsShown(p)'
    BY <1>0, <2>1, <2>2, Worker DEF PlanIsShown, RunnerInv
  <2> QED
    BY <1>0, <1>3, <2>1, <2>2, <2>3, <2>4, Worker, LocalTurn DEF Working
<1>4. \A r \in ActiveRuns(Story) : r \in Runs /\ status[r] # "none"
  BY DEF ActiveRuns, Active
<1> QED
  BY <1>1, <1>2, <1>3, <1>4 DEF Begin

\* The operator retires the holder of the claim.
LEMMA RetireHolderKeepsInv ==
    ASSUME RunnerInv, RetireHolder
    PROVE  RunnerInv'
<1>1. PICK r \in Runs : AppendEvent(r, RetireEvent) /\ UNCHANGED <<ticket, proc, overlap>>
  BY DEF RetireHolder, RetireRunClaim, ActiveRuns, RetireEvent
<1>2. [Next]_ledgerVars /\ RetireEvent \in Event
  BY <1>1, RunnerEvents DEF Next
<1>3. /\ TypeOK' /\ EndedByEvents' /\ \A q \in Runs : IsFiniteSet(log'[q])
  BY <1>1, <1>2, RunnerEvents, EndsStay, LedgerTypeStep DEF RunnerInv
<1>4. /\ status'[r] = "aborted" /\ log'[r] = log[r] \cup {RetireEvent}
      /\ \A q \in Runs \ {r} : status'[q] = status[q] /\ log'[q] = log[q]
      /\ status[r] # "none"
  <2>1. RetireEvent.type = "run.terminal" /\ RetireEvent.status = "aborted"
    BY DEF RetireEvent
  <2>2. /\ status'[r] \in Terminal <=> RetireEvent.type = "run.terminal"
        /\ RetireEvent.type = "run.terminal" => RetireEvent.status = status'[r]
    BY <1>1, <1>2, AppendMoves DEF RunnerInv
  <2>3. /\ log'[r] = log[r] \cup {RetireEvent}
        /\ \A q \in Runs \ {r} : status'[q] = status[q] /\ log'[q] = log[q]
    BY <1>1, <1>2, AppendEffect DEF RunnerInv
  <2>4. status[r] # "none"
    BY <1>1 DEF AppendEvent
  <2> QED
    BY <2>1, <2>2, <2>3, <2>4
<1>5. \A p \in Deliveries : ClaimIsKnown(p)'
  <2> SUFFICES ASSUME NEW p \in Deliveries
               PROVE  ClaimIsKnown(p)'
    OBVIOUS
  <2>1. Shared(p)' <=> Shared(p)
    BY <1>1 DEF Shared
  <2>2. proc[p].run # Nil => proc[p].run \in Runs
    BY DEF RunnerInv, Process
  <2>3. RetireEvent.type # "worker.question"
    BY DEF RetireEvent
  <2> QED
    BY <1>1, <1>4, <2>1, <2>2, <2>3 DEF ClaimIsKnown, RunnerInv, Terminal
<1>6. /\ \A p \in Deliveries : proc'[p].run # Nil => status'[proc'[p].run] # "none"
      /\ \A q \in Runs : status'[q] # "none" => \E p \in Deliveries : proc'[p].run = q
      /\ OutcomeIsEarned'
  BY <1>1, <1>4 DEF RunnerInv, Process, OutcomeIsEarned
<1>7. /\ AuthorsDoNotCode' /\ (\A p \in Deliveries : PlanIsShown(p)')
      /\ ~overlap' => \A p, q \in Deliveries : Alive(p)' /\ Alive(q)' => p = q
  BY <1>1 DEF RunnerInv, AuthorsDoNotCode, PlanIsShown, Alive
<1> QED
  BY <1>1, <1>3, <1>5, <1>6, <1>7 DEF RunnerInv

-----------------------------------------------------------------------------
(* What the runner processes guarantee                                     *)

LEMMA RunnerInvStep ==
    ASSUME RunnerInv, [RunnerNext]_runnerVars
    PROVE  RunnerInv'
<1>1. ASSUME NEW p \in Deliveries, Crash(p)
      PROVE  RunnerInv'
  BY <1>1, StopKeepsInv DEF Crash
<1>2. CASE UNCHANGED runnerVars
  BY <1>2 DEF runnerVars, ledgerVars, RunnerInv, TypeOK, EndedByEvents, AuthorsDoNotCode,
     PlanIsShown, ClaimIsKnown, Shared, OutcomeIsEarned, Alive
<1> QED
  BY <1>1, <1>2, LaunchKeepsInv, BeginKeepsInv, SetupKeepsInv, PlanKeepsInv, ReviseKeepsInv,
     PostKeepsInv, ParkKeepsInv, CodeKeepsInv, PushKeepsInv, FinaliseLabelsKeepsInv,
     FinaliseMarkerKeepsInv, RetireHolderKeepsInv DEF RunnerNext, Step

LEMMA RunnerInvInit == RunnerInit => RunnerInv
<1> SUFFICES ASSUME RunnerInit
             PROVE  RunnerInv
  OBVIOUS
<1>1. Idle \in Process /\ Idle.pc = "idle" /\ Idle.run = Nil /\ LocalsAgree(Idle)
  BY RunnerAssumption DEF Idle, Process, Modes, LocalsAgree, Working
<1>2. \A p \in Deliveries : proc[p] = Idle
  BY DEF RunnerInit
<1>3. TypeOK /\ EndedByEvents /\ \A r \in Runs : status[r] = "none" /\ log[r] = {}
  BY DEF RunnerInit, Init, TypeOK, EndedByEvents
<1>4. \A r \in Runs : IsFiniteSet(log[r])
  BY <1>3, FS_EmptySet
<1>5. /\ ticket \in [labels : SUBSET TerminalLabels, plan : Deliveries \cup {Nil},
                     block : Deliveries \cup {Nil}]
      /\ ticket.block = Nil /\ ticket.labels = {} /\ overlap = FALSE
  BY DEF RunnerInit
<1>6. AuthorsDoNotCode /\ OutcomeIsEarned
  BY <1>2, <1>3, <1>5, RunnerAssumption DEF AuthorsDoNotCode, OutcomeIsEarned, Idle
<1>7. \A p \in Deliveries : PlanIsShown(p) /\ ClaimIsKnown(p) /\ ~Alive(p)
  BY <1>1, <1>2 DEF PlanIsShown, ClaimIsKnown, Alive, Idle, Working
<1>8. proc \in [Deliveries -> Process]
  BY <1>1 DEF RunnerInit
<1> QED
  BY <1>1, <1>2, <1>3, <1>4, <1>5, <1>6, <1>7, <1>8 DEF RunnerInv

THEOREM RunnerInvariant == RunnerSpec => []RunnerInv
<1>1. RunnerInv /\ [RunnerNext]_runnerVars => RunnerInv'
  BY RunnerInvStep
<1> QED
  BY <1>1, RunnerInvInit, PTL DEF RunnerSpec

LEMMA RunnerInvGood == ASSUME RunnerInv PROVE ClaimIsReleased /\ CodedPlanWasReviewed
<1>1. ClaimIsReleased
  BY DEF RunnerInv, ClaimIsKnown, ClaimIsReleased
<1>2. CodedPlanWasReviewed
  <2> SUFFICES ASSUME NEW p \in Deliveries,
                      proc[p].pc \in {"code", "push", "dod"} \/ proc[p].pushed
               PROVE  /\ proc[p].plan # p
                      /\ ~overlap /\ proc[p].shown # Nil => proc[p].plan = proc[p].shown
    BY DEF CodedPlanWasReviewed
  <2>1. LocalsAgree(proc[p]) /\ PlanIsShown(p) /\ proc[p] \in Process
    BY DEF RunnerInv
  <2>2. \/ proc[p].mode = "approve"
        \/ proc[p].plan = Nil /\ proc[p].shown = Nil
    BY <2>1 DEF LocalsAgree, Process
  <2>3. proc[p].plan # p
    BY <2>2, RunnerAssumption DEF RunnerInv, AuthorsDoNotCode
  <2> QED
    BY <2>1, <2>2, <2>3 DEF PlanIsShown
<1> QED
  BY <1>1, <1>2

\* A process that came to its own end leaves no claim behind, unless the
\* ledger lost a write or another process works on its run.
THEOREM ClaimsAreReleased == RunnerSpec => []ClaimIsReleased
<1>1. RunnerInv => ClaimIsReleased
  BY RunnerInvGood
<1> QED
  BY <1>1, RunnerInvariant, PTL

\* Nobody builds a plan of its own, nor, while the processes of an issue do
\* not overlap, one that its human was not shown.
THEOREM CodedPlansWereReviewed == RunnerSpec => []CodedPlanWasReviewed
<1>1. RunnerInv => CodedPlanWasReviewed
  BY RunnerInvGood
<1> QED
  BY <1>1, RunnerInvariant, PTL

\* What the ticket and the ledger advertise of an issue was earned.
THEOREM OutcomesAreEarned == RunnerSpec => []OutcomeIsEarned
<1>1. RunnerInv => OutcomeIsEarned
  BY DEF RunnerInv
<1> QED
  BY <1>1, RunnerInvariant, PTL

-----------------------------------------------------------------------------
(* The runner processes                                                    *)

\* Where the runner processes move, their invariant holds.
RunnerPartInv == part = "runner" => RunnerInv

\* In a behaviour of the parts the runner is the one of module Runner.
LEMMA RunnerPartStep ==
    ASSUME RunnerPartInv, [LedgerPartsNext]_partsVars
    PROVE  RunnerPartInv'
<1>1. part' = part
  BY DEF LedgerPartsNext, partsVars
<1>2. CASE part = "runner"
  <2>1. RunnerInv /\ [RunnerNext]_runnerVars
    BY <1>2 DEF RunnerPartInv, LedgerPartsNext, partsVars, runnerVars, runnerOnly
  <2> QED
    BY <1>1, <2>1, RunnerInvStep DEF RunnerPartInv
<1> QED
  BY <1>1, <1>2 DEF RunnerPartInv

\* What a ticket and its run advertise was earned, wherever the runner
\* processes share the ledger with nothing else.
THEOREM RunnersEarnTheirOutcome == LedgerPartsSpec => []RunnerOutcomeIsEarned
<1>1. LedgerPartsInit => RunnerPartInv
  BY RunnerInvInit DEF LedgerPartsInit, RunnerPartInv
<1>2. RunnerPartInv /\ [LedgerPartsNext]_partsVars => RunnerPartInv'
  BY RunnerPartStep
<1>3. RunnerPartInv => RunnerOutcomeIsEarned
  BY DEF RunnerPartInv, RunnerInv, RunnerOutcomeIsEarned
<1> QED
  BY <1>1, <1>2, <1>3, PTL DEF LedgerPartsSpec

-----------------------------------------------------------------------------
(* The model gateway                                                       *)

\* A call under way names a run that exists; it holds a reservation exactly
\* between its admission and its settlement; what it was told stands.
CallIsSound(q) ==
    /\ request[q].answer # Nil => request[q].at = "answered"
    /\ request[q].at \in {"admit", "forward", "record", "refuse"} =>
           request[q].run \in Runs /\ status[request[q].run] # "none"
    /\ request[q].at = "refuse" => request[q].reason \in Refusals
    /\ request[q].at \in {"idle", "admit", "refuse"} => q \notin held
    /\ request[q].at = "forward" => q \in held
    /\ request[q].answer \in {400, 401, 402} => q \notin held
    /\ request[q].answer = 402 =>
           /\ request[q].run \in Runs /\ status[request[q].run] # "none"
           /\ ~request[q].lost =>
                  /\ status[request[q].run] \in Terminal
                  /\ request[q].seen \in Active =>
                        /\ status[request[q].run] = "failed"
                        /\ EventIsLogged(request[q].run, RefusalId(request[q].reason))

\* A refusal on the ledger is what ended its run.
RefusedRunsFailed ==
    \A r \in Runs, n \in Refusals :
        EventIsLogged(r, RefusalId(n)) => status[r] = "failed"

GatewayInv ==
    /\ GatewayTypeOK
    /\ \A r \in leased : status[r] # "none"
    /\ RefusedRunsFailed
    /\ \A q \in Requests : CallIsSound(q)

\* The events of the gateway are events of the ledger.
LEMMA GatewayEvents ==
    /\ \A q \in Requests : CostEvent(q) \in Event
    /\ \A n \in Refusals : RefusalEvent(n) \in Event
    /\ RunEvents \subseteq Event
    /\ [id |-> RetireId, type |-> "run.terminal", status |-> "aborted"] \in Event
<1>1. /\ \A q \in Requests : CostId(q) \in EventIds
      /\ \A n \in Refusals : RefusalId(n) \in EventIds
      /\ \A e \in RunEvents : e.id \in EventIds
      /\ RetireId \in EventIds
  BY GatewayIdsAssumption, LedgerAssumption DEF GatewayEventIds
<1>2. \A q \in Requests : CostEvent(q) \in Event
  BY <1>1 DEF CostEvent, Event, WellFormed, EventTypes, RunStatus, Terminal
<1>3. \A n \in Refusals : RefusalEvent(n) \in Event
  BY <1>1 DEF RefusalEvent, Event, WellFormed, EventTypes, RunStatus, Terminal
<1>4. RunEvents \subseteq Event
  BY <1>1 DEF RunEvents, Event, WellFormed, EventTypes, WorkTypes, RunStatus, Active,
     Terminal
<1>5. [id |-> RetireId, type |-> "run.terminal", status |-> "aborted"] \in Event
  BY <1>1 DEF Event, WellFormed, EventTypes, RunStatus, Terminal
<1> QED
  BY <1>2, <1>3, <1>4, <1>5

\* An event has the identity of a refusal only if it is that refusal.
FitsRefusals(e) == \A n \in Refusals : e.id = RefusalId(n) => e = RefusalEvent(n)

LEMMA OtherIdsFit ==
    /\ \A q \in Requests : FitsRefusals(CostEvent(q))
    /\ \A n \in Refusals : FitsRefusals(RefusalEvent(n))
    /\ \A e \in RunEvents : FitsRefusals(e)
    /\ FitsRefusals([id |-> RetireId, type |-> "run.terminal", status |-> "aborted"])
BY DEF FitsRefusals, CostEvent, CostId, RefusalEvent, RefusalId, RunEvents, RetireId

\* What may happen to the ledger while the gateway works.
GatewayLedgerStep ==
    \/ \E d \in Deliveries, i \in Issues, r \in Runs : AcceptDelivery(d, i, r)
    \/ \E r \in Runs, e \in Event : FitsRefusals(e) /\ AppendEvent(r, e)
    \/ UNCHANGED ledgerVars

\* A run with a refusal on it has failed, and stays so.
LEMMA RefusedStayFailed ==
    ASSUME TypeOK, RefusedRunsFailed, GatewayLedgerStep
    PROVE  TypeOK' /\ [Next]_ledgerVars /\ RefusedRunsFailed'
<1>1. [Next]_ledgerVars
  BY DEF GatewayLedgerStep, Next
<1>2. TypeOK'
  BY <1>1, LedgerTypeStep
<1>3. ASSUME NEW r \in Runs, NEW n \in Refusals, EventIsLogged(r, RefusalId(n))'
      PROVE  status'[r] = "failed"
  <2>1. ASSUME NEW d \in Deliveries, NEW i \in Issues, NEW q \in Runs,
               AcceptDelivery(d, i, q)
        PROVE  status'[r] = "failed"
    <3>1. AcceptedId(d) # RefusalId(n)
      BY GatewayAssumption DEF AcceptedId, RefusalId
    <3>2. r # q
      BY <1>3, <2>1, <3>1, AcceptEffect DEF EventIsLogged
    <3> QED
      BY <1>3, <2>1, <3>2, AcceptEffect DEF EventIsLogged, RefusedRunsFailed
  <2>2. ASSUME NEW q \in Runs, NEW e \in Event, FitsRefusals(e), AppendEvent(q, e)
        PROVE  status'[r] = "failed"
    <3>1. CASE EventIsLogged(r, RefusalId(n))
      <4>1. status[r] = "failed"
        BY <3>1 DEF RefusedRunsFailed
      <4> QED
        BY <1>1, <4>1, TerminalStep DEF Terminal
    <3>2. CASE ~EventIsLogged(r, RefusalId(n))
      <4>1. r = q /\ e.id = RefusalId(n)
        BY <1>3, <2>2, <3>2, AppendEffect DEF EventIsLogged
      <4>2. e = RefusalEvent(n)
        BY <2>2, <4>1 DEF FitsRefusals
      <4>3. e.type = "run.terminal" /\ e.status = "failed"
        BY <4>2 DEF RefusalEvent
      <4> QED
        BY <2>2, <4>1, <4>3, AppendMoves
    <3> QED
      BY <3>1, <3>2
  <2> QED
    BY <1>3, <2>1, <2>2 DEF GatewayLedgerStep, RefusedRunsFailed, EventIsLogged, ledgerVars
<1> QED
  BY <1>1, <1>2, <1>3 DEF RefusedRunsFailed

\* Whatever happens to the ledger, what is known of a call that does not move
\* goes on to hold.
LEMMA CallStays ==
    ASSUME TypeOK, [Next]_ledgerVars, NEW q \in Requests, CallIsSound(q),
           request'[q] = request[q], q \in held' <=> q \in held
    PROVE  CallIsSound(q)'
<1>1. request[q].run \in Runs /\ status[request[q].run] # "none" =>
          /\ status'[request[q].run] # "none"
          /\ status[request[q].run] \in Terminal =>
                 status'[request[q].run] = status[request[q].run]
          /\ log[request[q].run] \subseteq log'[request[q].run]
  BY LedgerGrows
<1>2. request[q].run \in Runs /\ status[request[q].run] # "none"
          /\ EventIsLogged(request[q].run, RefusalId(request[q].reason))
        => EventIsLogged(request[q].run, RefusalId(request[q].reason))'
  BY <1>1 DEF EventIsLogged
<1> QED
  BY <1>1, <1>2 DEF CallIsSound

\* A step that leaves the requests alone.
LEMMA GatewayElsewhere ==
    ASSUME GatewayInv, GatewayLedgerStep, UNCHANGED <<request, held, outages>>,
           leased' \subseteq Runs, \A r \in leased' : status[r] # "none"
    PROVE  GatewayInv'
<1>1. TypeOK' /\ [Next]_ledgerVars /\ RefusedRunsFailed'
  BY RefusedStayFailed DEF GatewayInv, GatewayTypeOK
<1>2. \A q \in Requests : CallIsSound(q)'
  BY <1>1, CallStays DEF GatewayInv, GatewayTypeOK
<1>3. \A r \in leased' : status'[r] # "none"
  BY <1>1, LedgerGrows DEF GatewayInv, GatewayTypeOK
<1> QED
  BY <1>1, <1>2, <1>3 DEF GatewayInv, GatewayTypeOK

\* A step of one request, once what it moves to is known to be sound.
LEMMA GatewayTurn ==
    ASSUME GatewayInv, GatewayLedgerStep, UNCHANGED leased,
           NEW q \in Requests, NEW x \in Request,
           request' = [request EXCEPT ![q] = x],
           held' \in {held, held \cup {q}, held \ {q}},
           outages' \in 0..MaxOutages,
           CallIsSound(q)'
    PROVE  GatewayInv'
<1>1. TypeOK' /\ [Next]_ledgerVars /\ RefusedRunsFailed'
  BY RefusedStayFailed DEF GatewayInv, GatewayTypeOK
<1>2. ASSUME NEW p \in Requests, p # q
      PROVE  CallIsSound(p)'
  <2>1. request'[p] = request[p] /\ (p \in held' <=> p \in held)
    BY <1>2 DEF GatewayInv, GatewayTypeOK
  <2> QED
    BY <1>1, <2>1, CallStays DEF GatewayInv, GatewayTypeOK
<1>3. \A r \in leased' : status'[r] # "none"
  BY <1>1, LedgerGrows DEF GatewayInv, GatewayTypeOK
<1> QED
  BY <1>1, <1>2, <1>3 DEF GatewayInv, GatewayTypeOK

\* An answer with a code.
LEMMA RespondFields ==
    ASSUME GatewayTypeOK, NEW q \in Requests, NEW code \in Responses
    PROVE  /\ Respond(q, code) \in Request
           /\ Respond(q, code).at = "answered" /\ Respond(q, code).answer = code
           /\ Respond(q, code).run = request[q].run
           /\ Respond(q, code).reason = request[q].reason
           /\ Respond(q, code).lost = request[q].lost
BY DEF GatewayTypeOK, Request, Respond

\* A call arrives, and is turned away or goes on.
LEMMA ArriveKeepsInv ==
    ASSUME GatewayInv, NEW q \in Requests, NEW r \in Runs,
           NEW allowed \in BOOLEAN, NEW governed \in BOOLEAN,
           Arrive(q, r, allowed, governed)
    PROVE  GatewayInv'
<1> DEFINE x == CASE r \notin leased -> Respond(q, 401)
                  [] r \in leased /\ ~allowed -> [Respond(q, 400) EXCEPT !.run = r]
                  [] r \in leased /\ allowed /\ ~governed ->
                         [request[q] EXCEPT !.at = "refuse", !.run = r,
                                   !.reason = "not_configured"]
                  [] OTHER -> [request[q] EXCEPT !.at = "admit", !.run = r]
<1>1. request[q] \in Request /\ request[q].at = "idle" /\ request[q].answer = Nil
  BY GatewayAssumption DEF GatewayInv, GatewayTypeOK, CallIsSound, Arrive
<1>2. /\ request' = [request EXCEPT ![q] = x]
      /\ UNCHANGED <<ledgerVars, leased, held, outages>>
  BY DEF Arrive
<1>3. x \in Request /\ CallIsSound(q)'
  <2>1. request'[q] = x /\ q \notin held'
    BY <1>1, <1>2 DEF GatewayInv, GatewayTypeOK, CallIsSound
  <2>2. CASE r \notin leased
    <3>1. x = Respond(q, 401)
      BY <2>2
    <3> HIDE DEF x
    <3>2. /\ x \in Request /\ x.at = "answered" /\ x.answer = 401
      BY <3>1, RespondFields DEF GatewayInv, Responses
    <3> QED
      BY <2>1, <3>2 DEF CallIsSound
  <2>3. CASE r \in leased /\ ~allowed
    <3>1. x = [Respond(q, 400) EXCEPT !.run = r]
      BY <2>3
    <3> HIDE DEF x
    <3>2. /\ x \in Request /\ x.at = "answered" /\ x.answer = 400
      BY <3>1, RespondFields DEF GatewayInv, Responses, Request
    <3> QED
      BY <2>1, <3>2 DEF CallIsSound
  <2>4. CASE r \in leased /\ allowed /\ ~governed
    <3>1. x = [request[q] EXCEPT !.at = "refuse", !.run = r, !.reason = "not_configured"]
      BY <2>4
    <3> HIDE DEF x
    <3>2. /\ x \in Request /\ x.at = "refuse" /\ x.answer = Nil /\ x.run = r
          /\ x.reason = "not_configured"
      <4>1. "not_configured" \in Refusals
        BY GatewayAssumption
      <4> QED
        BY <1>1, <3>1, <4>1 DEF Request
    <3> QED
      BY <1>2, <2>1, <2>4, <3>2, GatewayAssumption DEF CallIsSound, GatewayInv, ledgerVars
  <2>5. CASE r \in leased /\ allowed /\ governed
    <3>1. x = [request[q] EXCEPT !.at = "admit", !.run = r]
      BY <2>5
    <3> HIDE DEF x
    <3>2. /\ x \in Request /\ x.at = "admit" /\ x.answer = Nil /\ x.run = r
      BY <1>1, <3>1 DEF Request
    <3> QED
      BY <1>2, <2>1, <2>5, <3>2, GatewayAssumption DEF CallIsSound, GatewayInv, ledgerVars
  <2> QED
    BY <2>2, <2>3, <2>4, <2>5
<1> HIDE DEF x
<1> QED
  BY <1>2, <1>3, GatewayTurn DEF GatewayLedgerStep, GatewayInv, GatewayTypeOK

\* A call is admitted with a reservation, or refused.
LEMMA AdmitKeepsInv ==
    ASSUME GatewayInv, NEW q \in Requests, Admit(q)
    PROVE  GatewayInv'
<1>1. /\ request[q] \in Request /\ request[q].at = "admit" /\ request[q].answer = Nil
      /\ q \notin held /\ request[q].run \in Runs /\ status[request[q].run] # "none"
  BY DEF GatewayInv, GatewayTypeOK, CallIsSound, Admit
<1>2. UNCHANGED <<ledgerVars, leased, outages>>
  BY DEF Admit
<1>3. CASE /\ request' = [request EXCEPT ![q].at = "forward"]
           /\ held' = held \cup {q}
  <2> DEFINE x == [request[q] EXCEPT !.at = "forward"]
  <2>1. request' = [request EXCEPT ![q] = x]
    BY <1>3
  <2>2. /\ x \in Request /\ x.at = "forward" /\ x.answer = Nil
        /\ x.run = request[q].run
    BY <1>1 DEF Request
  <2> HIDE DEF x
  <2>3. CallIsSound(q)'
    <3>1. request'[q] = x
      BY <2>1 DEF GatewayInv, GatewayTypeOK
    <3> QED
      BY <1>1, <1>2, <1>3, <2>2, <3>1, GatewayAssumption DEF CallIsSound, ledgerVars
  <2> QED
    BY <1>2, <1>3, <2>1, <2>2, <2>3, GatewayTurn
       DEF GatewayLedgerStep, GatewayInv, GatewayTypeOK
<1>4. ASSUME NEW n \in Refusals, UNCHANGED held,
             request' = [request EXCEPT ![q].at = "refuse", ![q].reason = n]
      PROVE  GatewayInv'
  <2> DEFINE x == [request[q] EXCEPT !.at = "refuse", !.reason = n]
  <2>1. request' = [request EXCEPT ![q] = x]
    BY <1>1, <1>4 DEF GatewayInv, GatewayTypeOK, Request
  <2>2. /\ x \in Request /\ x.at = "refuse" /\ x.answer = Nil
        /\ x.run = request[q].run /\ x.reason = n
    BY <1>1 DEF Request
  <2> HIDE DEF x
  <2>3. CallIsSound(q)'
    <3>1. request'[q] = x
      BY <2>1 DEF GatewayInv, GatewayTypeOK
    <3> QED
      BY <1>1, <1>2, <1>4, <2>2, <3>1, GatewayAssumption DEF CallIsSound, ledgerVars
  <2> QED
    BY <1>2, <1>4, <2>1, <2>2, <2>3, GatewayTurn
       DEF GatewayLedgerStep, GatewayInv, GatewayTypeOK
<1> QED
  BY <1>3, <1>4 DEF Admit

\* A forwarded call is settled, or its settlement is lost.
LEMMA ForwardKeepsInv ==
    ASSUME GatewayInv, NEW q \in Requests, NEW answered \in BOOLEAN,
           NEW settled \in BOOLEAN, ForwardCall(q, answered, settled)
    PROVE  GatewayInv'
<1> DEFINE x == IF answered THEN [request[q] EXCEPT !.at = "record"]
                ELSE Respond(q, 502)
<1>1. /\ request[q] \in Request /\ request[q].at = "forward" /\ request[q].answer = Nil
      /\ request[q].run \in Runs /\ status[request[q].run] # "none"
  BY DEF GatewayInv, GatewayTypeOK, CallIsSound, ForwardCall
<1>2. /\ request' = [request EXCEPT ![q] = x]
      /\ UNCHANGED <<ledgerVars, leased, outages>>
      /\ held' \in {held, held \cup {q}, held \ {q}}
  BY DEF ForwardCall
<1>3. /\ x \in Request /\ x.run = request[q].run
      /\ \/ x.at = "record" /\ x.answer = Nil
         \/ x.at = "answered" /\ x.answer = 502
  <2>1. CASE answered
    BY <1>1, <2>1 DEF Request
  <2>2. CASE ~answered
    BY <2>2, RespondFields DEF GatewayInv, Responses
  <2> QED
    BY <2>1, <2>2
<1> HIDE DEF x
<1>4. CallIsSound(q)'
  <2>1. request'[q] = x
    BY <1>2 DEF GatewayInv, GatewayTypeOK
  <2> QED
    BY <1>1, <1>2, <1>3, <2>1, GatewayAssumption DEF CallIsSound, ledgerVars
<1> QED
  BY <1>2, <1>3, <1>4, GatewayTurn DEF GatewayLedgerStep, GatewayInv, GatewayTypeOK

\* A refusal that applies to no run in flight finds it ended.
LEMMA RefusalApplies ==
    ASSUME NEW n \in Refusals, NEW s \in Active
    PROVE  Applies(RefusalEvent(n), s) /\ StatusAfter(RefusalEvent(n), s) = "failed"
BY StatusesApart DEF RefusalEvent, Applies, StatusAfter, Active, Terminal, RunStatus

\* What is written on a run, or lost, before the sandbox is told.
LEMMA WriteKeepsInv ==
    ASSUME GatewayInv, NEW q \in Requests,
           \/ RecordUsage(q)
           \/ RecordRefusal(q)
    PROVE  GatewayInv'
<1> DEFINE r == request[q].run
           refusing == request[q].at = "refuse"
           e == IF refusing THEN RefusalEvent(request[q].reason) ELSE CostEvent(q)
           code == IF refusing THEN 402 ELSE 200
           taken == ~EventIsLogged(r, e.id) /\ Applies(e, status[r])
           told == [Respond(q, code) EXCEPT !.seen = status[r]]
           untold == [told EXCEPT !.lost = TRUE]
<1>1. WriteOnRun(q, e, code) /\ request[q].at \in {"record", "refuse"}
  BY DEF RecordUsage, RecordRefusal
<1>2. /\ request[q] \in Request /\ request[q].answer = Nil
      /\ r \in Runs /\ status[r] # "none" /\ status[r] \in RunStatus
      /\ refusing => request[q].reason \in Refusals /\ q \notin held
  BY <1>1 DEF GatewayInv, GatewayTypeOK, CallIsSound, TypeOK
<1>3. e \in Event /\ FitsRefusals(e)
  BY <1>2, GatewayEvents, OtherIdsFit
<1>4. /\ told \in Request /\ told.at = "answered" /\ told.answer = code
      /\ told.run = r /\ told.reason = request[q].reason
      /\ told.seen = status[r] /\ told.lost = request[q].lost
  <2>1. code \in Responses
    BY DEF Responses
  <2> HIDE DEF code
  <2> QED
    BY <1>2, <2>1, RespondFields DEF GatewayInv, Request
<1>5. /\ untold \in Request /\ untold.at = "answered" /\ untold.answer = code
      /\ untold.run = r /\ untold.lost
  <2> HIDE DEF told
  <2> QED
    BY <1>4 DEF Request
<1>6. UNCHANGED <<leased, held>>
  BY <1>1 DEF WriteOnRun
<1>7. CASE /\ IF taken THEN AppendEvent(r, e) ELSE UNCHANGED ledgerVars
           /\ request' = [request EXCEPT ![q] = told]
           /\ UNCHANGED outages
  <2>1. GatewayLedgerStep
    BY <1>2, <1>3, <1>7 DEF GatewayLedgerStep
  <2>2. refusing => /\ status'[r] \in Terminal
                    /\ status[r] \in Active =>
                          /\ status'[r] = "failed"
                          /\ \E f \in log'[r] : f.id = RefusalId(request[q].reason)
    <3> SUFFICES ASSUME refusing
                 PROVE  /\ status'[r] \in Terminal
                        /\ status[r] \in Active =>
                              /\ status'[r] = "failed"
                              /\ \E f \in log'[r] : f.id = RefusalId(request[q].reason)
      OBVIOUS
    <3>1. e.id = RefusalId(request[q].reason)
      BY DEF RefusalEvent
    <3>2. CASE status[r] \in Active
      <4>1. status[r] # "failed"
        BY <3>2 DEF Active
      <4>2. taken /\ StatusAfter(e, status[r]) = "failed"
        BY <1>2, <3>1, <3>2, <4>1, RefusalApplies DEF GatewayInv, RefusedRunsFailed
      <4>3. AppendEvent(r, e)
        BY <1>7, <4>2
      <4>4. status'[r] = "failed" /\ e \in log'[r]
        BY <1>2, <1>3, <4>2, <4>3, AppendEffect DEF GatewayInv, GatewayTypeOK
      <4> QED
        BY <3>1, <4>4 DEF Terminal
    <3>3. CASE status[r] \notin Active
      <4>1. status[r] \in Terminal
        BY <1>2, <3>3 DEF RunStatus
      <4>2. status'[r] = status[r]
        BY <1>2, <2>1, <4>1, RefusedStayFailed, TerminalStep DEF GatewayInv, GatewayTypeOK
      <4> QED
        BY <3>3, <4>1, <4>2
    <3> QED
      BY <3>2, <3>3
  <2>3. CallIsSound(q)'
    <3>1. request'[q] = told
      BY <1>2, <1>7 DEF GatewayInv, GatewayTypeOK
    <3>2. status'[r] # "none"
      BY <1>2, <2>1, RefusedStayFailed, LedgerGrows DEF GatewayInv, GatewayTypeOK
    <3>3. /\ code \in {200, 402}
          /\ code = 402 => refusing
      OBVIOUS
    <3> HIDE DEF told, code, e, taken
    <3> QED
      BY <1>2, <1>4, <1>6, <2>2, <3>1, <3>2, <3>3, GatewayAssumption
         DEF CallIsSound, EventIsLogged
  <2> HIDE DEF told, code, e, taken, r
  <2> QED
    BY <1>4, <1>6, <1>7, <2>1, <2>3, GatewayTurn DEF GatewayInv, GatewayTypeOK
<1>8. CASE /\ outages < MaxOutages
           /\ outages' = outages + 1
           /\ request' = [request EXCEPT ![q] = untold]
           /\ UNCHANGED ledgerVars
  <2>1. CallIsSound(q)'
    <3>1. request'[q] = untold
      BY <1>2, <1>8 DEF GatewayInv, GatewayTypeOK
    <3>2. /\ code \in {200, 402}
          /\ code = 402 => refusing
      OBVIOUS
    <3>3. status'[r] = status[r]
      BY <1>8 DEF ledgerVars
    <3> HIDE DEF told, untold, code, e, taken
    <3> QED
      BY <1>2, <1>5, <1>6, <3>1, <3>2, <3>3, GatewayAssumption DEF CallIsSound
  <2>2. outages' \in 0..MaxOutages
    BY <1>8, GatewayAssumption DEF GatewayInv, GatewayTypeOK
  <2> HIDE DEF told, untold, code, e, taken, r
  <2> QED
    BY <1>5, <1>6, <1>8, <2>1, <2>2, GatewayTurn DEF GatewayLedgerStep
<1>9. \/ /\ IF taken THEN AppendEvent(r, e) ELSE UNCHANGED ledgerVars
         /\ request' = [request EXCEPT ![q] = told]
         /\ UNCHANGED outages
      \/ /\ outages < MaxOutages
         /\ outages' = outages + 1
         /\ request' = [request EXCEPT ![q] = untold]
         /\ UNCHANGED ledgerVars
  BY <1>1 DEF WriteOnRun
<1> QED
  BY <1>7, <1>8, <1>9

\* The process dies, and what was under way is gone.
LEMMA RestartKeepsInv ==
    ASSUME GatewayInv, GatewayRestart
    PROVE  GatewayInv'
<1>1. ASSUME NEW q \in Requests
      PROVE  /\ request'[q] \in Request
             /\ \/ request'[q] = request[q]
                \/ request'[q].at = "gone" /\ request'[q].answer = Nil
  <2>1. request[q] \in Request /\ CallIsSound(q)
    BY DEF GatewayInv, GatewayTypeOK
  <2>2. CASE request[q].at \in {"idle", "answered"}
    BY <2>1, <2>2 DEF GatewayRestart
  <2>3. CASE request[q].at \notin {"idle", "answered"}
    BY <2>1, <2>3 DEF GatewayRestart, CallIsSound, Request
  <2> QED
    BY <2>2, <2>3
<1>2. UNCHANGED <<ledgerVars, held, outages>> /\ leased' = {}
  BY DEF GatewayRestart
<1>3. ASSUME NEW q \in Requests
      PROVE  CallIsSound(q)'
  BY <1>1, <1>2, GatewayAssumption
     DEF GatewayInv, CallIsSound, ledgerVars, EventIsLogged
<1>4. request' \in [Requests -> Request]
  BY <1>1 DEF GatewayRestart
<1> QED
  BY <1>2, <1>3, <1>4
     DEF GatewayInv, GatewayTypeOK, TypeOK, RefusedRunsFailed, EventIsLogged, ledgerVars

\* The reaper gives a reservation back.
LEMMA ReapKeepsInv ==
    ASSUME GatewayInv, NEW q \in Requests, ReapReservation(q)
    PROVE  GatewayInv'
<1>1. request[q] \in Request /\ CallIsSound(q)
  BY DEF GatewayInv, GatewayTypeOK
<1>2. request' = [request EXCEPT ![q] = request[q]]
  BY DEF ReapReservation, GatewayInv, GatewayTypeOK
<1>3. CallIsSound(q)'
  BY <1>1 DEF CallIsSound, ReapReservation, ledgerVars, EventIsLogged
<1> QED
  BY <1>1, <1>2, <1>3, GatewayTurn
     DEF GatewayLedgerStep, GatewayInv, GatewayTypeOK, ReapReservation

\* Meanwhile runs are accepted, parked, resumed, ended and retired.
LEMMA RunLivesIsLedgerStep ==
    ASSUME RunLives
    PROVE  GatewayLedgerStep
<1>1. ASSUME NEW i \in Issues, RetireRunClaim(i)
      PROVE  \E r \in Runs, e \in Event : FitsRefusals(e) /\ AppendEvent(r, e)
  <2> DEFINE e == [id |-> RetireId, type |-> "run.terminal", status |-> "aborted"]
  <2>1. PICK r \in ActiveRuns(i) : AppendEvent(r, e)
    BY <1>1 DEF RetireRunClaim
  <2>2. r \in Runs /\ e \in Event /\ FitsRefusals(e)
    BY GatewayEvents, OtherIdsFit DEF ActiveRuns
  <2> QED
    BY <2>1, <2>2
<1> QED
  BY <1>1, GatewayEvents, OtherIdsFit DEF RunLives, GatewayLedgerStep

LEMMA GatewayInvStep ==
    ASSUME GatewayInv, [GatewayNext]_gatewayVars
    PROVE  GatewayInv'
<1>1. CASE RunLives
  BY <1>1, RunLivesIsLedgerStep, GatewayElsewhere
     DEF RunLives, gatewayOnly, GatewayInv, GatewayTypeOK
<1>2. ASSUME NEW r \in Runs, IssueLease(r) \/ RevokeLease(r)
      PROVE  GatewayInv'
  <2>1. status[r] \in Active => status[r] # "none"
    BY DEF Active
  <2> QED
    BY <1>2, <2>1, GatewayElsewhere
       DEF IssueLease, RevokeLease, GatewayLedgerStep, GatewayInv, GatewayTypeOK
<1>3. CASE UNCHANGED gatewayVars
  BY <1>3, GatewayElsewhere
     DEF gatewayVars, gatewayOnly, GatewayLedgerStep, GatewayInv, GatewayTypeOK
<1> QED
  BY <1>1, <1>2, <1>3, ArriveKeepsInv, AdmitKeepsInv, ForwardKeepsInv, WriteKeepsInv,
     RestartKeepsInv, ReapKeepsInv DEF GatewayNext

LEMMA GatewayInvInit == GatewayInit => GatewayInv
<1> SUFFICES ASSUME GatewayInit
             PROVE  GatewayInv
  OBVIOUS
<1>1. TypeOK /\ RefusedRunsFailed
  BY DEF GatewayInit, Init, TypeOK, RefusedRunsFailed, EventIsLogged
<1>2. \A q \in Requests : request[q] = Unsent
  BY DEF GatewayInit
<1>3. Unsent \in Request /\ Unsent.at = "idle" /\ Unsent.answer = Nil
  BY DEF Unsent, Request
<1>4. GatewayTypeOK
  BY <1>1, <1>2, <1>3, GatewayAssumption DEF GatewayInit, GatewayTypeOK
<1>5. \A q \in Requests : CallIsSound(q)
  BY <1>2, <1>3, GatewayAssumption DEF GatewayInit, CallIsSound
<1> QED
  BY <1>1, <1>4, <1>5 DEF GatewayInit, GatewayInv

\* What a sandbox was told about a refused call is on its run, whatever else
\* happens to the run, to the gateway and to its other calls.
THEOREM RefusalsAreOnTheirRuns == GatewaySpec => []RefusalIsOnTheRun
<1>1. GatewayInv /\ [GatewayNext]_gatewayVars => GatewayInv'
  BY GatewayInvStep
<1>2. GatewayInv => RefusalIsOnTheRun
  BY DEF GatewayInv, CallIsSound, RefusalIsOnTheRun
<1> QED
  BY <1>1, <1>2, GatewayInvInit, PTL DEF GatewaySpec

-----------------------------------------------------------------------------
(* The Definition of Done                                                  *)

\* Earned, and what an invocation has at each place, of its record, of the
\* statuses of the runs and of the explanations anyone can read.
EarnedBy(x, ex) == x.round > 0 /\ x.open \cup x.accepted \subseteq ex \ Grave

ReviewSound(x, st, ex) ==
    /\ x.at # "new" => x.run \in Runs /\ st[x.run] # "none"
    /\ x.at \in {"check", "fix", "post", "withhold", "carry"} => x.round > 0
    /\ x.at = "carry" => x.round # MaxRounds
    /\ x.posting \cap Grave = {}
    /\ x.accepted \subseteq ex \ Grave
    /\ x.at \in {"pass", "succeed", "label"} => EarnedBy(x, ex)
    /\ x.at = "label" => x.result = "done"
    /\ x.result = "done" => /\ x.at \in {"label", "over"}
                            /\ EarnedBy(x, ex)
                            /\ st[x.run] = "succeeded"

\* A run the ledger shows as done was earned by an invocation that is through.
SuccessIsEarned ==
    \A r \in Runs : DoneEvent("succeeded") \in log[r] =>
        /\ status[r] = "succeeded"
        /\ \E v \in Reviews : /\ review[v].run = r
                              /\ review[v].at \in {"label", "over"}
                              /\ EarnedBy(review[v], explained)

DoneInv ==
    /\ TypeOK /\ DoneTypeOK
    /\ \A v \in Reviews : ReviewSound(review[v], status, explained)
    /\ doneLabel => \E v \in Reviews : review[v].result = "done"
    /\ SuccessIsEarned

\* The events of the Definition of Done are events of the ledger, and only
\* one of them says that the run succeeded.
LEMMA DoneEvents ==
    /\ {PrEvent, CriteriaEvent, BegunEvent} \subseteq Event \ {DoneEvent("succeeded")}
    /\ \A n \in 1..MaxRounds, s \in {"running", "blocked"} :
           RoundEvent(n, s) \in Event \ {DoneEvent("succeeded")}
    /\ DoneEvent("failed") \in Event \ {DoneEvent("succeeded")}
    /\ DoneEvent("succeeded") \in Event
    /\ [id |-> RetireId, type |-> "run.terminal", status |-> "aborted"]
           \in Event \ {DoneEvent("succeeded")}
<1>1. /\ {PrEvent.id, CriteriaEvent.id, BegunEvent.id, RetireId,
          DoneEvent("failed").id} \subseteq EventIds
      /\ \A n \in 1..MaxRounds : RoundEvent(n, "running").id \in EventIds
  BY DoneIdsAssumption, LedgerAssumption DEF DoneEventIds
<1>2. {PrEvent, CriteriaEvent, BegunEvent} \subseteq Event \ {DoneEvent("succeeded")}
  BY <1>1 DEF PrEvent, CriteriaEvent, BegunEvent, DoneEvent, Event, WellFormed,
     EventTypes, WorkTypes, RunStatus, Active
<1>3. \A n \in 1..MaxRounds, s \in {"running", "blocked"} :
          RoundEvent(n, s) \in Event \ {DoneEvent("succeeded")}
  BY <1>1 DEF RoundEvent, DoneEvent, Event, WellFormed, EventTypes, WorkTypes,
     RunStatus, Active
<1>4. DoneEvent("failed") \in Event /\ DoneEvent("succeeded") \in Event
  BY <1>1 DEF DoneEvent, Event, WellFormed, EventTypes, RunStatus, Terminal
<1>5. [id |-> RetireId, type |-> "run.terminal", status |-> "aborted"] \in Event
  BY <1>1 DEF Event, WellFormed, EventTypes, RunStatus, Terminal
<1>6. /\ DoneEvent("failed") # DoneEvent("succeeded")
      /\ [id |-> RetireId, type |-> "run.terminal", status |-> "aborted"]
            # DoneEvent("succeeded")
  BY DEF DoneEvent
<1> QED
  BY <1>2, <1>3, <1>4, <1>5, <1>6

\* An explanation stays, and a run that ended stays ended.
LEMMA SoundStays ==
    ASSUME TypeOK, [Next]_ledgerVars, explained \subseteq explained',
           NEW x, ReviewSound(x, status, explained), x.at = "new" => x.result # "done"
    PROVE  ReviewSound(x, status', explained')
<1>1. x.run \in Runs /\ status[x.run] # "none" =>
          /\ status'[x.run] # "none"
          /\ status[x.run] \in Terminal => status'[x.run] = status[x.run]
  BY LedgerGrows
<1>2. "succeeded" \in Terminal
  BY DEF Terminal
<1> QED
  BY <1>1, <1>2 DEF ReviewSound, EarnedBy

\* One invocation moves, and the ledger by one transaction at most.
LEMMA ReviewTurn ==
    ASSUME DoneInv, [Next]_ledgerVars, NEW v \in Reviews, NEW x \in Review,
           review' = [review EXCEPT ![v] = x],
           ReviewSound(x, status', explained'),
           explained \subseteq explained', explained' \subseteq Findings,
           review[v].at \in {"label", "over"} => x = [review[v] EXCEPT !.at = "over"],
           doneLabel' \in BOOLEAN, doneLabel' => doneLabel \/ x.result = "done",
           \A r \in Runs : DoneEvent("succeeded") \in log'[r] =>
               \/ DoneEvent("succeeded") \in log[r]
               \/ x.run = r /\ x.at = "label" /\ status'[r] = "succeeded"
    PROVE  DoneInv'
<1>1. TypeOK' /\ DoneTypeOK'
  BY LedgerTypeStep DEF DoneInv, DoneTypeOK
<1>2. review'[v] = x /\ \A u \in Reviews \ {v} : review'[u] = review[u]
  BY DEF DoneInv, DoneTypeOK
<1>3. \A u \in Reviews : ReviewSound(review'[u], status', explained')
  <2>1. \A u \in Reviews \ {v} : review[u].at = "new" => review[u].result # "done"
    BY DEF DoneInv, ReviewSound
  <2> QED
    BY <1>2, <2>1, SoundStays DEF DoneInv
<1>4. \A u \in Reviews : review[u].result = "done" => review'[u].result = "done"
  <2>1. review[v].result = "done" => x.result = "done"
    BY DEF DoneInv, DoneTypeOK, Review, ReviewSound
  <2> QED
    BY <1>2, <2>1
<1>5. doneLabel' => \E u \in Reviews : review'[u].result = "done"
  BY <1>2, <1>4 DEF DoneInv
<1>6. ASSUME NEW r \in Runs, DoneEvent("succeeded") \in log'[r]
      PROVE  /\ status'[r] = "succeeded"
             /\ \E u \in Reviews : /\ review'[u].run = r
                                   /\ review'[u].at \in {"label", "over"}
                                   /\ EarnedBy(review'[u], explained')
  <2>1. CASE DoneEvent("succeeded") \in log[r]
    <3>1. PICK u \in Reviews : /\ review[u].run = r
                               /\ review[u].at \in {"label", "over"}
                               /\ EarnedBy(review[u], explained)
      BY <2>1 DEF DoneInv, SuccessIsEarned
    <3>2. /\ review'[u].run = r /\ review'[u].at \in {"label", "over"}
          /\ EarnedBy(review'[u], explained')
      <4>1. CASE u = v
        BY <1>2, <3>1, <4>1 DEF DoneInv, DoneTypeOK, Review, EarnedBy
      <4>2. CASE u # v
        BY <1>2, <3>1, <4>2 DEF EarnedBy
      <4> QED
        BY <4>1, <4>2
    <3>3. status'[r] = "succeeded"
      BY <2>1, TerminalStep DEF DoneInv, SuccessIsEarned, Terminal
    <3> QED
      BY <3>2, <3>3
  <2>2. CASE DoneEvent("succeeded") \notin log[r]
    BY <1>2, <1>6, <2>2 DEF ReviewSound
  <2> QED
    BY <2>1, <2>2
<1> QED
  BY <1>1, <1>3, <1>5, <1>6 DEF DoneInv, SuccessIsEarned

\* What is known of an invocation that is under way.
LEMMA ReviewFields ==
    ASSUME DoneInv, NEW v \in Reviews, review[v].at \notin {"new", "label", "over"}
    PROVE  /\ review[v] \in Review /\ ReviewSound(review[v], status, explained)
           /\ review[v].run \in Runs /\ status[review[v].run] # "none"
           /\ review[v].result # "done"
           /\ Over(v, "blocked") \in Review /\ Over(v, "refused") \in Review
           /\ \A s \in {"blocked", "refused"} :
                 /\ Over(v, s).at = "over" /\ Over(v, s).result = s
                 /\ Over(v, s).run = review[v].run /\ Over(v, s).round = review[v].round
                 /\ Over(v, s).posting = review[v].posting
                 /\ Over(v, s).accepted = review[v].accepted
<1>1. review[v] \in Review /\ ReviewSound(review[v], status, explained)
  BY DEF DoneInv, DoneTypeOK
<1> QED
  BY <1>1 DEF ReviewSound, Review, Over, Here

\* A decision moves the invocation alone.
LEMMA DecideKeepsInv ==
    ASSUME DoneInv, NEW v \in Reviews, NEW x \in Review, Decide(v, x),
           review[v].at \in {"label", "over"} => x = [review[v] EXCEPT !.at = "over"],
           ReviewSound(x, status, explained), x.at # "label"
    PROVE  DoneInv'
BY ReviewTurn DEF Decide, Turn, DoneInv, DoneTypeOK, ledgerVars

\* An event that does not say the run succeeded is recorded, or found, or not
\* recorded; the invocation goes on, or is over and blocked.
LEMMA RecordKeepsInv ==
    ASSUME DoneInv, NEW v \in Reviews, NEW e \in Event, NEW x \in Review,
           review[v].at \notin {"new", "label", "over"}, e # DoneEvent("succeeded"),
           RecordDone(v, e, x),
           ReviewSound(x, status, explained), x.at \notin {"new", "label"}, x.result # "done"
    PROVE  DoneInv'
<1>1. UNCHANGED <<explained, doneLabel>> /\ review[v].run \in Runs
  BY ReviewFields DEF RecordDone
<1>2. ReviewSound(Over(v, "blocked"), status, explained)
  BY ReviewFields DEF ReviewSound
<1>3. CASE AppendEvent(review[v].run, e) /\ Turn(v, x)
  <2>1. [Next]_ledgerVars
    BY <1>1, <1>3 DEF Next
  <2>2. ReviewSound(x, status', explained')
    BY <1>1, <2>1, SoundStays DEF DoneInv
  <2>3. \A r \in Runs : DoneEvent("succeeded") \in log'[r] =>
            DoneEvent("succeeded") \in log[r]
    BY <1>1, <1>3, AppendEffect DEF DoneInv
  <2> QED
    BY <1>1, <1>3, <2>1, <2>2, <2>3, ReviewTurn DEF Turn, DoneInv, DoneTypeOK
<1>4. CASE UNCHANGED ledgerVars /\ Turn(v, x)
  BY <1>1, <1>4, ReviewTurn DEF Turn, DoneInv, DoneTypeOK, ledgerVars
<1>5. CASE UNCHANGED ledgerVars /\ Turn(v, Over(v, "blocked"))
  <2> DEFINE y == Over(v, "blocked")
  <2>1. y \in Review /\ ReviewSound(y, status, explained) /\ Turn(v, y)
    BY <1>2, <1>5, ReviewFields
  <2> HIDE DEF y
  <2> QED
    BY <1>1, <1>5, <2>1, ReviewTurn DEF Turn, DoneInv, DoneTypeOK, ledgerVars
<1> QED
  BY <1>3, <1>4, <1>5 DEF RecordDone, Here

\* Before the loop.
LEMMA OpeningKeepsInv ==
    ASSUME DoneInv, NEW v \in Reviews,
           \/ \E r \in Runs : OpenPullRequest(v, r)
           \/ RecordRefused(v) \/ RecordOpened(v)
           \/ VerifyCriteria(v) \/ RecordUnverified(v)
    PROVE  DoneInv'
<1>0. review[v] \in Review /\ ReviewSound(review[v], status, explained)
  BY DEF DoneInv, DoneTypeOK
<1>1. ASSUME NEW r \in Runs, OpenPullRequest(v, r)
      PROVE  DoneInv'
  <2>1. PICK step \in {"pr", "refuse"} :
            Decide(v, [review[v] EXCEPT !.at = step, !.run = r])
    BY <1>1 DEF OpenPullRequest, Here
  <2> DEFINE x == [review[v] EXCEPT !.at = step, !.run = r]
  <2>2. /\ x \in Review /\ x.at = step /\ x.run = r /\ x.result = review[v].result
        /\ x.posting = review[v].posting /\ x.accepted = review[v].accepted
    BY <1>0 DEF Review
  <2>3. Decide(v, x)
    BY <2>1
  <2> HIDE DEF x
  <2>4. ReviewSound(x, status, explained)
    BY <1>0, <1>1, <2>2 DEF ReviewSound, OpenPullRequest, Here
  <2> QED
    BY <1>1, <2>2, <2>3, <2>4, DecideKeepsInv DEF OpenPullRequest, Here
<1>2. CASE RecordRefused(v)
  <2>1. review[v].at = "refuse" /\ RecordDone(v, DoneEvent("failed"), Over(v, "refused"))
    BY <1>2 DEF RecordRefused, Here
  <2> DEFINE x == Over(v, "refused")
  <2>2. /\ x \in Review /\ x.at = "over" /\ x.result = "refused"
        /\ ReviewSound(x, status, explained)
    BY <2>1, ReviewFields DEF ReviewSound
  <2>3. RecordDone(v, DoneEvent("failed"), x)
    BY <2>1
  <2> HIDE DEF x
  <2> QED
    BY <2>1, <2>2, <2>3, DoneEvents, RecordKeepsInv
<1>3. CASE RecordOpened(v)
  <2> DEFINE x == [review[v] EXCEPT !.at = "criteria"]
  <2>1. review[v].at = "pr" /\ RecordDone(v, PrEvent, x)
    BY <1>3 DEF RecordOpened, Here
  <2>2. /\ x \in Review /\ x.at = "criteria" /\ x.run = review[v].run
        /\ x.result = review[v].result
        /\ x.posting = review[v].posting /\ x.accepted = review[v].accepted
    BY <1>0 DEF Review
  <2> HIDE DEF x
  <2>3. ReviewSound(x, status, explained) /\ x.result # "done"
    BY <1>0, <2>1, <2>2 DEF ReviewSound
  <2> QED
    BY <2>1, <2>2, <2>3, DoneEvents, RecordKeepsInv
<1>4. CASE VerifyCriteria(v)
  <2>1. PICK x \in {[review[v] EXCEPT !.at = "check", !.round = 1],
                    [review[v] EXCEPT !.at = "unverified"]} : Decide(v, x)
    BY <1>4 DEF VerifyCriteria, Here
  <2>2. /\ x \in Review /\ x.at \in {"check", "unverified"} /\ x.run = review[v].run
        /\ x.at = "check" => x.round = 1
        /\ x.result = review[v].result
        /\ x.posting = review[v].posting /\ x.accepted = review[v].accepted
    <3>1. 1 \in 0..MaxRounds
      BY DoneAssumption
    <3> QED
      BY <1>0, <3>1 DEF Review
  <2>3. ReviewSound(x, status, explained)
    BY <1>0, <1>4, <2>2 DEF ReviewSound, VerifyCriteria, Here
  <2> QED
    BY <1>4, <2>1, <2>2, <2>3, DecideKeepsInv DEF VerifyCriteria, Here
<1>5. CASE RecordUnverified(v)
  <2> DEFINE x == Over(v, "blocked")
  <2>1. review[v].at = "unverified" /\ RecordDone(v, CriteriaEvent, x)
    BY <1>5 DEF RecordUnverified, Here
  <2>2. /\ x \in Review /\ x.at = "over" /\ x.result = "blocked"
        /\ ReviewSound(x, status, explained)
    BY <2>1, ReviewFields DEF ReviewSound
  <2> HIDE DEF x
  <2> QED
    BY <2>1, <2>2, DoneEvents, RecordKeepsInv
<1> QED
  BY <1>1, <1>2, <1>3, <1>4, <1>5

\* A round up to the explanations.
LEMMA ChecksKeepInv ==
    ASSUME DoneInv, NEW v \in Reviews, RunChecks(v) \/ AttemptFixes(v)
    PROVE  DoneInv'
<1>0. /\ review[v] \in Review /\ ReviewSound(review[v], status, explained)
      /\ review[v].at \in {"check", "fix"} /\ review[v].round > 0
  BY DEF DoneInv, DoneTypeOK, RunChecks, AttemptFixes, Here, ReviewSound
<1>1. ASSUME NEW s \in {"fail", "withhold", "carry"},
             s = "carry" => review[v].round # MaxRounds,
             Decide(v, [review[v] EXCEPT !.at = s])
      PROVE  DoneInv'
  <2> DEFINE x == [review[v] EXCEPT !.at = s]
  <2>1. /\ x \in Review /\ x.at = s /\ x.run = review[v].run
        /\ x.round = review[v].round /\ x.result = review[v].result
        /\ x.posting = review[v].posting /\ x.accepted = review[v].accepted
    BY <1>0 DEF Review
  <2>2. Decide(v, x)
    BY <1>1
  <2> HIDE DEF x
  <2>3. ReviewSound(x, status, explained)
    BY <1>0, <1>1, <2>1 DEF ReviewSound
  <2> QED
    BY <1>0, <2>1, <2>2, <2>3, DecideKeepsInv
<1>2. ASSUME NEW found \in SUBSET Findings, review[v].at = "check",
             Decide(v, [review[v] EXCEPT
                        !.open = found \ review[v].accepted,
                        !.at = IF found \ review[v].accepted = {} THEN "pass" ELSE "fix"])
      PROVE  DoneInv'
  <2> DEFINE left == found \ review[v].accepted
             x == [review[v] EXCEPT !.open = left,
                                    !.at = IF left = {} THEN "pass" ELSE "fix"]
  <2>1. /\ x \in Review /\ x.at \in {"pass", "fix"} /\ x.run = review[v].run
        /\ x.at = "pass" => x.open = {}
        /\ x.round = review[v].round /\ x.result = review[v].result
        /\ x.posting = review[v].posting /\ x.accepted = review[v].accepted
    BY <1>0 DEF Review
  <2>2. Decide(v, x)
    BY <1>2
  <2> HIDE DEF x
  <2>3. ReviewSound(x, status, explained)
    BY <1>0, <1>2, <2>1 DEF ReviewSound, EarnedBy
  <2> QED
    BY <1>0, <2>1, <2>2, <2>3, DecideKeepsInv
<1>3. ASSUME NEW a \in SUBSET review[v].open,
             Decide(v, [review[v] EXCEPT
                        !.at = IF a \cap Grave = {} THEN "post" ELSE "withhold",
                        !.posting = a \ Grave])
      PROVE  DoneInv'
  <2> DEFINE x == [review[v] EXCEPT
                   !.at = IF a \cap Grave = {} THEN "post" ELSE "withhold",
                   !.posting = a \ Grave]
  <2>1. /\ x \in Review /\ x.at \in {"post", "withhold"} /\ x.run = review[v].run
        /\ x.round = review[v].round /\ x.result = review[v].result
        /\ x.posting = a \ Grave /\ x.accepted = review[v].accepted
    BY <1>0 DEF Review
  <2>2. Decide(v, x)
    BY <1>3
  <2> HIDE DEF x
  <2>3. ReviewSound(x, status, explained)
    BY <1>0, <2>1 DEF ReviewSound
  <2> QED
    BY <1>0, <2>1, <2>2, <2>3, DecideKeepsInv
<1>4. CASE RunChecks(v)
  BY <1>1, <1>2, <1>4 DEF RunChecks, Here
<1>5. CASE AttemptFixes(v)
  <2>1. /\ NextRound(v) \in {"withhold", "carry"}
        /\ NextRound(v) = "carry" => review[v].round # MaxRounds
    BY DEF NextRound, Here
  <2> QED
    BY <1>1, <1>3, <1>5, <2>1 DEF AttemptFixes, Here
<1> QED
  BY <1>4, <1>5

\* An accepted finding is explained before it counts; a comment that fails
\* may have been written.
LEMMA CheckPostKeepsInv ==
    ASSUME DoneInv, NEW v \in Reviews, PostAccepted(v)
    PROVE  DoneInv'
<1>1. /\ review[v] \in Review /\ ReviewSound(review[v], status, explained)
      /\ review[v].at = "post" /\ review[v].round > 0
      /\ UNCHANGED <<ledgerVars, doneLabel>>
  BY DEF DoneInv, DoneTypeOK, PostAccepted, Here, ReviewSound
<1>2. PICK f \in review[v].posting :
          \/ /\ Turn(v, [review[v] EXCEPT !.posting = @ \ {f},
                                          !.accepted = @ \cup {f}])
             /\ explained' = explained \cup {f}
          \/ /\ Turn(v, [review[v] EXCEPT !.posting = {}, !.at = "withhold"])
             /\ explained' \in {explained, explained \cup {f}}
  BY DEF PostAccepted, Here
<1>3. f \in Findings \ Grave
  BY <1>1, <1>2 DEF Review, ReviewSound
<1>4. explained \subseteq explained' /\ explained' \subseteq Findings
  BY <1>2, <1>3 DEF DoneInv, DoneTypeOK
<1>5. PICK x \in Review :
          /\ review' = [review EXCEPT ![v] = x]
          /\ x.at \in {"post", "withhold"} /\ x.run = review[v].run
          /\ x.round = review[v].round /\ x.result = review[v].result
          /\ x.posting \subseteq review[v].posting
          /\ x.accepted = review[v].accepted \/
                (x.accepted = review[v].accepted \cup {f} /\ f \in explained')
  <2>1. CASE /\ Turn(v, [review[v] EXCEPT !.posting = @ \ {f}, !.accepted = @ \cup {f}])
             /\ explained' = explained \cup {f}
    <3> DEFINE x == [review[v] EXCEPT !.posting = @ \ {f}, !.accepted = @ \cup {f}]
    <3>1. /\ x \in Review /\ x.at = "post" /\ x.run = review[v].run
          /\ x.round = review[v].round /\ x.result = review[v].result
          /\ x.posting = review[v].posting \ {f}
          /\ x.accepted = review[v].accepted \cup {f}
      BY <1>1, <1>3 DEF Review
    <3>2. review' = [review EXCEPT ![v] = x]
      BY <2>1 DEF Turn
    <3> HIDE DEF x
    <3> QED
      BY <2>1, <3>1, <3>2
  <2>2. CASE Turn(v, [review[v] EXCEPT !.posting = {}, !.at = "withhold"])
    <3> DEFINE x == [review[v] EXCEPT !.posting = {}, !.at = "withhold"]
    <3>1. /\ x \in Review /\ x.at = "withhold" /\ x.run = review[v].run
          /\ x.round = review[v].round /\ x.result = review[v].result
          /\ x.posting = {} /\ x.accepted = review[v].accepted
      BY <1>1 DEF Review
    <3>2. review' = [review EXCEPT ![v] = x]
      BY <2>2 DEF Turn
    <3> HIDE DEF x
    <3> QED
      BY <3>1, <3>2
  <2> QED
    BY <1>2, <2>1, <2>2
<1>6. ReviewSound(x, status', explained')
  BY <1>1, <1>3, <1>4, <1>5 DEF ReviewSound, ledgerVars
<1> QED
  BY <1>1, <1>4, <1>5, <1>6, ReviewTurn DEF DoneInv, DoneTypeOK, ledgerVars

\* The dispositions are applied, and the round is passed or not.
LEMMA DisposedKeepsInv ==
    ASSUME DoneInv, NEW v \in Reviews, Disposed(v)
    PROVE  DoneInv'
<1> DEFINE s == IF review[v].open \subseteq review[v].accepted THEN "pass"
                ELSE NextRound(v)
           x == [review[v] EXCEPT !.at = s]
<1>1. /\ review[v] \in Review /\ ReviewSound(review[v], status, explained)
      /\ review[v].at = "post" /\ review[v].round > 0
      /\ Decide(v, x)
  BY DEF DoneInv, DoneTypeOK, Disposed, Here, ReviewSound
<1>2. /\ s \in {"pass", "withhold", "carry"}
      /\ s = "pass" => review[v].open \subseteq review[v].accepted
      /\ s = "carry" => review[v].round # MaxRounds
  BY DEF NextRound, Here
<1> HIDE DEF s
<1>3. /\ x \in Review /\ x.at = s /\ x.run = review[v].run
      /\ x.round = review[v].round /\ x.result = review[v].result
      /\ x.posting = review[v].posting /\ x.accepted = review[v].accepted
      /\ x.open = review[v].open
  BY <1>1, <1>2 DEF Review
<1> HIDE DEF x
<1>4. ReviewSound(x, status, explained)
  BY <1>1, <1>2, <1>3 DEF ReviewSound, EarnedBy
<1> QED
  BY <1>1, <1>2, <1>3, <1>4, DecideKeepsInv

\* The records of a round.
LEMMA RoundsKeepInv ==
    ASSUME DoneInv, NEW v \in Reviews,
           Withhold(v) \/ CarryOn(v) \/ PassRound(v) \/ FailReview(v)
    PROVE  DoneInv'
<1>0. /\ review[v] \in Review /\ ReviewSound(review[v], status, explained)
      /\ review[v].at \in {"withhold", "carry", "pass", "fail"}
      /\ review[v].at # "fail" => review[v].round \in 1..MaxRounds
  <2>1. /\ review[v] \in Review /\ ReviewSound(review[v], status, explained)
        /\ review[v].at \in {"withhold", "carry", "pass", "fail"}
    BY DEF DoneInv, DoneTypeOK, Withhold, CarryOn, PassRound, FailReview, Here
  <2>2. review[v].round \in 0..MaxRounds
    BY <2>1 DEF Review
  <2> QED
    BY <2>1, <2>2, DoneAssumption DEF ReviewSound, EarnedBy
<1>1. ASSUME Withhold(v) \/ FailReview(v)
      PROVE  DoneInv'
  <2> DEFINE x == Over(v, "blocked")
  <2>1. /\ x \in Review /\ x.at = "over" /\ x.result = "blocked"
        /\ ReviewSound(x, status, explained)
    BY <1>0, ReviewFields DEF ReviewSound
  <2>2. \E e \in Event \ {DoneEvent("succeeded")} : RecordDone(v, e, x)
    BY <1>0, <1>1, DoneEvents DEF Withhold, FailReview, Here
  <2> HIDE DEF x
  <2> QED
    BY <1>0, <2>1, <2>2, RecordKeepsInv
<1>2. CASE CarryOn(v)
  <2> DEFINE x == [review[v] EXCEPT !.at = "check", !.round = @ + 1]
  <2>1. review[v].round + 1 \in 1..MaxRounds /\ review[v].round + 1 \in 0..MaxRounds
    BY <1>0, <1>2, DoneAssumption DEF CarryOn, Here, ReviewSound
  <2>2. /\ x \in Review /\ x.at = "check" /\ x.run = review[v].run
        /\ x.round = review[v].round + 1 /\ x.result = review[v].result
        /\ x.posting = review[v].posting /\ x.accepted = review[v].accepted
    BY <1>0, <2>1 DEF Review
  <2>3. RecordDone(v, RoundEvent(review[v].round, "running"), x)
    BY <1>2 DEF CarryOn, Here
  <2> HIDE DEF x
  <2>4. ReviewSound(x, status, explained) /\ x.result # "done"
    BY <1>0, <1>2, <2>1, <2>2 DEF ReviewSound, CarryOn, Here
  <2> QED
    BY <1>0, <1>2, <2>2, <2>3, <2>4, DoneEvents, RecordKeepsInv DEF CarryOn, Here
<1>3. CASE PassRound(v)
  <2> DEFINE x == [review[v] EXCEPT !.at = "succeed"]
  <2>1. /\ x \in Review /\ x.at = "succeed" /\ x.run = review[v].run
        /\ x.round = review[v].round /\ x.result = review[v].result
        /\ x.posting = review[v].posting /\ x.accepted = review[v].accepted
        /\ x.open = review[v].open
    BY <1>0 DEF Review
  <2>2. RecordDone(v, RoundEvent(review[v].round, "running"), x)
    BY <1>3 DEF PassRound, Here
  <2> HIDE DEF x
  <2>3. ReviewSound(x, status, explained) /\ x.result # "done"
    BY <1>0, <1>3, <2>1 DEF ReviewSound, EarnedBy, PassRound, Here
  <2> QED
    BY <1>0, <1>3, <2>1, <2>2, <2>3, DoneEvents, RecordKeepsInv DEF PassRound, Here
<1> QED
  BY <1>1, <1>2, <1>3

\* Success is recorded only by an invocation that earned it.
LEMMA SucceedKeepsInv ==
    ASSUME DoneInv, NEW v \in Reviews, Succeed(v)
    PROVE  DoneInv'
<1> DEFINE r == review[v].run
           e == DoneEvent("succeeded")
           x == [review[v] EXCEPT !.at = "label", !.result = "done"]
           y == Over(v, "blocked")
<1>1. /\ review[v] \in Review /\ ReviewSound(review[v], status, explained)
      /\ review[v].at = "succeed" /\ r \in Runs
      /\ UNCHANGED <<explained, doneLabel>>
  BY DEF DoneInv, DoneTypeOK, Succeed, RecordDone, Here, ReviewSound
<1>2. /\ x \in Review /\ x.at = "label" /\ x.run = r /\ x.result = "done"
      /\ x.round = review[v].round /\ x.open = review[v].open
      /\ x.posting = review[v].posting /\ x.accepted = review[v].accepted
  BY <1>1 DEF Review
<1>3. /\ y \in Review /\ y.at = "over" /\ y.result = "blocked"
      /\ ReviewSound(y, status, explained)
  BY <1>1, ReviewFields DEF ReviewSound
<1>4. \/ AppendEvent(r, e) /\ Turn(v, x)
      \/ e \in log[r] /\ UNCHANGED ledgerVars /\ Turn(v, x)
      \/ UNCHANGED ledgerVars /\ Turn(v, y)
  BY DEF Succeed, RecordDone, Here
<1> HIDE DEF x, y
<1>5. CASE Turn(v, y) /\ UNCHANGED ledgerVars
  BY <1>1, <1>3, <1>5, ReviewTurn DEF Turn, DoneInv, DoneTypeOK, ledgerVars
<1>6. ASSUME Turn(v, x), AppendEvent(r, e) \/ (e \in log[r] /\ UNCHANGED ledgerVars)
      PROVE  DoneInv'
  <2>1. [Next]_ledgerVars
    BY <1>1, <1>6, DoneEvents DEF Next
  <2>2. status'[r] = "succeeded" /\ status'[r] # "none"
    <3>1. CASE AppendEvent(r, e)
      BY <1>1, <3>1, DoneEvents, AppendEffect, AppendMoves DEF DoneInv, DoneEvent
    <3>2. CASE e \in log[r] /\ UNCHANGED ledgerVars
      BY <1>1, <3>2 DEF DoneInv, SuccessIsEarned, ledgerVars
    <3> QED
      BY <1>6, <3>1, <3>2
  <2>3. \A q \in Runs : e \in log'[q] => e \in log[q] \/ q = r
    BY <1>1, <1>6, DoneEvents, AppendEffect DEF DoneInv, ledgerVars
  <2>4. ReviewSound(x, status', explained')
    BY <1>1, <1>2, <2>2 DEF ReviewSound, EarnedBy
  <2> QED
    BY <1>1, <1>2, <1>6, <2>1, <2>2, <2>3, <2>4, ReviewTurn DEF Turn, DoneInv, DoneTypeOK
<1> QED
  BY <1>4, <1>5, <1>6

\* The label is added, or the process dies.
LEMMA EndsKeepInv ==
    ASSUME DoneInv, NEW v \in Reviews, LabelDone(v) \/ ReviewDies(v)
    PROVE  DoneInv'
<1> DEFINE x == [review[v] EXCEPT !.at = "over"]
<1>1. /\ review[v] \in Review /\ ReviewSound(review[v], status, explained)
      /\ review[v].at \notin {"new", "over"}
      /\ UNCHANGED <<ledgerVars, explained>> /\ Turn(v, x)
      /\ \/ UNCHANGED doneLabel
         \/ review[v].at = "label" /\ doneLabel' \in {doneLabel, TRUE}
  BY DEF DoneInv, DoneTypeOK, LabelDone, ReviewDies, Decide, Here
<1>2. /\ x \in Review /\ x.at = "over" /\ x.run = review[v].run
      /\ x.result = review[v].result
      /\ x.round = review[v].round /\ x.open = review[v].open
      /\ x.posting = review[v].posting /\ x.accepted = review[v].accepted
  BY <1>1 DEF Review
<1>3. x = [review[v] EXCEPT !.at = "over"]
  OBVIOUS
<1> HIDE DEF x
<1>4. ReviewSound(x, status, explained)
  BY <1>1, <1>2 DEF ReviewSound, EarnedBy
<1>5. doneLabel' \in BOOLEAN /\ (doneLabel' => doneLabel \/ x.result = "done")
  <2>1. doneLabel \in BOOLEAN
    BY DEF DoneInv, DoneTypeOK
  <2>2. CASE UNCHANGED doneLabel
    BY <2>1, <2>2
  <2>3. CASE review[v].at = "label" /\ doneLabel' \in {doneLabel, TRUE}
    <3>1. x.result = "done"
      BY <1>1, <1>2, <2>3 DEF ReviewSound
    <3>2. doneLabel' \in BOOLEAN
      BY <2>1, <2>3
    <3> QED
      BY <3>1, <3>2
  <2> QED
    BY <1>1, <2>2, <2>3
<1> QED
  BY <1>1, <1>2, <1>3, <1>4, <1>5, ReviewTurn DEF Turn, DoneInv, DoneTypeOK, ledgerVars

\* Meanwhile the run is accepted, begun or retired.
LEMMA ReviewedRunKeepsInv ==
    ASSUME DoneInv, ReviewedRun
    PROVE  DoneInv'
<1>1. [Next]_ledgerVars /\ UNCHANGED doneOnly
  BY DoneEvents DEF ReviewedRun, Next
<1>2. \A r \in Runs : DoneEvent("succeeded") \in log'[r] =>
          DoneEvent("succeeded") \in log[r]
  <2>1. ASSUME NEW d \in Deliveries, NEW i \in Issues, NEW q \in Runs,
               AcceptDelivery(d, i, q), NEW r \in Runs,
               DoneEvent("succeeded") \in log'[r]
        PROVE  DoneEvent("succeeded") \in log[r]
    BY <2>1, AcceptEffect DEF DoneInv, DoneEvent
  <2>2. ASSUME NEW q \in Runs, NEW e \in Event \ {DoneEvent("succeeded")},
               AppendEvent(q, e), NEW r \in Runs, DoneEvent("succeeded") \in log'[r]
        PROVE  DoneEvent("succeeded") \in log[r]
    BY <2>2, AppendEffect DEF DoneInv
  <2>3. ASSUME NEW i \in Issues, RetireRunClaim(i), NEW r \in Runs,
               DoneEvent("succeeded") \in log'[r]
        PROVE  DoneEvent("succeeded") \in log[r]
    BY <2>2, <2>3, DoneEvents DEF RetireRunClaim, ActiveRuns
  <2> QED
    BY <2>1, <2>2, <2>3, DoneEvents DEF ReviewedRun
<1>3. TypeOK' /\ DoneTypeOK'
  BY <1>1, LedgerTypeStep DEF DoneInv, DoneTypeOK, doneOnly
<1>4. \A v \in Reviews : ReviewSound(review'[v], status', explained')
  <2>1. \A v \in Reviews : review[v].at = "new" => review[v].result # "done"
    BY DEF DoneInv, ReviewSound
  <2> QED
    BY <1>1, <2>1, SoundStays DEF DoneInv, doneOnly
<1>5. SuccessIsEarned'
  BY <1>1, <1>2, TerminalStep DEF DoneInv, SuccessIsEarned, doneOnly, Terminal
<1> QED
  BY <1>1, <1>3, <1>4, <1>5 DEF DoneInv, doneOnly

LEMMA DoneInvStep ==
    ASSUME DoneInv, [DoneNext]_doneVars
    PROVE  DoneInv'
<1>1. CASE UNCHANGED doneVars
  BY <1>1 DEF doneVars, doneOnly, ledgerVars, DoneInv, TypeOK, DoneTypeOK, SuccessIsEarned
<1> QED
  BY <1>1, OpeningKeepsInv, ChecksKeepInv, CheckPostKeepsInv, DisposedKeepsInv, RoundsKeepInv,
     SucceedKeepsInv, EndsKeepInv, ReviewedRunKeepsInv DEF DoneNext, ReviewStep

LEMMA DoneInvInit == DoneInit => DoneInv
<1> SUFFICES ASSUME DoneInit
             PROVE  DoneInv
  OBVIOUS
<1>1. TypeOK /\ SuccessIsEarned
  BY DEF DoneInit, Init, TypeOK, SuccessIsEarned
<1>2. Unasked \in Review
  BY DoneAssumption DEF Unasked, Review
<1>3. \A v \in Reviews : ReviewSound(review[v], status, explained)
  BY DoneAssumption DEF DoneInit, Unasked, ReviewSound
<1> QED
  BY <1>1, <1>2, <1>3 DEF DoneInit, DoneInv, DoneTypeOK

\* An invocation answers "done", and the ledger and the ticket show it, only
\* after an invocation saw every finding of its last checks gone or explained,
\* whichever processes died or lost an answer on the way.
THEOREM DoneIsAlwaysEarned == DoneSpec => []DoneIsEarned
<1>1. DoneInv /\ [DoneNext]_doneVars => DoneInv'
  BY DoneInvStep
<1>2. DoneInv => DoneIsEarned
  BY DEF DoneInv, ReviewSound, SuccessIsEarned, EarnedBy, DoneIsEarned, Earned, Here
<1> QED
  BY <1>1, <1>2, DoneInvInit, PTL DEF DoneSpec

-----------------------------------------------------------------------------
(* The notifier                                                            *)

\* The ledger says of a run what a notification says of it.
IsSo(n) ==
    /\ status[n.run] # "none" /\ EventIsLogged(n.run, n.id)
    /\ n.kind \in Terminal => status[n.run] = n.kind

\* What the channel has of a notification was begun once, and a second message
\* of it followed one whose answer was lost.
IsToldOnce(n) ==
    /\ channel[n] \in [told : Nat, shown : Nat, lost : BOOLEAN]
    /\ channel[n].told = 1
    /\ channel[n].shown > 1 => channel[n].lost
    /\ channel[n].shown <= MaxAttempts

\* An announcement under way, as far as it came: one that begins is of the
\* first write of its event; one that tries again may have been shown.
IsUnderWay(a) ==
    /\ a.begun => ~a.duplicate
    /\ ~a.duplicate => IsSo(a.of)
    /\ ~a.duplicate /\ ~a.begun => a.of \notin DOMAIN channel
    /\ a.begun => /\ a.of \in DOMAIN channel
                  /\ channel[a.of].shown <= a.attempts
                  /\ channel[a.of].shown >= 1 => channel[a.of].lost

FirstTold == {a \in pending : ~a.duplicate}

NotifierInv ==
    /\ TypeOK
    /\ pending \subseteq Announcement
    /\ \A n \in DOMAIN channel : n \in Notification /\ IsSo(n) /\ IsToldOnce(n)
    /\ \A a \in pending : IsUnderWay(a)
    /\ \A a, b \in FirstTold : a.of = b.of => a = b

\* The events of the notifier are events of the ledger.
LEMMA NoticesAreEvents ==
    /\ NoticeEvents \subseteq Event
    /\ \A d \in Deliveries : AcceptedEvent(d) \in Event
<1>1. /\ \A e \in NoticeEvents : e.id \in EventIds
      /\ \A d \in Deliveries : AcceptedId(d) \in EventIds
  BY NotifierIdsAssumption, LedgerAssumption DEF NoticeEventIds
<1>2. \A d \in Deliveries : AcceptedEvent(d) \in Event
  BY <1>1 DEF AcceptedEvent, Event, WellFormed, EventTypes, RunStatus, Active
<1>3. NoticeEvents \subseteq Event
  BY <1>1 DEF NoticeEvents, TripNotice, Event, WellFormed, EventTypes, WorkTypes,
     RunStatus, Active, Terminal
<1> QED
  BY <1>2, <1>3

\* What is told of an event: an end, only of the event that is that end.
LEMMA KindTold ==
    ASSUME NEW e \in Event, NotificationKind(e) # Nil
    PROVE  /\ NotificationKind(e) \in Kinds
           /\ NotificationKind(e) \in Terminal =>
                  e.type = "run.terminal" /\ e.status = NotificationKind(e)
BY DEF NotificationKind, Kinds, Event, WellFormed, Terminal

\* What the ledger says of a notification it goes on to say.
LEMMA StaysSo ==
    ASSUME TypeOK, [Next]_ledgerVars, NEW n \in Notification, IsSo(n)
    PROVE  IsSo(n)'
<1>1. n.run \in Runs
  BY DEF Notification
<1>2. /\ status'[n.run] # "none" /\ log[n.run] \subseteq log'[n.run]
      /\ status[n.run] \in Terminal => status'[n.run] = status[n.run]
  BY <1>1, LedgerGrows DEF IsSo
<1> QED
  BY <1>2 DEF IsSo, EventIsLogged

\* A write that was answered: its announcement is told only if it is the first
\* of its event.
LEMMA ObserveKeepsInv ==
    ASSUME NotifierInv, [Next]_ledgerVars,
           NEW w \in Writers, NEW r \in Runs, NEW e \in Event, NEW dup \in BOOLEAN,
           Observe(w, r, e, dup),
           ~dup => /\ status[r] = "none" \/ ~EventIsLogged(r, e.id)
                   /\ status'[r] # "none" /\ EventIsLogged(r, e.id)'
                   /\ e.type = "run.terminal" => status'[r] = e.status
    PROVE  NotifierInv'
<1> DEFINE n == [run |-> r, id |-> e.id, kind |-> NotificationKind(e)]
           x == [by |-> w, duplicate |-> dup, attempts |-> 0, begun |-> FALSE, of |-> n]
<1>1. TypeOK' /\ channel' = channel
  BY LedgerTypeStep DEF NotifierInv, Observe
<1>2. \A m \in DOMAIN channel' : m \in Notification /\ IsSo(m)' /\ IsToldOnce(m)'
  BY <1>1, StaysSo DEF NotifierInv, IsToldOnce
<1>3. ASSUME NEW a \in pending
      PROVE  IsUnderWay(a)'
  <2>1. a.of \in Notification /\ IsUnderWay(a)
    BY DEF NotifierInv, Announcement
  <2>2. IsSo(a.of) => IsSo(a.of)'
    BY <2>1, StaysSo DEF NotifierInv
  <2> QED
    BY <1>1, <2>1, <2>2 DEF IsUnderWay
<1>4. CASE NotificationKind(e) = Nil
  <2>1. pending' = pending
    BY <1>4 DEF Observe
  <2> QED
    BY <1>1, <1>2, <1>3, <2>1 DEF NotifierInv, FirstTold
<1>5. CASE NotificationKind(e) # Nil
  <2>1. pending' = pending \cup {x}
    BY <1>5 DEF Observe
  <2>2. n \in Notification /\ x \in Announcement
    BY <1>5, KindTold, NotifierAssumption DEF Notification, Announcement, Event
  <2>3. /\ n.run = r /\ n.id = e.id
        /\ n.kind \in Terminal => e.type = "run.terminal" /\ e.status = n.kind
        /\ x.of = n /\ x.duplicate = dup /\ ~x.begun
    BY <1>5, KindTold
  <2> HIDE DEF n, x
  <2>4. ~dup => ~IsSo(n) /\ IsSo(n)'
    BY <2>3 DEF IsSo
  <2>5. IsUnderWay(x)'
    BY <1>1, <2>3, <2>4 DEF IsUnderWay, NotifierInv
  <2>6. \A a \in FirstTold : ~dup => a.of # n
    BY <2>4 DEF FirstTold, NotifierInv, IsUnderWay
  <2>7. \A a, b \in FirstTold' : a.of = b.of => a = b
    BY <2>1, <2>3, <2>6 DEF FirstTold, NotifierInv
  <2> QED
    BY <1>1, <1>2, <1>3, <2>1, <2>2, <2>5, <2>7 DEF NotifierInv
<1> QED
  BY <1>4, <1>5

LEMMA NoticeAcceptKeepsInv ==
    ASSUME NotifierInv, NEW w \in Writers, NEW d \in Deliveries, NoticeAccept(w, d)
    PROVE  NotifierInv'
<1>1. AcceptedEvent(d) \in Event /\ Noticed \in Issues
  BY NoticesAreEvents, NotifierAssumption
<1>2. ASSUME NEW r \in Runs, AcceptDelivery(d, Noticed, r),
             Observe(w, r, AcceptedEvent(d), FALSE)
      PROVE  NotifierInv'
  <2>1. [Next]_ledgerVars
    BY <1>1, <1>2 DEF Next
  <2>2. /\ status[r] = "none" /\ status'[r] = "queued"
        /\ log'[r] = {AcceptedEvent(d)}
    BY <1>1, <1>2, AcceptEffect DEF NotifierInv, AcceptedEvent
  <2>3. AcceptedEvent(d).type # "run.terminal"
    BY DEF AcceptedEvent
  <2> QED
    BY <1>1, <1>2, <2>1, <2>2, <2>3, ObserveKeepsInv DEF EventIsLogged
<1>3. CASE /\ IsReplay(d, Noticed) /\ UNCHANGED ledgerVars
           /\ Observe(w, bound[d], AcceptedEvent(d), TRUE)
  <2>1. bound[d] \in Runs
    BY <1>3 DEF NotifierInv, TypeOK, IsReplay
  <2> QED
    BY <1>1, <1>3, <2>1, ObserveKeepsInv
<1> QED
  BY <1>2, <1>3 DEF NoticeAccept

LEMMA NoticeAppendKeepsInv ==
    ASSUME NotifierInv, NEW w \in Writers, NEW r \in Runs, NEW e \in NoticeEvents,
           NoticeAppend(w, r, e)
    PROVE  NotifierInv'
<1>1. e \in Event
  BY NoticesAreEvents
<1>2. CASE AppendEvent(r, e) /\ Observe(w, r, e, FALSE)
  <2>1. [Next]_ledgerVars
    BY <1>1, <1>2 DEF Next
  <2>2. ~EventIsLogged(r, e.id)
    BY <1>2 DEF AppendEvent
  <2>3. /\ status'[r] # "none"
        /\ e.type = "run.terminal" => status'[r] = e.status
    BY <1>1, <1>2, AppendMoves, StatusesApart DEF NotifierInv
  <2>4. EventIsLogged(r, e.id)'
    BY <1>1, <1>2, AppendEffect DEF NotifierInv, EventIsLogged
  <2> QED
    BY <1>1, <1>2, <2>1, <2>2, <2>3, <2>4, ObserveKeepsInv
<1>3. CASE e \in log[r] /\ Observe(w, r, e, TRUE) /\ UNCHANGED ledgerVars
  BY <1>1, <1>3, ObserveKeepsInv
<1> QED
  BY <1>2, <1>3 DEF NoticeAppend

\* Announcements go, and the ledger moves on, with nothing told.
LEMMA NoticesDrop ==
    ASSUME NotifierInv, [Next]_ledgerVars, pending' \subseteq pending, UNCHANGED channel
    PROVE  NotifierInv'
<1>1. TypeOK'
  BY LedgerTypeStep DEF NotifierInv
<1>2. \A m \in Notification : IsSo(m) => IsSo(m)'
  BY StaysSo DEF NotifierInv
<1>3. \A a \in pending : IsUnderWay(a)'
  BY <1>2 DEF NotifierInv, IsUnderWay, Announcement
<1>4. \A m \in DOMAIN channel : IsToldOnce(m)'
  BY DEF NotifierInv, IsToldOnce
<1> QED
  BY <1>1, <1>2, <1>3, <1>4 DEF NotifierInv, FirstTold

\* A message of the announcement a: the channel has s of it from now on, and
\* nothing or b is left of a.
LEMMA ToldKeepsInv ==
    ASSUME NotifierInv, NEW a \in pending, UNCHANGED ledgerVars, ~a.duplicate,
           NEW s \in [told : Nat, shown : Nat, lost : BOOLEAN],
           SetShown(a.of, s), s.told = 1,
           s.shown > 1 => s.lost, s.shown <= MaxAttempts,
           NEW b, pending' = (pending \ {a}) \cup {b} \/ pending' = pending \ {a},
           pending' = (pending \ {a}) \cup {b} =>
               /\ b \in Announcement /\ b.of = a.of /\ b.begun /\ ~b.duplicate
               /\ s.shown <= b.attempts /\ (s.shown >= 1 => s.lost)
    PROVE  NotifierInv'
<1>1. /\ TypeOK' /\ a.of \in Notification /\ IsSo(a.of)
      /\ \A m : IsSo(m)' <=> IsSo(m)
  BY DEF NotifierInv, Announcement, IsUnderWay, TypeOK, IsSo, EventIsLogged, ledgerVars
<1>2. /\ DOMAIN channel' = DOMAIN channel \cup {a.of}
      /\ channel'[a.of] = s
      /\ \A m \in DOMAIN channel \ {a.of} : channel'[m] = channel[m]
  BY DEF SetShown
<1>3. \A m \in DOMAIN channel' : m \in Notification /\ IsSo(m)' /\ IsToldOnce(m)'
  BY <1>1, <1>2 DEF NotifierInv, IsToldOnce
<1>4. ASSUME NEW c \in pending \ {a}
      PROVE  IsUnderWay(c)'
  <2>1. ~c.duplicate => c.of # a.of
    BY DEF NotifierInv, FirstTold
  <2>2. IsUnderWay(c)
    BY DEF NotifierInv
  <2> QED
    BY <1>1, <1>2, <2>1, <2>2 DEF IsUnderWay
<1>5. CASE pending' = pending \ {a}
  BY <1>1, <1>3, <1>4, <1>5 DEF NotifierInv, FirstTold
<1>6. CASE pending' = (pending \ {a}) \cup {b}
  <2>1. IsUnderWay(b)'
    <3>1. /\ b.of = a.of /\ b.begun /\ ~b.duplicate
          /\ s.shown <= b.attempts /\ (s.shown >= 1 => s.lost)
      BY <1>6
    <3>2. IsSo(b.of)' /\ b.of \in DOMAIN channel' /\ channel'[b.of] = s
      BY <1>1, <1>2, <3>1
    <3> QED
      BY <3>1, <3>2 DEF IsUnderWay
  <2>2. \A c, d \in FirstTold' : c.of = d.of => c = d
    BY <1>6 DEF NotifierInv, FirstTold
  <2> QED
    BY <1>1, <1>3, <1>4, <1>6, <2>1, <2>2 DEF NotifierInv
<1> QED
  BY <1>5, <1>6

LEMMA AnnounceKeepsInv ==
    ASSUME NotifierInv, NEW a \in pending, Announce(a)
    PROVE  NotifierInv'
<1>1. CASE IsSuppressed(a)
  BY <1>1, NoticesDrop DEF Announce
<1>2. CASE ~IsSuppressed(a)
  <2> DEFINE b == [a EXCEPT !.begun = TRUE]
             s == [Shown(a.of) EXCEPT !.told = @ + 1]
  <2>1. ~a.duplicate /\ ~a.begun /\ a \in Announcement /\ IsUnderWay(a)
    BY <1>2 DEF Announce, IsSuppressed, NotifierInv
  <2>2. Shown(a.of) = [told |-> 0, shown |-> 0, lost |-> FALSE]
    BY <2>1 DEF IsUnderWay, Shown
  <2>3. /\ s \in [told : Nat, shown : Nat, lost : BOOLEAN]
        /\ s.told = 1 /\ s.shown = 0
    <3>1. /\ Shown(a.of) \in [told : Nat, shown : Nat, lost : BOOLEAN]
          /\ Shown(a.of).told = 0 /\ Shown(a.of).shown = 0
      BY <2>2
    <3> QED
      BY <3>1
  <2>4. /\ b \in Announcement /\ b.of = a.of /\ b.begun /\ ~b.duplicate
        /\ b.attempts \in Nat
    <3>1. b \in Announcement /\ b.of = a.of
      BY <2>1 DEF Announcement
    <3>2. b.begun /\ ~b.duplicate
      BY <2>1 DEF Announcement
    <3> HIDE DEF b
    <3> QED
      BY <3>1, <3>2, NotifierAssumption DEF Announcement
  <2>5. /\ UNCHANGED ledgerVars /\ SetShown(a.of, s)
        /\ pending' = (pending \ {a}) \cup {b}
    BY <1>2 DEF Announce
  <2> HIDE DEF b, s
  <2>6. s.shown <= b.attempts /\ s.shown <= MaxAttempts /\ ~(s.shown >= 1)
    BY <2>3, <2>4, NotifierAssumption
  <2> QED
    BY <2>1, <2>3, <2>4, <2>5, <2>6, ToldKeepsInv
<1> QED
  BY <1>1, <1>2

LEMMA AttemptKeepsInv ==
    ASSUME NotifierInv, NEW a \in pending, NEW answer \in Replies, Attempt(a, answer)
    PROVE  NotifierInv'
<1> DEFINE b == [a EXCEPT !.attempts = @ + 1]
           old == channel[a.of]
           s == [Shown(a.of) EXCEPT
                     !.shown = IF answer \in {"posted", "lost"} THEN @ + 1 ELSE @,
                     !.lost = @ \/ answer = "lost"]
<1>1. /\ a.begun /\ a \in Announcement /\ ~a.duplicate /\ a.of \in DOMAIN channel
      /\ IsUnderWay(a) /\ IsToldOnce(a.of)
  BY DEF Attempt, NotifierInv, IsUnderWay
<1>2. /\ Shown(a.of) = old /\ old \in [told : Nat, shown : Nat, lost : BOOLEAN]
      /\ old.told = 1 /\ old.shown <= a.attempts /\ (old.shown >= 1 => old.lost)
      /\ a.attempts \in Nat /\ a.attempts + 1 <= MaxAttempts
  BY <1>1, NotifierAssumption DEF Shown, IsToldOnce, IsUnderWay, Announcement
<1> HIDE DEF old
<1>3. /\ s \in [told : Nat, shown : Nat, lost : BOOLEAN] /\ s.told = 1
      /\ s.shown = IF answer \in {"posted", "lost"} THEN old.shown + 1 ELSE old.shown
      /\ s.lost = (old.lost \/ answer = "lost")
  <2> DEFINE reached == IF answer \in {"posted", "lost"} THEN old.shown + 1 ELSE old.shown
             delayed == old.lost \/ answer = "lost"
             y == [old EXCEPT !.shown = reached, !.lost = delayed]
  <2>1. s = y
    BY <1>2
  <2>2. reached \in Nat /\ delayed \in BOOLEAN
    BY <1>2
  <2> HIDE DEF s, reached, delayed
  <2>3. /\ y \in [told : Nat, shown : Nat, lost : BOOLEAN] /\ y.told = 1
        /\ y.shown = reached /\ y.lost = delayed
    BY <1>2, <2>2
  <2> HIDE DEF y
  <2> QED
    BY <2>1, <2>3 DEF reached, delayed
<1>4. /\ UNCHANGED ledgerVars /\ SetShown(a.of, s)
      /\ pending' = (pending \ {a}) \cup
             (IF IsRetryable(answer) /\ a.attempts + 1 < MaxAttempts THEN {b} ELSE {})
  BY DEF Attempt
<1>5. a.attempts + 1 < MaxAttempts =>
          /\ b \in Announcement /\ b.of = a.of /\ b.begun /\ ~b.duplicate
          /\ b.attempts = a.attempts + 1
  BY <1>1, <1>2, NotifierAssumption DEF Announcement
<1> HIDE DEF b, s
<1>6. s.shown <= a.attempts + 1 /\ s.shown <= MaxAttempts /\ (s.shown > 1 => s.lost)
  BY <1>2, <1>3, NotifierAssumption
<1>7. CASE IsRetryable(answer) /\ a.attempts + 1 < MaxAttempts
  <2>1. s.shown >= 1 => s.lost
    BY <1>2, <1>3, <1>7 DEF IsRetryable
  <2>2. pending' = (pending \ {a}) \cup {b}
    BY <1>4, <1>7
  <2> QED
    BY <1>1, <1>3, <1>4, <1>5, <1>6, <1>7, <2>1, <2>2, ToldKeepsInv
<1>8. CASE ~(IsRetryable(answer) /\ a.attempts + 1 < MaxAttempts)
  <2>1. pending' = pending \ {a}
    BY <1>4, <1>8
  <2>2. pending' # (pending \ {a}) \cup {a}
    BY <2>1
  <2> QED
    BY <1>1, <1>3, <1>4, <1>6, <2>1, <2>2, ToldKeepsInv
<1> QED
  BY <1>7, <1>8

LEMMA NotifierInvStep ==
    ASSUME NotifierInv, [NotifierNext]_notifierVars
    PROVE  NotifierInv'
<1>1. CASE NoticeRetire
  <2>1. [Next]_ledgerVars
    BY <1>1, NotifierAssumption DEF NoticeRetire, Next
  <2> QED
    BY <1>1, <2>1, NoticesDrop DEF NoticeRetire
<1>2. ASSUME NEW w \in Writers, Restart(w)
      PROVE  NotifierInv'
  BY <1>2, NoticesDrop DEF Restart
<1>3. CASE UNCHANGED notifierVars
  BY <1>3, NoticesDrop DEF notifierVars
<1> QED
  BY <1>1, <1>2, <1>3, NoticeAcceptKeepsInv, NoticeAppendKeepsInv, AnnounceKeepsInv,
     AttemptKeepsInv DEF NotifierNext

LEMMA NotifierInvInit == NotifierInit => NotifierInv
BY DEF NotifierInit, Init, TypeOK, NotifierInv, FirstTold

\* Whatever a process forgets, replays or loses with a crash, a transition is
\* announced once, shown twice only after a late arrival, and never told of a
\* run of which the ledger says otherwise.
THEOREM TransitionsAreToldOnce == NotifierSpec => []AnnouncedOnce
<1>1. NotifierInv /\ [NotifierNext]_notifierVars => NotifierInv'
  BY NotifierInvStep
<1>2. NotifierInv => AnnouncedOnce
  BY DEF NotifierInv, IsSo, IsToldOnce, AnnouncedOnce
<1> QED
  BY <1>1, <1>2, NotifierInvInit, PTL DEF NotifierSpec

-----------------------------------------------------------------------------
(* The worker reporter                                                     *)

\* A comment shows a message that is an event of its run.
CommentIsTrue(n) ==
    /\ status[comments[n].run] # "none"
    /\ EventIsLogged(comments[n].run, ReportId(comments[n].shows))

\* A call knows comments of its run, and tells what is on the ledger.
ReportIsSound(x) ==
    /\ x.at = "idle" <=> x.run = Nil
    /\ x.run # Nil => x.message \in Messages /\ status[x.run] # "none"
    /\ x.at \notin {"idle", "append"} => EventIsLogged(x.run, ReportId(x.message))
    /\ x.at \in {"edit", "save", "link"} =>
           x.id \in CommentsOf(x.run, KindOf(x.message))
    /\ x.at \in {"edit", "post", "save", "link"} =>
           \A k \in MessageKinds :
               x.known[k] # 0 => x.known[k] \in CommentsOf(x.run, k)

SavedIsSound(r) ==
    \A k \in MessageKinds : savedIds[r][k] # 0 => savedIds[r][k] \in CommentsOf(r, k)

LinkedIsSound(r) ==
    \A m \in Messages :
        linked[r][m] # 0 => /\ linked[r][m] \in CommentsOf(r, KindOf(m))
                            /\ status[r] # "none" /\ EventIsLogged(r, ReportId(m))

\* The comment n is posted and about to be recorded.
IsPosted(n, r, k) ==
    \E c \in Reporters :
        /\ report[c].at = "save" /\ report[c].id = n
        /\ report[c].run = r /\ KindOf(report[c].message) = k

\* Where no comment escaped its record: one call at a time, and the record it
\* read still stands; every comment is recorded, or about to be.
IsKept(r) ==
    /\ \A c, d \in Reporters : report[c].run = r /\ report[d].run = r => c = d
    /\ \A c \in Reporters :
           report[c].run = r /\ report[c].at \in {"post", "save"} =>
               /\ report[c].known = savedIds[r]
               /\ savedIds[r][KindOf(report[c].message)] = 0
    /\ \A k \in MessageKinds : \A n \in CommentsOf(r, k) :
           n = savedIds[r][k] \/ IsPosted(n, r, k)

ReporterInv ==
    /\ ReporterTypeOK
    /\ \A n \in DOMAIN comments : CommentIsTrue(n)
    /\ \A c \in Reporters : ReportIsSound(report[c])
    /\ \A r \in Runs : SavedIsSound(r) /\ LinkedIsSound(r)
    /\ \A r \in Runs \ disturbed : IsKept(r)

\* The events of the reporter are events of the ledger.
LEMMA ReportsAreEvents ==
    /\ \A m \in Messages : KindOf(m) \in MessageKinds /\ ReportEvent(m) \in Event
    /\ Resumption \in Event
<1>1. /\ \A m \in Messages : ReportId(m) \in EventIds
      /\ Resumption.id \in EventIds
  BY ReporterIdsAssumption DEF ReportEventIds
<1>2. \A m \in Messages : KindOf(m) \in MessageKinds
  BY ReporterAssumption DEF KindOf
<1>3. ASSUME NEW m \in Messages
      PROVE  ReportEvent(m) \in Event
  BY <1>1, <1>2 DEF ReportEvent, WorkerEvent, MessageKinds, Event, WellFormed, EventTypes,
     WorkTypes, RunStatus, Active
<1>4. Resumption \in Event
  BY <1>1 DEF Resumption, Event, WellFormed, EventTypes, WorkTypes, RunStatus, Active
<1> QED
  BY <1>2, <1>3, <1>4

\* Comments are added or edited, never taken away or moved to another run.
CommentsStand ==
    /\ comments' \in Seq(Comment) /\ Len(comments) <= Len(comments')
    /\ \A n \in DOMAIN comments :
           /\ n \in DOMAIN comments'
           /\ comments'[n].run = comments[n].run /\ comments'[n].kind = comments[n].kind

LEMMA CommentsOfStand ==
    ASSUME CommentsStand, NEW r, NEW k
    PROVE  /\ CommentsOf(r, k) \subseteq CommentsOf(r, k)'
           /\ DOMAIN comments' = DOMAIN comments => CommentsOf(r, k)' = CommentsOf(r, k)
BY DEF CommentsStand, CommentsOf

\* What the ledger has it keeps.
LEMMA LoggedStays ==
    ASSUME TypeOK, [Next]_ledgerVars, NEW r \in Runs, status[r] # "none"
    PROVE  /\ status'[r] # "none"
           /\ \A id : EventIsLogged(r, id) => EventIsLogged(r, id)'
BY LedgerGrows DEF EventIsLogged

\* A step of one call, once what it moves to is known to be sound and its run,
\* unless disturbed, kept.
LEMMA ReportTurn ==
    ASSUME ReporterInv, NEW c \in Reporters, NEW x \in ReportCall,
           report' = [report EXCEPT ![c] = x], [Next]_ledgerVars, CommentsStand,
           \A n \in DOMAIN comments' : CommentIsTrue(n)',
           made' \in 0..MaxReports, lapses' \in 0..MaxLapses,
           disturbed' \subseteq Runs,
           savedIds' \in [Runs -> [MessageKinds -> 0 .. Len(comments')]],
           linked' \in [Runs -> [Messages -> 0 .. Len(comments')]],
           \A r \in Runs : SavedIsSound(r)' /\ LinkedIsSound(r)',
           ReportIsSound(x)',
           \A r \in Runs \ disturbed' : IsKept(r)'
    PROVE  ReporterInv'
<1>1. TypeOK'
  BY LedgerTypeStep DEF ReporterInv, ReporterTypeOK
<1>2. report' \in [Reporters -> ReportCall] /\ report'[c] = x
  BY DEF ReporterInv, ReporterTypeOK
<1>3. ASSUME NEW y \in ReportCall, ReportIsSound(y)
      PROVE  ReportIsSound(y)'
  <2>1. y.run # Nil => y.run \in Runs /\ status[y.run] # "none"
    BY <1>3 DEF ReportIsSound, ReportCall
  <2>2. y.run # Nil => /\ status'[y.run] # "none"
                       /\ \A id : EventIsLogged(y.run, id) => EventIsLogged(y.run, id)'
    BY <2>1, LoggedStays DEF ReporterInv, ReporterTypeOK
  <2>3. \A k : CommentsOf(y.run, k) \subseteq CommentsOf(y.run, k)'
    BY CommentsOfStand
  <2> QED
    BY <1>3, <2>2, <2>3 DEF ReportIsSound
<1>4. ASSUME NEW d \in Reporters
      PROVE  ReportIsSound(report[d])'
  <2>1. CASE d = c
    BY <1>2, <2>1
  <2>2. CASE d # c
    <3>1. report'[d] = report[d] /\ report[d] \in ReportCall /\ ReportIsSound(report[d])
      BY <2>2 DEF ReporterInv, ReporterTypeOK
    <3> QED
      BY <1>3, <3>1
  <2> QED
    BY <2>1, <2>2
<1> QED
  BY <1>1, <1>2, <1>4 DEF ReporterInv, ReporterTypeOK, CommentsStand

\* A run that is not disturbed by the step of a call stays kept.
LEMMA KeptStays ==
    ASSUME ReporterInv, NEW c \in Reporters, NEW x \in ReportCall,
           report' = [report EXCEPT ![c] = x],
           NEW r \in Runs \ disturbed, savedIds'[r] = savedIds[r],
           \A k \in MessageKinds : CommentsOf(r, k)' = CommentsOf(r, k),
           report[c].at = "save" => report[c].run # r,
           x.run = r => x.run = report[c].run \/ ~InFlight(r),
           x.run = r /\ x.at \in {"post", "save"} =>
               x.known = savedIds[r] /\ savedIds[r][KindOf(x.message)] = 0
    PROVE  IsKept(r)'
<1>1. IsKept(r) /\ report'[c] = x /\ \A d \in Reporters \ {c} : report'[d] = report[d]
  BY DEF ReporterInv, ReporterTypeOK
<1>2. \A d, e \in Reporters : report'[d].run = r /\ report'[e].run = r => d = e
  BY <1>1 DEF IsKept, InFlight
<1>3. \A d \in Reporters :
          report'[d].run = r /\ report'[d].at \in {"post", "save"} =>
              /\ report'[d].known = savedIds'[r]
              /\ savedIds'[r][KindOf(report'[d].message)] = 0
  BY <1>1 DEF IsKept
<1>4. ASSUME NEW n, NEW k, IsPosted(n, r, k)
      PROVE  IsPosted(n, r, k)'
  BY <1>1, <1>4 DEF IsPosted
<1> QED
  BY <1>1, <1>2, <1>3, <1>4 DEF IsKept

\* What the ledger, the comments and the records say stays said while the
\* ledger moves on and the record and the links stay.
LEMMA TruthStays ==
    ASSUME ReporterInv, [Next]_ledgerVars
    PROVE  /\ UNCHANGED comments => \A n \in DOMAIN comments : CommentIsTrue(n)'
           /\ CommentsStand /\ UNCHANGED savedIds =>
                  /\ \A r \in Runs : SavedIsSound(r)'
                  /\ savedIds' \in [Runs -> [MessageKinds -> 0 .. Len(comments')]]
           /\ CommentsStand /\ UNCHANGED linked =>
                  /\ \A r \in Runs : LinkedIsSound(r)'
                  /\ linked' \in [Runs -> [Messages -> 0 .. Len(comments')]]
           /\ UNCHANGED comments => CommentsStand
<1>1. ASSUME UNCHANGED comments, NEW n \in DOMAIN comments
      PROVE  CommentIsTrue(n)'
  <2>1. comments[n].run \in Runs /\ CommentIsTrue(n)
    <3>1. comments[n] \in Comment /\ CommentIsTrue(n)
      BY DEF ReporterInv, ReporterTypeOK
    <3> QED
      BY <3>1 DEF Comment
  <2> QED
    BY <1>1, <2>1, LoggedStays DEF ReporterInv, ReporterTypeOK, CommentIsTrue
<1>2. ASSUME CommentsStand, UNCHANGED savedIds
      PROVE  /\ \A r \in Runs : SavedIsSound(r)'
             /\ savedIds' \in [Runs -> [MessageKinds -> 0 .. Len(comments')]]
  <2>1. \A r, k : CommentsOf(r, k) \subseteq CommentsOf(r, k)'
    BY <1>2, CommentsOfStand
  <2>2. \A r \in Runs : SavedIsSound(r)'
    BY <1>2, <2>1 DEF ReporterInv, SavedIsSound
  <2>3. 0 .. Len(comments) \subseteq 0 .. Len(comments')
    BY <1>2 DEF CommentsStand, ReporterInv, ReporterTypeOK
  <2> QED
    BY <1>2, <2>2, <2>3 DEF ReporterInv, ReporterTypeOK
<1>3. ASSUME CommentsStand, UNCHANGED linked
      PROVE  /\ \A r \in Runs : LinkedIsSound(r)'
             /\ linked' \in [Runs -> [Messages -> 0 .. Len(comments')]]
  <2>1. \A r, k : CommentsOf(r, k) \subseteq CommentsOf(r, k)'
    BY <1>3, CommentsOfStand
  <2>2. \A r \in Runs : LinkedIsSound(r)'
    BY <1>3, <2>1, LoggedStays DEF ReporterInv, ReporterTypeOK, LinkedIsSound
  <2>3. 0 .. Len(comments) \subseteq 0 .. Len(comments')
    BY <1>3 DEF CommentsStand, ReporterInv, ReporterTypeOK
  <2> QED
    BY <1>3, <2>2, <2>3 DEF ReporterInv, ReporterTypeOK
<1>4. UNCHANGED comments => CommentsStand
  BY DEF ReporterInv, ReporterTypeOK, CommentsStand
<1> QED
  BY <1>1, <1>2, <1>3, <1>4

\* A step of a call that writes neither comments, the record nor the links.
LEMMA QuietReportTurn ==
    ASSUME ReporterInv, NEW c \in Reporters, NEW x \in ReportCall,
           report' = [report EXCEPT ![c] = x], [Next]_ledgerVars,
           UNCHANGED <<comments, savedIds, linked>>,
           made' \in 0..MaxReports, lapses' \in 0..MaxLapses,
           disturbed \subseteq disturbed', disturbed' \subseteq Runs,
           ReportIsSound(x)',
           report[c].at = "save" => report[c].run \in disturbed',
           x.run # Nil => \/ x.run = report[c].run \/ x.run \in disturbed'
                          \/ ~InFlight(x.run),
           x.at \in {"post", "save"} /\ x.run \notin disturbed' =>
               x.known = savedIds[x.run] /\ savedIds[x.run][KindOf(x.message)] = 0
    PROVE  ReporterInv'
<1>1. \A r, k : CommentsOf(r, k)' = CommentsOf(r, k)
  BY DEF CommentsOf
<1>2. \A r \in Runs \ disturbed' : IsKept(r)'
  BY <1>1, KeptStays, LedgerAssumption
<1> QED
  BY <1>2, ReportTurn, TruthStays DEF ReporterInv, ReporterTypeOK

\* A call under way is of a run that began.
LEMMA CallsAreTyped ==
    ASSUME ReporterInv, NEW c \in Reporters
    PROVE  /\ report[c] \in ReportCall /\ ReportIsSound(report[c])
           /\ report[c].at # "idle" =>
                  /\ report[c].run \in Runs /\ report[c].message \in Messages
                  /\ KindOf(report[c].message) \in MessageKinds
                  /\ InFlight(report[c].run)
BY ReportsAreEvents DEF ReporterInv, ReporterTypeOK, ReportIsSound, ReportCall, InFlight

\* A call ends, with its message told or not.
LEMMA ReturnKeepsInv ==
    ASSUME ReporterInv, NEW c \in Reporters, Return(c), [Next]_ledgerVars,
           UNCHANGED <<comments, savedIds, linked>>,
           made' \in 0..MaxReports, lapses' \in 0..MaxLapses,
           disturbed \subseteq disturbed', disturbed' \subseteq Runs,
           report[c].at = "save" => report[c].run \in disturbed'
    PROVE  ReporterInv'
<1> DEFINE x == NoCall
<1>1. /\ x \in ReportCall /\ x.at = "idle" /\ x.run = Nil
  BY DEF NoCall, ReportCall, NoneSaved
<1>2. report' = [report EXCEPT ![c] = x]
  BY DEF Return
<1> HIDE DEF x
<1>3. ReportIsSound(x)'
  BY <1>1 DEF ReportIsSound
<1> QED
  BY <1>1, <1>2, <1>3, QuietReportTurn

LEMMA LapseKeepsInv ==
    ASSUME ReporterInv, NEW c \in Reporters, Lapse(c), [Next]_ledgerVars,
           UNCHANGED <<comments, savedIds, linked, made>>,
           disturbed \subseteq disturbed', disturbed' \subseteq Runs,
           report[c].at = "save" => report[c].run \in disturbed'
    PROVE  ReporterInv'
<1>1. lapses' \in 0..MaxLapses /\ made' \in 0..MaxReports
  BY ReporterAssumption DEF Lapse, ReporterInv, ReporterTypeOK
<1> QED
  BY <1>1, ReturnKeepsInv DEF Lapse

LEMMA StartReportKeepsInv ==
    ASSUME ReporterInv, NEW c \in Reporters, NEW r \in Runs, NEW m \in Messages,
           StartReport(c, r, m)
    PROVE  ReporterInv'
<1>1. report[c] \in ReportCall /\ report[c].at = "idle" /\ status[r] # "none"
  BY CallsAreTyped DEF StartReport
<1>2. PICK x \in ReportCall : /\ report' = [report EXCEPT ![c] = x]
                            /\ x.at = "append" /\ x.run = r /\ x.message = m
  <2> DEFINE x == [report[c] EXCEPT !.at = "append", !.run = r, !.message = m]
  <2>1. x \in ReportCall /\ x.at = "append" /\ x.run = r /\ x.message = m
    BY <1>1 DEF ReportCall
  <2>2. report' = [report EXCEPT ![c] = x]
    BY DEF StartReport, ReporterInv, ReporterTypeOK, ReportCall
  <2> QED
    BY <2>1, <2>2
<1>3. status'[r] # "none"
  BY <1>1 DEF StartReport, ledgerVars
<1>4. ReportIsSound(x)'
  BY <1>2, <1>3, LedgerAssumption DEF ReportIsSound
<1>5. /\ made' \in 0..MaxReports /\ lapses' \in 0..MaxLapses
      /\ disturbed \subseteq disturbed' /\ disturbed' \subseteq Runs
      /\ InFlight(r) => r \in disturbed'
      /\ UNCHANGED <<ledgerVars, comments, savedIds, linked>>
  BY ReporterAssumption DEF StartReport, Escapes, ReporterInv, ReporterTypeOK
<1> QED
  BY <1>1, <1>2, <1>4, <1>5, QuietReportTurn

\* A call goes on to the next place.
LEMMA MoveKeepsInv ==
    ASSUME ReporterInv, NEW c \in Reporters, NEW pc \in {"read", "link"},
           MoveReport(c, pc), [Next]_ledgerVars,
           UNCHANGED <<comments, savedIds, linked, made, lapses, disturbed>>,
           report[c].at \in {"append", "read", "edit"},
           \E e \in log'[report[c].run] : e.id = ReportId(report[c].message),
           pc = "link" => report[c].at = "edit"
    PROVE  ReporterInv'
<1>1. report[c] \in ReportCall /\ ReportIsSound(report[c])
  BY CallsAreTyped
<1>2. PICK x \in ReportCall :
          /\ report' = [report EXCEPT ![c] = x] /\ x.at = pc
          /\ x.run = report[c].run /\ x.message = report[c].message
          /\ x.known = report[c].known /\ x.id = report[c].id
  <2> DEFINE x == [report[c] EXCEPT !.at = pc]
  <2>1. /\ x \in ReportCall /\ x.at = pc /\ x.run = report[c].run
        /\ x.message = report[c].message /\ x.known = report[c].known
        /\ x.id = report[c].id
    BY <1>1 DEF ReportCall
  <2> QED
    BY <2>1 DEF MoveReport
<1>3. x.run \in Runs /\ status[x.run] # "none" /\ x.message \in Messages
  BY <1>1, <1>2, CallsAreTyped, LedgerAssumption DEF ReportIsSound
<1>4. status'[x.run] # "none"
  BY <1>3, LoggedStays DEF ReporterInv, ReporterTypeOK
<1>5. EventIsLogged(x.run, ReportId(x.message))'
  BY <1>2 DEF EventIsLogged
<1>6. \A r, k : CommentsOf(r, k)' = CommentsOf(r, k)
  BY DEF CommentsOf
<1>7. ReportIsSound(x)'
  BY <1>1, <1>2, <1>3, <1>4, <1>5, <1>6, LedgerAssumption DEF ReportIsSound
<1> QED
  BY <1>1, <1>2, <1>3, <1>7, QuietReportTurn DEF ReporterInv, ReporterTypeOK

LEMMA RecordReportKeepsInv ==
    ASSUME ReporterInv, NEW c \in Reporters, RecordReport(c)
    PROVE  ReporterInv'
<1> DEFINE r == report[c].run
           e == ReportEvent(report[c].message)
<1>1. /\ report[c].at = "append" /\ UNCHANGED <<comments, savedIds, linked, made, disturbed>>
      /\ r \in Runs /\ e \in Event /\ e.id = ReportId(report[c].message)
      /\ lapses \in 0..MaxLapses /\ made \in 0..MaxReports /\ disturbed \subseteq Runs
      /\ TypeOK
  BY CallsAreTyped, ReportsAreEvents DEF RecordReport, ReporterInv, ReporterTypeOK,
     ReportEvent
<1> HIDE DEF r, e
<1>2. CASE AppendEvent(r, e) /\ MoveReport(c, "read") /\ UNCHANGED lapses
  <2>1. [Next]_ledgerVars
    BY <1>1, <1>2 DEF Next
  <2>2. e \in log'[r]
    BY <1>1, <1>2, AppendEffect
  <2> QED
    BY <1>1, <1>2, <2>1, <2>2, MoveKeepsInv DEF r
<1>3. CASE e \in log[r] /\ MoveReport(c, "read") /\ UNCHANGED <<ledgerVars, lapses>>
  <2>1. log' = log
    BY <1>3 DEF ledgerVars
  <2> QED
    BY <1>1, <1>3, <2>1, MoveKeepsInv DEF r
<1>4. CASE Return(c) /\ UNCHANGED <<ledgerVars, lapses>>
  BY <1>1, <1>4, ReturnKeepsInv
<1>5. CASE Lapse(c) /\ (AppendEvent(r, e) \/ UNCHANGED ledgerVars)
  <2>1. [Next]_ledgerVars
    BY <1>1, <1>5 DEF Next
  <2> QED
    BY <1>1, <1>5, <2>1, LapseKeepsInv
<1> QED
  BY <1>2, <1>3, <1>4, <1>5 DEF RecordReport, r, e

LEMMA ReadRecordKeepsInv ==
    ASSUME ReporterInv, NEW c \in Reporters, ReadRecord(c)
    PROVE  ReporterInv'
<1>1. /\ report[c] \in ReportCall /\ ReportIsSound(report[c]) /\ report[c].at = "read"
      /\ report[c].run \in Runs /\ report[c].message \in Messages
      /\ KindOf(report[c].message) \in MessageKinds
      /\ UNCHANGED <<ledgerVars, comments, savedIds, linked, made, disturbed>>
      /\ status[report[c].run] # "none"
      /\ EventIsLogged(report[c].run, ReportId(report[c].message))
  BY CallsAreTyped, LedgerAssumption DEF ReadRecord, ReportIsSound
<1>2. CASE Lapse(c)
  BY <1>1, <1>2, LapseKeepsInv DEF ReporterInv, ReporterTypeOK
<1> DEFINE known == savedIds[report[c].run]
           id == known[KindOf(report[c].message)]
           next == IF id = 0 THEN "post" ELSE "edit"
<1>3. CASE /\ report' = [report EXCEPT ![c].known = known, ![c].id = id, ![c].at = next]
           /\ UNCHANGED lapses
  <2>1. known \in [MessageKinds -> Nat] /\ SavedIsSound(report[c].run)
    <3>1. known \in [MessageKinds -> 0 .. Len(comments)] /\ Len(comments) \in Nat
      BY <1>1 DEF ReporterInv, ReporterTypeOK
    <3> QED
      BY <1>1, <3>1 DEF ReporterInv
  <2>2. PICK x \in ReportCall :
            /\ report' = [report EXCEPT ![c] = x] /\ x.at = next
            /\ x.run = report[c].run /\ x.message = report[c].message
            /\ x.known = known /\ x.id = id
    <3> DEFINE x == [report[c] EXCEPT !.known = known, !.id = id, !.at = next]
    <3>1. id \in Nat /\ next \in {"post", "edit"}
      BY <1>1, <2>1
    <3> HIDE DEF known, id, next
    <3>2. /\ x \in ReportCall /\ x.at = next
          /\ x.run = report[c].run /\ x.message = report[c].message
          /\ x.known = known /\ x.id = id
      BY <1>1, <2>1, <3>1 DEF ReportCall
    <3>3. report' = [report EXCEPT ![c] = x]
      BY <1>1, <1>3 DEF ReporterInv, ReporterTypeOK, ReportCall
    <3> QED
      BY <3>2, <3>3
  <2>3. /\ x.at = "post" => savedIds[x.run][KindOf(x.message)] = 0
        /\ x.at = "edit" => savedIds[x.run][KindOf(x.message)] # 0
        /\ x.at \in {"post", "edit"} /\ x.known = savedIds[x.run]
        /\ x.id = x.known[KindOf(x.message)]
    BY <2>2
  <2> HIDE DEF known, id, next
  <2>4. /\ x.at = "edit" => x.id \in CommentsOf(x.run, KindOf(x.message))
        /\ \A k \in MessageKinds : x.known[k] # 0 => x.known[k] \in CommentsOf(x.run, k)
    BY <1>1, <2>1, <2>2, <2>3 DEF SavedIsSound
  <2>5. \A r, k : CommentsOf(r, k)' = CommentsOf(r, k)
    BY <1>1 DEF CommentsOf
  <2>6. status'[x.run] # "none" /\ EventIsLogged(x.run, ReportId(x.message))'
    BY <1>1, <2>2 DEF ledgerVars, EventIsLogged
  <2>7. ReportIsSound(x)'
    BY <1>1, <2>2, <2>3, <2>4, <2>5, <2>6, LedgerAssumption DEF ReportIsSound
  <2> QED
    BY <1>1, <1>3, <2>2, <2>3, <2>7, QuietReportTurn DEF ReporterInv, ReporterTypeOK
<1> QED
  BY <1>2, <1>3 DEF ReadRecord

LEMMA CrashReportKeepsInv ==
    ASSUME ReporterInv, NEW c \in Reporters, CrashReport(c)
    PROVE  ReporterInv'
<1>1. disturbed \subseteq disturbed' /\ disturbed' \subseteq Runs
  BY CallsAreTyped DEF CrashReport, Escapes, ReporterInv, ReporterTypeOK
<1> QED
  BY <1>1, LapseKeepsInv DEF CrashReport, Escapes

\* The ledger links the message to its comment, if it can.
LEMMA LinkCommentKeepsInv ==
    ASSUME ReporterInv, NEW c \in Reporters, LinkComment(c)
    PROVE  ReporterInv'
<1> DEFINE r == report[c].run
           m == report[c].message
<1>1. /\ report[c].at = "link" /\ r \in Runs /\ m \in Messages
      /\ UNCHANGED <<ledgerVars, comments, savedIds, made, disturbed>>
      /\ report[c].id \in CommentsOf(r, KindOf(m))
      /\ EventIsLogged(r, ReportId(m)) /\ status[r] # "none"
  BY CallsAreTyped, LedgerAssumption DEF LinkComment, ReportIsSound
<1>2. CASE Lapse(c) /\ UNCHANGED linked
  BY <1>1, <1>2, LapseKeepsInv DEF ReporterInv, ReporterTypeOK
<1>3. CASE /\ linked' = [linked EXCEPT ![r][m] = report[c].id]
           /\ Return(c) /\ UNCHANGED lapses
  <2> HIDE DEF r, m
  <2>1. linked' \in [Runs -> [Messages -> 0 .. Len(comments')]]
    <3>1. report[c].id \in 0 .. Len(comments)
      BY <1>1 DEF CommentsOf, ReporterInv, ReporterTypeOK
    <3> QED
      BY <1>1, <1>3, <3>1 DEF ReporterInv, ReporterTypeOK
  <2>2. \A q, k : CommentsOf(q, k)' = CommentsOf(q, k)
    BY <1>1 DEF CommentsOf
  <2>3. ASSUME NEW q \in Runs
        PROVE  LinkedIsSound(q)'
    <3>1. \A n \in Messages : ~(q = r /\ n = m) => linked'[q][n] = linked[q][n]
      BY <1>1, <1>3 DEF ReporterInv, ReporterTypeOK
    <3>2. q = r => linked'[q][m] = report[c].id
      BY <1>1, <1>3 DEF ReporterInv, ReporterTypeOK
    <3>3. LinkedIsSound(q) /\ status' = status /\ log' = log
      BY <1>1 DEF ReporterInv, ledgerVars
    <3> QED
      BY <1>1, <2>2, <3>1, <3>2, <3>3 DEF LinkedIsSound, EventIsLogged
  <2>4. PICK x \in ReportCall :
            report' = [report EXCEPT ![c] = x] /\ x.at = "idle" /\ x.run = Nil
    <3>1. NoCall \in ReportCall /\ NoCall.at = "idle" /\ NoCall.run = Nil
      BY DEF NoCall, ReportCall, NoneSaved
    <3> QED
      BY <1>3, <3>1 DEF Return
  <2>5. ReportIsSound(x)'
    BY <2>4 DEF ReportIsSound
  <2>6. \A q \in Runs \ disturbed : IsKept(q)'
    BY <1>1, <2>2, <2>4, KeptStays, LedgerAssumption
  <2> QED
    BY <1>1, <1>3, <2>1, <2>3, <2>4, <2>5, <2>6, ReportTurn, TruthStays
       DEF ReporterInv, ReporterTypeOK
<1> QED
  BY <1>2, <1>3 DEF LinkComment

\* An edited comment tells what is on the ledger of its run.
LEMMA EditStands ==
    ASSUME ReporterInv, NEW c \in Reporters, report[c].at = "edit", UNCHANGED ledgerVars,
           comments' = [comments EXCEPT ![report[c].id].shows = report[c].message]
    PROVE  /\ CommentsStand /\ DOMAIN comments' = DOMAIN comments
           /\ \A n \in DOMAIN comments' : CommentIsTrue(n)'
<1> DEFINE r == report[c].run
           m == report[c].message
           id == report[c].id
<1>1. /\ r \in Runs /\ m \in Messages /\ status[r] # "none"
      /\ EventIsLogged(r, ReportId(m))
      /\ id \in DOMAIN comments /\ comments[id].run = r
      /\ comments \in Seq(Comment) /\ status' = status /\ log' = log
      /\ comments' = [comments EXCEPT ![id].shows = m]
  BY CallsAreTyped, LedgerAssumption DEF ReportIsSound, CommentsOf, ReporterInv,
     ReporterTypeOK, ledgerVars
<1> HIDE DEF r, m, id
<1>2. comments[id] \in Comment
  BY <1>1
<1>3. PICK y \in Comment : /\ y.run = r /\ y.kind = comments[id].kind /\ y.shows = m
                           /\ comments' = [comments EXCEPT ![id] = y]
  <2> DEFINE y == [comments[id] EXCEPT !.shows = m]
  <2>1. y \in Comment /\ y.run = r /\ y.kind = comments[id].kind /\ y.shows = m
    BY <1>1, <1>2 DEF Comment
  <2> QED
    BY <1>1, <2>1
<1>4. /\ comments' \in Seq(Comment) /\ Len(comments') = Len(comments)
      /\ DOMAIN comments' = DOMAIN comments
      /\ \A n \in DOMAIN comments : comments'[n] = IF n = id THEN y ELSE comments[n]
  <2>1. DOMAIN comments = 1 .. Len(comments) /\ Len(comments) \in Nat
    BY <1>1
  <2> DEFINE t == [comments EXCEPT ![id] = y]
  <2>2. id \in 1 .. Len(comments) /\ y \in Comment /\ comments \in Seq(Comment)
    BY <1>1, <2>1
  <2>3. /\ t \in Seq(Comment) /\ Len(t) = Len(comments)
        /\ \A n \in 1 .. Len(comments) : t[n] = IF n = id THEN y ELSE comments[n]
    BY <2>2, ExceptSeq
  <2>4. comments' = t
    BY <1>3
  <2> HIDE DEF t
  <2>5. DOMAIN t = 1 .. Len(t)
    BY <2>3
  <2> QED
    BY <2>1, <2>3, <2>4, <2>5
<1>5. CommentsStand
  BY <1>1, <1>3, <1>4 DEF CommentsStand
<1>6. ASSUME NEW n \in DOMAIN comments
      PROVE  CommentIsTrue(n)'
  <2>1. CommentIsTrue(n)
    BY <1>6 DEF ReporterInv
  <2> QED
    BY <1>1, <1>3, <1>4, <2>1 DEF CommentIsTrue, EventIsLogged
<1> QED
  BY <1>4, <1>5, <1>6

\* So does a posted one.
LEMMA PostStands ==
    ASSUME ReporterInv, NEW c \in Reporters, report[c].at = "post", UNCHANGED ledgerVars,
           NEW r \in Runs, NEW m \in Messages,
           r = report[c].run, m = report[c].message,
           comments' = Append(comments, [run |-> r, kind |-> KindOf(m), shows |-> m])
    PROVE  /\ CommentsStand /\ Len(comments') = Len(comments) + 1
           /\ \A n \in DOMAIN comments' : CommentIsTrue(n)'
           /\ \A q \in Runs, k \in MessageKinds :
                  CommentsOf(q, k)' = IF q = r /\ k = KindOf(m)
                                      THEN CommentsOf(q, k) \cup {Len(comments) + 1}
                                      ELSE CommentsOf(q, k)
<1> DEFINE y == [run |-> r, kind |-> KindOf(m), shows |-> m]
<1>1. /\ status[r] # "none" /\ EventIsLogged(r, ReportId(m))
      /\ comments \in Seq(Comment) /\ status' = status /\ log' = log
  BY CallsAreTyped, LedgerAssumption DEF ReportIsSound, ReporterInv, ReporterTypeOK,
     ledgerVars
<1>2. y \in Comment /\ y.run = r /\ y.kind = KindOf(m) /\ y.shows = m
  BY ReportsAreEvents DEF Comment
<1> HIDE DEF y
<1>3. /\ comments' \in Seq(Comment) /\ Len(comments') = Len(comments) + 1
      /\ DOMAIN comments = 1 .. Len(comments)
      /\ DOMAIN comments' = 1 .. Len(comments) + 1 /\ Len(comments) \in Nat
      /\ comments'[Len(comments) + 1] = y
      /\ \A n \in DOMAIN comments : comments'[n] = comments[n]
  <2>1. comments' = Append(comments, y)
    BY DEF y
  <2> QED
    BY <1>1, <1>2, <2>1
<1>4. CommentsStand
  BY <1>3 DEF CommentsStand
<1>5. ASSUME NEW n \in DOMAIN comments'
      PROVE  CommentIsTrue(n)'
  <2>1. n \in DOMAIN comments => CommentIsTrue(n)
    BY DEF ReporterInv
  <2>2. n \in DOMAIN comments \/ n = Len(comments) + 1
    BY <1>3
  <2> QED
    BY <1>1, <1>2, <1>3, <2>1, <2>2 DEF CommentIsTrue, EventIsLogged
<1>6. ASSUME NEW q \in Runs, NEW k \in MessageKinds
      PROVE  CommentsOf(q, k)' = IF q = r /\ k = KindOf(m)
                                 THEN CommentsOf(q, k) \cup {Len(comments) + 1}
                                 ELSE CommentsOf(q, k)
  <2>1. \A n : n \in DOMAIN comments' <=> n \in DOMAIN comments \/ n = Len(comments) + 1
    BY <1>3
  <2> QED
    BY <1>2, <1>3, <2>1 DEF CommentsOf
<1> QED
  BY <1>3, <1>4, <1>5, <1>6

\* A call that goes on to name its comment in the ledger.
LEMMA GoLink ==
    ASSUME ReporterInv, NEW c \in Reporters, MoveReport(c, "link")
    PROVE  \E x \in ReportCall :
               /\ report' = [report EXCEPT ![c] = x] /\ x.at = "link"
               /\ x.id = report[c].id
               /\ x.run = report[c].run /\ x.message = report[c].message
               /\ x.known = report[c].known
<1> DEFINE x == [report[c] EXCEPT !.at = "link"]
<1>1. report[c] \in ReportCall
  BY CallsAreTyped
<1>2. /\ x \in ReportCall /\ x.at = "link" /\ x.id = report[c].id
      /\ x.run = report[c].run /\ x.message = report[c].message
      /\ x.known = report[c].known
  BY <1>1 DEF ReportCall
<1>3. report' = [report EXCEPT ![c] = x]
  BY DEF MoveReport
<1> HIDE DEF x
<1> QED
  BY <1>2, <1>3

\* A step of a call that writes the comments alone, and disturbs the run whose
\* new comment it does not go on to record.
LEMMA CommentTurn ==
    ASSUME ReporterInv, NEW c \in Reporters, NEW x \in ReportCall,
           report' = [report EXCEPT ![c] = x],
           UNCHANGED <<ledgerVars, savedIds, linked, made>>, CommentsStand,
           \A n \in DOMAIN comments' : CommentIsTrue(n)',
           lapses' \in 0..MaxLapses,
           disturbed \subseteq disturbed', disturbed' \subseteq Runs,
           ReportIsSound(x)',
           \A r \in Runs \ disturbed' :
               \/ IsKept(r)'
               \/ /\ \A k \in MessageKinds : CommentsOf(r, k)' = CommentsOf(r, k)
                  /\ report[c].at # "save"
                  /\ x.run \in {report[c].run, Nil} /\ x.at \notin {"post", "save"}
    PROVE  ReporterInv'
<1>1. [Next]_ledgerVars
  OBVIOUS
<1>2. \A r \in Runs \ disturbed' : IsKept(r)'
  BY KeptStays, LedgerAssumption
<1> QED
  BY <1>1, <1>2, ReportTurn, TruthStays DEF ReporterInv, ReporterTypeOK

LEMMA EditCommentKeepsInv ==
    ASSUME ReporterInv, NEW c \in Reporters, NEW done \in BOOLEAN, EditComment(c, done)
    PROVE  ReporterInv'
<1>1. /\ report[c] \in ReportCall /\ ReportIsSound(report[c]) /\ report[c].at = "edit"
      /\ UNCHANGED <<ledgerVars, savedIds, linked, made, disturbed>>
      /\ disturbed' \subseteq Runs /\ lapses \in 0..MaxLapses
      /\ report[c].run \in Runs /\ report[c].message \in Messages
      /\ status[report[c].run] # "none"
  BY CallsAreTyped, LedgerAssumption DEF EditComment, ReportIsSound, ReporterInv,
     ReporterTypeOK
<1>2. CASE ~done
  BY <1>1, <1>2, LapseKeepsInv DEF EditComment
<1>3. CASE done
  <2>1. comments' = [comments EXCEPT ![report[c].id].shows = report[c].message]
    BY <1>3 DEF EditComment
  <2>2. /\ CommentsStand /\ DOMAIN comments' = DOMAIN comments
        /\ \A n \in DOMAIN comments' : CommentIsTrue(n)'
    BY <1>1, <2>1, EditStands
  <2>3. \A r, k : CommentsOf(r, k)' = CommentsOf(r, k)
    BY <2>2, CommentsOfStand
  <2>4. CASE Lapse(c)
    <3>1. PICK x \in ReportCall :
              report' = [report EXCEPT ![c] = x] /\ x.at = "idle" /\ x.run = Nil
      <4>1. NoCall \in ReportCall /\ NoCall.at = "idle" /\ NoCall.run = Nil
        BY DEF NoCall, ReportCall, NoneSaved
      <4> QED
        BY <2>4, <4>1 DEF Lapse, Return
    <3>2. ReportIsSound(x)'
      BY <3>1 DEF ReportIsSound
    <3>3. lapses' \in 0..MaxLapses
      BY <1>1, <2>4, ReporterAssumption DEF Lapse
    <3> QED
      BY <1>1, <2>2, <2>3, <3>1, <3>2, <3>3, CommentTurn
  <2>5. CASE MoveReport(c, "link") /\ UNCHANGED lapses
    <3>1. PICK id \in Nat : id = report[c].id
      BY <1>1 DEF ReportCall
    <3>2. PICK x \in ReportCall :
              /\ report' = [report EXCEPT ![c] = x] /\ x.at = "link"
              /\ x.id = id
              /\ x.run = report[c].run /\ x.message = report[c].message
              /\ x.known = report[c].known
      BY <2>5, <3>1, GoLink
    <3>3. /\ status'[x.run] # "none" /\ EventIsLogged(x.run, ReportId(x.message))'
          /\ x.id \in CommentsOf(x.run, KindOf(x.message))
          /\ \A k \in MessageKinds :
                 x.known[k] # 0 => x.known[k] \in CommentsOf(x.run, k)
      BY <1>1, <3>1, <3>2 DEF ReportIsSound, ledgerVars, EventIsLogged
    <3>4. ReportIsSound(x)'
      BY <1>1, <2>3, <3>2, <3>3, LedgerAssumption DEF ReportIsSound
    <3> QED
      BY <1>1, <2>2, <2>3, <2>5, <3>2, <3>4, CommentTurn
  <2> QED
    BY <2>4, <2>5 DEF EditComment
<1> QED
  BY <1>2, <1>3

\* A posted comment is about to be recorded, or has escaped its record.
LEMMA PostCommentKeepsInv ==
    ASSUME ReporterInv, NEW c \in Reporters, NEW done \in BOOLEAN, PostComment(c, done)
    PROVE  ReporterInv'
<1>1. PICK r \in Runs, m \in Messages :
          r = report[c].run /\ m = report[c].message /\ report[c].at = "post"
  BY CallsAreTyped DEF PostComment
<1>2. /\ report[c] \in ReportCall /\ ReportIsSound(report[c])
      /\ UNCHANGED <<ledgerVars, savedIds, linked, made>>
      /\ disturbed \subseteq Runs /\ lapses \in 0..MaxLapses
      /\ status[r] # "none" /\ KindOf(m) \in MessageKinds
  BY <1>1, CallsAreTyped, LedgerAssumption DEF PostComment, ReportIsSound, ReporterInv,
     ReporterTypeOK
<1>3. CASE ~done
  BY <1>1, <1>2, <1>3, LapseKeepsInv DEF PostComment
<1>4. CASE done
  <2>1. comments' = Append(comments, [run |-> r, kind |-> KindOf(m), shows |-> m])
    BY <1>1, <1>4 DEF PostComment
  <2>2. /\ CommentsStand /\ Len(comments') = Len(comments) + 1
        /\ \A n \in DOMAIN comments' : CommentIsTrue(n)'
        /\ \A q \in Runs, k \in MessageKinds :
               CommentsOf(q, k)' = IF q = r /\ k = KindOf(m)
                                   THEN CommentsOf(q, k) \cup {Len(comments) + 1}
                                   ELSE CommentsOf(q, k)
    BY <1>1, <1>2, <2>1, PostStands
  <2>3. CASE Lapse(c) /\ Escapes(r)
    <3>1. PICK x \in ReportCall :
              report' = [report EXCEPT ![c] = x] /\ x.at = "idle" /\ x.run = Nil
      <4>1. NoCall \in ReportCall /\ NoCall.at = "idle" /\ NoCall.run = Nil
        BY DEF NoCall, ReportCall, NoneSaved
      <4> QED
        BY <2>3, <4>1 DEF Lapse, Return
    <3>2. ReportIsSound(x)'
      BY <3>1 DEF ReportIsSound
    <3>3. lapses' \in 0..MaxLapses
      BY <1>2, <2>3, ReporterAssumption DEF Lapse
    <3>4. \A q \in Runs \ disturbed', k \in MessageKinds :
              CommentsOf(q, k)' = CommentsOf(q, k)
      BY <2>2, <2>3 DEF Escapes
    <3>5. disturbed \subseteq disturbed' /\ disturbed' \subseteq Runs
      BY <1>2, <2>3 DEF Escapes
    <3> QED
      BY <1>1, <1>2, <2>2, <3>1, <3>2, <3>3, <3>4, <3>5, CommentTurn
  <2>4. CASE /\ report' = [report EXCEPT ![c].at = "save", ![c].id = Len(comments) + 1]
             /\ UNCHANGED <<lapses, disturbed>>
    <3>1. PICK new \in Nat : new = Len(comments) + 1
      BY DEF ReporterInv, ReporterTypeOK
    <3>2. PICK x \in ReportCall :
              /\ report' = [report EXCEPT ![c] = x] /\ x.at = "save" /\ x.id = new
              /\ x.run = r /\ x.message = m /\ x.known = report[c].known
      <4> DEFINE x == [report[c] EXCEPT !.at = "save", !.id = new]
      <4>1. /\ x \in ReportCall /\ x.at = "save" /\ x.id = new
            /\ x.run = r /\ x.message = m /\ x.known = report[c].known
        BY <1>1, <1>2, <3>1 DEF ReportCall
      <4>2. report' = [report EXCEPT ![c] = x]
        BY <2>4, <3>1 DEF ReporterInv, ReporterTypeOK, ReportCall
      <4> HIDE DEF x
      <4> QED
        BY <4>1, <4>2
    <3>3. /\ status'[r] # "none" /\ EventIsLogged(r, ReportId(m))'
      BY <1>1, <1>2, LedgerAssumption DEF ReportIsSound, ledgerVars, EventIsLogged
    <3>4. \A k \in MessageKinds :
              x.known[k] # 0 => x.known[k] \in CommentsOf(r, k)'
      BY <1>1, <1>2, <2>2, <3>2 DEF ReportIsSound
    <3>5. x.id \in CommentsOf(r, KindOf(m))'
      BY <1>2, <2>2, <3>1, <3>2
    <3>6. ReportIsSound(x)'
      BY <3>2, <3>3, <3>4, <3>5, LedgerAssumption DEF ReportIsSound
    <3>7. ASSUME NEW q \in Runs \ disturbed
          PROVE  IsKept(q)'
      <4>1. /\ report'[c] = x /\ IsKept(q)
            /\ \A d \in Reporters \ {c} : report'[d] = report[d]
        BY <3>2 DEF ReporterInv, ReporterTypeOK
      <4>2. \A d \in Reporters : report'[d].run = report[d].run
        BY <1>1, <3>2, <4>1
      <4>3. \A d, e \in Reporters : report'[d].run = q /\ report'[e].run = q => d = e
        BY <4>1, <4>2 DEF IsKept
      <4>4. \A d \in Reporters :
                report'[d].run = q /\ report'[d].at \in {"post", "save"} =>
                    /\ report'[d].known = savedIds'[q]
                    /\ savedIds'[q][KindOf(report'[d].message)] = 0
        BY <1>1, <1>2, <3>2, <4>1 DEF IsKept
      <4>5. ASSUME NEW n, NEW k, IsPosted(n, q, k)
            PROVE  IsPosted(n, q, k)'
        BY <1>1, <4>1, <4>5 DEF IsPosted
      <4>6. q = r => IsPosted(new, q, KindOf(m))'
        BY <3>2, <4>1 DEF IsPosted
      <4>7. ASSUME NEW k \in MessageKinds, NEW n \in CommentsOf(q, k)'
            PROVE  n = savedIds'[q][k] \/ IsPosted(n, q, k)'
        BY <1>2, <2>2, <3>1, <4>1, <4>5, <4>6, <4>7 DEF IsKept
      <4> QED
        BY <4>3, <4>4, <4>7 DEF IsKept
    <3> QED
      BY <1>2, <2>2, <2>4, <3>2, <3>6, <3>7, CommentTurn
  <2> QED
    BY <1>1, <1>4, <2>3, <2>4 DEF PostComment
<1> QED
  BY <1>3, <1>4

\* The record that was read, with the posted comment, replaces the stored one.
LEMMA SaveRecordKeepsInv ==
    ASSUME ReporterInv, NEW c \in Reporters, SaveRecord(c)
    PROVE  ReporterInv'
<1>1. PICK r \in Runs, m \in Messages :
          r = report[c].run /\ m = report[c].message /\ report[c].at = "save"
  BY CallsAreTyped DEF SaveRecord
<1>2. /\ report[c] \in ReportCall /\ ReportIsSound(report[c])
      /\ UNCHANGED <<ledgerVars, comments, linked, made>>
      /\ disturbed \subseteq Runs
      /\ status[r] # "none" /\ KindOf(m) \in MessageKinds
  BY <1>1, CallsAreTyped, LedgerAssumption DEF SaveRecord, ReportIsSound, ReporterInv,
     ReporterTypeOK
<1>3. CASE Lapse(c) /\ Escapes(r) /\ UNCHANGED savedIds
  <2>1. disturbed \subseteq disturbed' /\ disturbed' \subseteq Runs /\ r \in disturbed'
    BY <1>2, <1>3 DEF Escapes
  <2> QED
    BY <1>1, <1>2, <1>3, <2>1, LapseKeepsInv
<1> DEFINE record == RecordWith(report[c].known, KindOf(m), report[c].id)
<1>4. CASE /\ savedIds' = [savedIds EXCEPT ![r] = record]
           /\ MoveReport(c, "link") /\ UNCHANGED <<lapses, disturbed>>
  <2>1. PICK id \in Nat : id = report[c].id
    BY <1>2 DEF ReportCall
  <2>2. PICK x \in ReportCall :
            /\ report' = [report EXCEPT ![c] = x] /\ x.at = "link" /\ x.id = id
            /\ x.run = report[c].run /\ x.message = report[c].message
            /\ x.known = report[c].known
    BY <1>4, <2>1, GoLink
  <2>3. /\ status'[r] # "none" /\ EventIsLogged(r, ReportId(m))'
        /\ id \in CommentsOf(r, KindOf(m)) /\ id # 0
        /\ \A k \in MessageKinds : x.known[k] # 0 => x.known[k] \in CommentsOf(r, k)
    BY <1>1, <1>2, <2>1, <2>2, LedgerAssumption DEF ReportIsSound, ledgerVars, EventIsLogged,
       CommentsOf, ReporterInv, ReporterTypeOK
  <2>4. \A q, k : CommentsOf(q, k)' = CommentsOf(q, k)
    BY <1>2 DEF CommentsOf
  <2>5. ReportIsSound(x)'
    BY <1>1, <1>2, <2>2, <2>3, <2>4, LedgerAssumption DEF ReportIsSound
  <2>6. /\ record[KindOf(m)] = id
        /\ \A k \in MessageKinds \ {KindOf(m)} : record[k] = x.known[k]
        /\ record \in [MessageKinds -> 0 .. Len(comments)]
    <3>1. x.known \in [MessageKinds -> Nat]
      BY DEF ReportCall
    <3>2. \A q, k, n : n \in CommentsOf(q, k) => n \in 0 .. Len(comments)
      BY DEF CommentsOf, ReporterInv, ReporterTypeOK
    <3>3. \A k \in MessageKinds : x.known[k] \in 0 .. Len(comments)
      <4>1. 0 \in 0 .. Len(comments)
        BY DEF ReporterInv, ReporterTypeOK
      <4> QED
        BY <2>3, <3>2, <4>1
    <3> QED
      BY <1>2, <2>1, <2>2, <2>3, <3>1, <3>2, <3>3 DEF RecordWith
  <2> HIDE DEF record
  <2>7. /\ savedIds' \in [Runs -> [MessageKinds -> 0 .. Len(comments')]]
        /\ savedIds'[r] = record
        /\ \A q \in Runs \ {r} : savedIds'[q] = savedIds[q]
    BY <1>2, <1>4, <2>6 DEF ReporterInv, ReporterTypeOK
  <2>8. ASSUME NEW q \in Runs
        PROVE  SavedIsSound(q)'
    <3>1. CASE q = r
      BY <1>2, <2>3, <2>4, <2>6, <2>7, <3>1 DEF SavedIsSound
    <3>2. CASE q # r
      BY <2>4, <2>7, <3>2 DEF SavedIsSound, ReporterInv
    <3> QED
      BY <3>1, <3>2
  <2>9. ASSUME NEW q \in Runs \ disturbed
        PROVE  IsKept(q)'
    <3>1. /\ report'[c] = x /\ IsKept(q)
          /\ \A d \in Reporters \ {c} : report'[d] = report[d]
      BY <2>2 DEF ReporterInv, ReporterTypeOK
    <3>2. CASE q # r
      BY <1>1, <2>2, <2>4, <2>7, <3>2, KeptStays
    <3>3. CASE q = r
      <4>1. \A d, e \in Reporters : report'[d].run = q /\ report'[e].run = q => d = e
        BY <2>2, <3>1 DEF IsKept
      <4>2. \A d \in Reporters :
                report'[d].run = q /\ report'[d].at \in {"post", "save"} =>
                    /\ report'[d].known = savedIds'[q]
                    /\ savedIds'[q][KindOf(report'[d].message)] = 0
        BY <1>1, <2>2, <3>1, <3>3 DEF IsKept
      <4>3. /\ x.known = savedIds[q] /\ savedIds[q][KindOf(m)] = 0
        BY <1>1, <2>2, <3>1, <3>3 DEF IsKept
      <4>4. \A d \in Reporters : report[d].run = q => d = c
        BY <1>1, <3>1, <3>3 DEF IsKept
      <4>5. ASSUME NEW k \in MessageKinds, NEW n \in CommentsOf(q, k)
            PROVE  n = savedIds'[q][k]
        <5>1. n # 0
          BY DEF CommentsOf, ReporterInv, ReporterTypeOK
        <5>2. CASE IsPosted(n, q, k)
          BY <1>1, <2>1, <2>6, <2>7, <3>3, <4>4, <5>2 DEF IsPosted
        <5>3. CASE n = savedIds[q][k]
          BY <2>6, <2>7, <3>3, <4>3, <5>1, <5>3
        <5> QED
          BY <3>1, <5>2, <5>3 DEF IsKept
      <4> QED
        BY <2>4, <4>1, <4>2, <4>5 DEF IsKept
    <3> QED
      BY <3>2, <3>3
  <2>10. [Next]_ledgerVars
    BY <1>2
  <2>11. CommentsStand /\ \A n \in DOMAIN comments' : CommentIsTrue(n)'
    BY <1>2, <2>10, TruthStays
  <2>12. /\ \A q \in Runs : LinkedIsSound(q)'
         /\ linked' \in [Runs -> [Messages -> 0 .. Len(comments')]]
    BY <1>2, <2>10, <2>11, TruthStays
  <2> QED
    BY <1>2, <1>4, <2>2, <2>5, <2>7, <2>8, <2>9, <2>10, <2>11, <2>12, ReportTurn
       DEF ReporterInv, ReporterTypeOK
<1> QED
  BY <1>1, <1>3, <1>4 DEF SaveRecord

\* The runs go on beside the reports.
LEMMA WorkGoesOnKeepsInv ==
    ASSUME ReporterInv, WorkGoesOn
    PROVE  ReporterInv'
<1>1. [Next]_ledgerVars /\ UNCHANGED reporterOnly
  BY ReportsAreEvents DEF WorkGoesOn, Next
<1>2. TypeOK'
  BY <1>1, LedgerTypeStep DEF ReporterInv, ReporterTypeOK
<1>3. ReporterTypeOK'
  BY <1>1, <1>2 DEF ReporterInv, ReporterTypeOK, reporterOnly
<1>4. ASSUME NEW c \in Reporters
      PROVE  ReportIsSound(report[c])'
  <2>1. /\ ReportIsSound(report[c])
        /\ report[c].run # Nil => report[c].run \in Runs /\ status[report[c].run] # "none"
    BY DEF ReporterInv, ReporterTypeOK, ReportCall, ReportIsSound
  <2>2. report[c].run # Nil =>
            /\ status'[report[c].run] # "none"
            /\ \A id : (\E e \in log[report[c].run] : e.id = id)
                           => \E e \in log'[report[c].run] : e.id = id
    BY <1>1, <2>1, LoggedStays DEF ReporterInv, ReporterTypeOK, EventIsLogged
  <2>3. report' = report /\ comments' = comments
    BY <1>1 DEF reporterOnly
  <2> QED
    BY <2>1, <2>2, <2>3 DEF ReportIsSound, CommentsOf, EventIsLogged
<1>5. \A n \in DOMAIN comments' : CommentIsTrue(n)'
  BY <1>1, TruthStays DEF reporterOnly
<1>6. \A r \in Runs : SavedIsSound(r)' /\ LinkedIsSound(r)'
  BY <1>1, TruthStays DEF reporterOnly
<1>7. \A r \in Runs \ disturbed' : IsKept(r)'
  BY <1>1 DEF reporterOnly, ReporterInv, IsKept, IsPosted, CommentsOf
<1> QED
  BY <1>3, <1>4, <1>5, <1>6, <1>7 DEF ReporterInv

LEMMA ReporterInvStep ==
    ASSUME ReporterInv, [ReporterNext]_reporterVars
    PROVE  ReporterInv'
<1>1. CASE UNCHANGED reporterVars
  BY <1>1 DEF reporterVars, reporterOnly, ledgerVars, ReporterInv, ReporterTypeOK, TypeOK,
     CommentIsTrue, ReportIsSound, SavedIsSound, LinkedIsSound, IsKept, IsPosted,
     CommentsOf, EventIsLogged
<1> QED
  BY <1>1, WorkGoesOnKeepsInv, StartReportKeepsInv, EditCommentKeepsInv,
     PostCommentKeepsInv, RecordReportKeepsInv, ReadRecordKeepsInv, SaveRecordKeepsInv,
     LinkCommentKeepsInv, CrashReportKeepsInv DEF ReporterNext

LEMMA ReporterInvInit == ReporterInit => ReporterInv
<1> SUFFICES ASSUME ReporterInit
             PROVE  ReporterInv
  OBVIOUS
<1>1. TypeOK
  BY DEF ReporterInit, Init, TypeOK
<1>2. NoCall \in ReportCall /\ ReportIsSound(NoCall) /\ NoCall.run = Nil
  BY DEF NoCall, NoneSaved, ReportCall, ReportIsSound
<1>3. ReporterTypeOK
  BY <1>1, <1>2, ReporterAssumption DEF ReporterInit, ReporterTypeOK, NoneSaved
<1>4. \A r \in Runs : IsKept(r)
  BY <1>2, LedgerAssumption DEF ReporterInit, IsKept, CommentsOf
<1> QED
  BY <1>2, <1>3, <1>4 DEF ReporterInit, ReporterInv, SavedIsSound, LinkedIsSound, NoneSaved

LEMMA ReporterInvGood == ASSUME ReporterInv PROVE CommentsTellTheRecord
<1>1. ASSUME NEW r \in Runs \ disturbed, NEW k \in MessageKinds
      PROVE  Cardinality(CommentsOf(r, k)) <= 1
  <2>1. IsKept(r) /\ 0 \notin CommentsOf(r, k)
    BY DEF ReporterInv, ReporterTypeOK, CommentsOf
  <2>2. ASSUME NEW n \in CommentsOf(r, k), NEW m \in CommentsOf(r, k)
        PROVE  n = m
    BY <2>1 DEF IsKept, IsPosted
  <2>3. CASE CommentsOf(r, k) = {}
    BY <2>3, FS_EmptySet
  <2>4. ASSUME NEW n \in CommentsOf(r, k)
        PROVE  Cardinality(CommentsOf(r, k)) <= 1
    <3>1. CommentsOf(r, k) = {n}
      BY <2>2
    <3>2. Cardinality({n}) = 1
      BY FS_Singleton
    <3> QED
      BY <3>1, <3>2
  <2> QED
    BY <2>3, <2>4
<1> QED
  BY <1>1 DEF ReporterInv, CommentIsTrue, SavedIsSound, LinkedIsSound, CommentsTellTheRecord

\* Every comment on a ticket tells an event of its run, the record and the
\* ledger name comments of the run and kind, and a kind has one comment unless
\* a posted one escaped the record.
THEOREM CommentsStayTrue == ReporterSpec => []CommentsTellTheRecord
<1>1. ReporterInv /\ [ReporterNext]_reporterVars => ReporterInv'
  BY ReporterInvStep
<1>2. ReporterInv => CommentsTellTheRecord
  BY ReporterInvGood
<1> QED
  BY <1>1, <1>2, ReporterInvInit, PTL DEF ReporterSpec

-----------------------------------------------------------------------------
(* The parts together                                                      *)

\* What diff capture appends is events of the ledger, and the row it writes
\* back is one it read.
LEMMA DiffTypeStep ==
    ASSUME DiffTypeOK, [DiffNext]_diffVars
    PROVE  DiffTypeOK'
<1>1. ASSUME NEW d \in Deliveries, Accept(d)
      PROVE  DiffTypeOK'
  <2>1. [Next]_ledgerVars
    BY <1>1, DiffAssumption DEF Accept, Next
  <2> QED
    BY <1>1, <2>1, LedgerTypeStep DEF Accept, DiffTypeOK
<1>2. ASSUME NEW r \in Runs, Report(r)
      PROVE  DiffTypeOK'
  <2>1. ASSUME NEW e \in StageEvents PROVE e \in Event
    <3>1. e.id \in EventIds
      BY DiffIdsAssumption DEF DiffEventIds
    <3> QED
      BY <3>1 DEF StageEvents, Event, WellFormed, EventTypes, WorkTypes, RunStatus,
         Active, Terminal
  <2>2. [Next]_ledgerVars
    BY <1>2, <2>1 DEF Report, Next
  <2> QED
    BY <1>2, <2>2, LedgerTypeStep DEF Report, DiffTypeOK
<1>3. ASSUME NEW r \in Runs, BeginCapture(r)
      PROVE  DiffTypeOK'
  BY <1>3 DEF BeginCapture, DiffTypeOK, TypeOK, ledgerVars
<1>4. ASSUME NEW r \in Runs, EndCapture(r)
      PROVE  DiffTypeOK'
  <2>1. snapshot[r] \in RunStatus \cup {"none"}
    BY DEF DiffTypeOK
  <2>2. TypeOK'
    BY <1>4, <2>1 DEF EndCapture, RecordRunSummary, DiffTypeOK, TypeOK, ledgerVars
  <2> QED
    BY <1>4, <2>2 DEF EndCapture, DiffTypeOK
<1>5. ASSUME NEW i \in Issues, Retire(i)
      PROVE  DiffTypeOK'
  <2>1. [Next]_ledgerVars
    BY <1>5 DEF Retire, Next
  <2> QED
    BY <1>5, <2>1, LedgerTypeStep DEF Retire, DiffTypeOK
<1>6. CASE UNCHANGED diffVars
  BY <1>6 DEF diffVars, ledgerVars, DiffTypeOK, TypeOK
<1> QED
  BY <1>1, <1>2, <1>3, <1>4, <1>5, <1>6 DEF DiffNext

-----------------------------------------------------------------------------
\* A process that is about to show its plan, or to record it, has one; what
\* is recorded is a plan of a run.
HasPlan(x) == x.pc \in {"post", "block", "record"} => x.plan # Nil

PlansAreKept ==
    /\ \A p \in Deliveries : HasPlan(proc[p])
    /\ plans \subseteq PlanRow
    /\ faults \in 0..MaxFaults

\* What each step leaves of the process that takes it.
LEMMA PlanStays ==
    ASSUME RunnerInv, PlansAreKept, NEW p \in Deliveries, NEW x, HasPlan(x),
           proc' = [proc EXCEPT ![p] = x], plans' \subseteq PlanRow,
           faults' \in 0..MaxFaults
    PROVE  PlansAreKept'
<1>1. ASSUME NEW q \in Deliveries PROVE HasPlan(proc'[q])
  BY DEF PlansAreKept, RunnerInv
<1> QED
  BY <1>1 DEF PlansAreKept

LEMMA FaultsCounted ==
    ASSUME faults \in 0..MaxFaults, NEW n \in Nat, Fail(n)
    PROVE  faults' \in 0..MaxFaults
BY RunnerAssumption DEF Fail

LEMMA WriteCounts ==
    ASSUME faults \in 0..MaxFaults, NEW r, NEW e, NEW ok \in BOOLEAN, Write(r, e, ok)
    PROVE  faults' \in 0..MaxFaults
<1>1. Fail(1) => faults' \in 0..MaxFaults
  BY FaultsCounted
<1> QED
  BY <1>1 DEF Write

\* The processes that stop, throw or move on to a place before or behind the
\* ticket have no plan to show.
LEMMA Leaves ==
    ASSUME RunnerInv, NEW p \in Deliveries
    PROVE  /\ \A pc \in {"parked", "ended", "silent", "crashed"} :
                  HasPlan(Stopped(p, pc))
           /\ \A pc \in {"setup", "plan", "park", "code", "push"} :
                  HasPlan([proc[p] EXCEPT !.pc = pc])
           /\ HasPlan([proc[p] EXCEPT !.pc = "labels", !.ending = "failed"])
           /\ HasPlan([proc[p] EXCEPT !.pc = "labels", !.ending = "failed", !.aborting = TRUE])
           /\ \A lost \in BOOLEAN : HasPlan(ThrewLosing(p, lost))
<1>1. proc[p] \in Process
  BY DEF RunnerInv
<1> QED
  BY <1>1 DEF Process, HasPlan, Stopped, Idle, ThrewLosing

\* The usual ends of a step.
LEMMA LeavingKeepsPlans ==
    ASSUME RunnerInv, PlansAreKept, NEW p \in Deliveries,
           plans' \subseteq PlanRow, faults' \in 0..MaxFaults,
           \/ \E pc \in {"parked", "ended", "silent", "crashed"} : Stop(p, pc)
           \/ \E pc \in {"setup", "plan", "park", "code", "push"} : Goto(p, pc)
           \/ Throw(p)
           \/ EndFailed(p)
           \/ \E lost \in BOOLEAN : proc' = [proc EXCEPT ![p] = ThrewLosing(p, lost)]
    PROVE  PlansAreKept'
<1>1. proc[p] \in Process /\ proc \in [Deliveries -> Process]
  BY DEF RunnerInv
<1>2. \E x : proc' = [proc EXCEPT ![p] = x] /\ HasPlan(x)
  <2>1. CASE \E pc \in {"setup", "plan", "park", "code", "push"} : Goto(p, pc)
    <3>1. PICK pc \in {"setup", "plan", "park", "code", "push"} : Goto(p, pc)
      BY <2>1
    <3>2. proc' = [proc EXCEPT ![p] = [proc[p] EXCEPT !.pc = pc]]
      BY <1>1, <3>1 DEF Goto
    <3> QED
      BY <3>1, <3>2, Leaves
  <2>2. CASE Throw(p)
    <3>1. proc' = [proc EXCEPT ![p] = [proc[p] EXCEPT !.pc = "labels", !.ending = "failed",
                                                      !.aborting = TRUE]]
      BY <1>1, <2>2 DEF Throw
    <3> QED
      BY <3>1, Leaves
  <2>3. CASE EndFailed(p)
    <3>1. proc' = [proc EXCEPT ![p] = [proc[p] EXCEPT !.pc = "labels", !.ending = "failed"]]
      BY <1>1, <2>3 DEF EndFailed
    <3> QED
      BY <3>1, Leaves
  <2> QED
    BY <2>1, <2>2, <2>3, Leaves DEF Stop
<1>3. PICK x : proc' = [proc EXCEPT ![p] = x] /\ HasPlan(x)
  BY <1>2
<1> QED
  BY <1>3, PlanStays

LEMMA LaunchKeepsPlans ==
    ASSUME RunnerInv, PlansAreKept, NEW p \in Deliveries, NEW m \in Modes, Launch(p, m)
    PROVE  PlansAreKept'
<1> DEFINE x == [proc[p] EXCEPT !.pc = "begin", !.mode = m,
                     !.shown = IF ticket.plan = ticket.block THEN ticket.plan ELSE Nil]
<1>1. proc[p] \in Process /\ proc \in [Deliveries -> Process]
  BY DEF RunnerInv
<1>2. HasPlan(x)
  BY <1>1 DEF Process, HasPlan
<1>3. proc' = [proc EXCEPT ![p] = x]
  BY <1>1 DEF Launch
<1> HIDE DEF x
<1> QED
  BY <1>2, <1>3, PlanStays DEF Launch, PlansAreKept

LEMMA FirstStepsKeepPlans ==
    ASSUME RunnerInv, PlansAreKept, NEW p \in Deliveries, Begin(p) \/ Setup(p)
    PROVE  PlansAreKept'
<1>1. faults \in 0..MaxFaults /\ plans \subseteq PlanRow /\ proc \in [Deliveries -> Process]
  BY DEF PlansAreKept, RunnerInv
<1>2. faults' \in 0..MaxFaults /\ plans' = plans
  <2>1. ASSUME NEW F \in SUBSET TerminalLabels PROVE Cardinality(F) \in Nat
    <3>1. IsFiniteSet({"df:done"} \cup {"df:failed"})
      BY FS_Singleton, FS_Union
    <3>2. TerminalLabels = {"df:done"} \cup {"df:failed"}
      BY DEF TerminalLabels
    <3> QED
      BY <3>1, <3>2, FS_Subset, FS_CardinalityType
  <2> QED
    BY <1>1, <2>1, FaultsCounted DEF Begin, Setup
<1>3. ASSUME NEW r \in Runs, proc' = [proc EXCEPT ![p].pc = "setup", ![p].run = r]
      PROVE  PlansAreKept'
  <2> DEFINE x == [proc[p] EXCEPT !.pc = "setup", !.run = r]
  <2>1. HasPlan(x)
    BY <1>1 DEF Process, HasPlan
  <2>2. proc' = [proc EXCEPT ![p] = x]
    BY <1>1, <1>3
  <2> HIDE DEF x
  <2> QED
    BY <1>1, <1>2, <2>1, <2>2, PlanStays
<1>4. CASE Begin(p)
  <2>1. Stop(p, "silent") \/ Goto(p, "setup") => PlansAreKept'
    BY <1>1, <1>2, LeavingKeepsPlans
  <2> QED
    BY <1>3, <1>4, <2>1 DEF Begin, ActiveRuns
<1>5. CASE Setup(p)
  BY <1>1, <1>2, <1>5, LeavingKeepsPlans DEF Setup
<1> QED
  BY <1>4, <1>5

\* The step that gives a process its plan, and the one that amends it.
LEMMA PlanningKeepsPlans ==
    ASSUME RunnerInv, PlansAreKept, NEW p \in Deliveries, Plan(p) \/ Revise(p)
    PROVE  PlansAreKept'
<1>1. /\ faults \in 0..MaxFaults /\ plans \subseteq PlanRow
      /\ proc \in [Deliveries -> Process] /\ proc[p] \in Process
  BY DEF PlansAreKept, RunnerInv
<1>2. faults' \in 0..MaxFaults /\ plans' = plans
  BY <1>1, WriteCounts DEF Plan, Revise, QuietLedger
<1>3. ASSUME NEW x, proc' = [proc EXCEPT ![p] = x], HasPlan(x)
      PROVE  PlansAreKept'
  BY <1>1, <1>2, <1>3, PlanStays
<1>4. Goto(p, "park") \/ EndFailed(p) \/ Throw(p) => PlansAreKept'
  BY <1>1, <1>2, LeavingKeepsPlans
<1>5. CASE Plan(p)
  <2>1. ASSUME NEW plan \in Deliveries \cup {ticket.block}, NEW pc \in {"revise", "post"},
               plan # Nil, proc' = [proc EXCEPT ![p].plan = plan, ![p].pc = pc]
        PROVE  PlansAreKept'
    <3> DEFINE x == [proc[p] EXCEPT !.plan = plan, !.pc = pc]
    <3>1. HasPlan(x)
      BY <1>1, <2>1 DEF Process, HasPlan
    <3>2. proc' = [proc EXCEPT ![p] = x]
      BY <1>1, <2>1
    <3> HIDE DEF x
    <3> QED
      BY <1>3, <3>1, <3>2
  <2>2. p # Nil
    BY RunnerAssumption
  <2> QED
    BY <1>4, <1>5, <2>1, <2>2 DEF Plan, Approved
<1>6. CASE Revise(p)
  <2>1. ASSUME NEW n, NEW lost,
               proc' = [proc EXCEPT ![p].pc = "post", ![p].plan = p, ![p].round = n,
                                    ![p].lost = @ \/ lost]
        PROVE  PlansAreKept'
    <3> DEFINE x == [proc[p] EXCEPT !.pc = "post", !.plan = p, !.round = n,
                                    !.lost = @ \/ lost]
    <3>1. HasPlan(x)
      BY <1>1, RunnerAssumption DEF Process, HasPlan
    <3>2. proc' = [proc EXCEPT ![p] = x]
      BY <1>1, <2>1
    <3> HIDE DEF x
    <3> QED
      BY <1>3, <3>1, <3>2
  <2> QED
    BY <1>4, <1>6, <2>1 DEF Revise
<1> QED
  BY <1>5, <1>6

\* The plan goes on the ticket and into the table.
LEMMA TicketKeepsPlans ==
    ASSUME RunnerInv, PlansAreKept, NEW p \in Deliveries,
           Post(p) \/ PostBlock(p) \/ Record(p)
    PROVE  PlansAreKept'
<1>1. /\ faults \in 0..MaxFaults /\ plans \subseteq PlanRow
      /\ proc \in [Deliveries -> Process] /\ proc[p] \in Process /\ HasPlan(proc[p])
  BY DEF PlansAreKept, RunnerInv
<1>2. faults' \in 0..MaxFaults
  BY <1>1, FaultsCounted DEF Post, PostBlock, Record
<1>3. plans' \subseteq PlanRow
  <2>1. CASE plans' = plans
    BY <1>1, <2>1
  <2>2. CASE Record(p) /\ proc[p].run # Nil /\ plans' = plans \cup {PostedPlan(p)}
    <3>1. proc[p].run \in Runs /\ proc[p].plan \in Deliveries /\ proc[p].round \in Nat
      BY <1>1, <2>2, RunnerAssumption DEF Record, HasPlan, Process
    <3>2. PostedPlan(p) \in PlanRow
      BY <3>1 DEF PostedPlan, PlanRow
    <3> QED
      BY <1>1, <2>2, <3>2
  <2> QED
    BY <2>1, <2>2 DEF Post, PostBlock, Record
<1>4. \/ \E pc \in {"park", "code"} : Goto(p, pc)
      \/ Throw(p) \/ EndFailed(p)
      => PlansAreKept'
  BY <1>1, <1>2, <1>3, LeavingKeepsPlans
<1>5. ASSUME NEW pc \in {"block", "record"}, Goto(p, pc), proc[p].pc \in {"post", "block"}
      PROVE  PlansAreKept'
  <2> DEFINE x == [proc[p] EXCEPT !.pc = pc]
  <2>1. HasPlan(x)
    BY <1>1, <1>5 DEF Process, HasPlan
  <2>2. proc' = [proc EXCEPT ![p] = x]
    BY <1>1, <1>5 DEF Goto
  <2> HIDE DEF x
  <2> QED
    BY <1>1, <1>2, <1>3, <2>1, <2>2, PlanStays
<1> QED
  BY <1>4, <1>5 DEF Post, PostBlock, Record

\* What comes after the plan was shown.
LEMMA LastStepsKeepPlans ==
    ASSUME RunnerInv, PlansAreKept, NEW p \in Deliveries,
           \/ Park(p) \/ Code(p) \/ Push(p) \/ Dod(p)
           \/ FinaliseLabels(p) \/ FinaliseMarker(p) \/ Crash(p)
    PROVE  PlansAreKept'
<1>1. /\ faults \in 0..MaxFaults /\ plans \subseteq PlanRow
      /\ proc \in [Deliveries -> Process] /\ proc[p] \in Process
  BY DEF PlansAreKept, RunnerInv
<1>2. faults' \in 0..MaxFaults /\ plans' = plans
  BY <1>1, WriteCounts, FaultsCounted
     DEF Park, Code, Push, Dod, FinaliseLabels, FinaliseMarker, Crash, QuietLedger
<1>3. ASSUME NEW x, proc' = [proc EXCEPT ![p] = x], HasPlan(x)
      PROVE  PlansAreKept'
  BY <1>1, <1>2, <1>3, PlanStays
<1>4. \/ \E pc \in {"parked", "ended", "silent", "crashed"} : Stop(p, pc)
      \/ Goto(p, "push") \/ Throw(p) \/ EndFailed(p)
      \/ \E lost \in BOOLEAN : proc' = [proc EXCEPT ![p] = ThrewLosing(p, lost)]
      => PlansAreKept'
  BY <1>1, <1>2, LeavingKeepsPlans
<1>5. CASE Park(p)
  <2>1. ASSUME NEW lost, proc' = [proc EXCEPT ![p].pc = "labels", ![p].aborting = TRUE,
                                              ![p].lost = @ \/ lost]
        PROVE  PlansAreKept'
    <3> DEFINE x == [proc[p] EXCEPT !.pc = "labels", !.aborting = TRUE, !.lost = @ \/ lost]
    <3>1. HasPlan(x)
      BY <1>1 DEF Process, HasPlan
    <3>2. proc' = [proc EXCEPT ![p] = x]
      BY <1>1, <2>1
    <3> HIDE DEF x
    <3> QED
      BY <1>3, <3>1, <3>2
  <2> QED
    BY <1>4, <1>5, <2>1 DEF Park
<1>6. CASE Push(p) \/ Dod(p)
  <2>1. ASSUME proc' = [proc EXCEPT ![p].pc = "dod", ![p].pushed = TRUE]
        PROVE  PlansAreKept'
    <3> DEFINE x == [proc[p] EXCEPT !.pc = "dod", !.pushed = TRUE]
    <3>1. HasPlan(x)
      BY <1>1 DEF Process, HasPlan
    <3>2. proc' = [proc EXCEPT ![p] = x]
      BY <1>1, <2>1
    <3> HIDE DEF x
    <3> QED
      BY <1>3, <3>1, <3>2
  <2>2. ASSUME NEW ok \in BOOLEAN,
               proc' = [proc EXCEPT ![p].pc = "labels", ![p].done = ok,
                                    ![p].ending = "succeeded"]
        PROVE  PlansAreKept'
    <3> DEFINE x == [proc[p] EXCEPT !.pc = "labels", !.done = ok, !.ending = "succeeded"]
    <3>1. HasPlan(x)
      BY <1>1 DEF Process, HasPlan
    <3>2. proc' = [proc EXCEPT ![p] = x]
      BY <1>1, <2>2
    <3> HIDE DEF x
    <3> QED
      BY <1>3, <3>1, <3>2
  <2> QED
    BY <1>4, <1>6, <2>1, <2>2 DEF Push, Dod
<1>7. CASE FinaliseLabels(p)
  <2>1. ASSUME Goto(p, "marker") PROVE PlansAreKept'
    <3> DEFINE x == [proc[p] EXCEPT !.pc = "marker"]
    <3>1. HasPlan(x)
      BY <1>1 DEF Process, HasPlan
    <3>2. proc' = [proc EXCEPT ![p] = x]
      BY <1>1, <2>1 DEF Goto
    <3> HIDE DEF x
    <3> QED
      BY <1>3, <3>1, <3>2
  <2> QED
    BY <1>4, <1>7, <2>1 DEF FinaliseLabels, Finalised
<1>8. CASE FinaliseMarker(p)
  BY <1>4, <1>8 DEF FinaliseMarker, Finalised, CanWrite
<1> QED
  BY <1>4, <1>5, <1>6, <1>7, <1>8 DEF Code, Crash

LEMMA PlansStep ==
    ASSUME RunnerInv, PlansAreKept, [RunnerNext]_runnerVars
    PROVE  PlansAreKept'
<1>1. CASE RetireHolder
  BY <1>1 DEF RetireHolder, PlansAreKept
<1>2. CASE UNCHANGED runnerVars
  BY <1>2 DEF runnerVars, PlansAreKept
<1> QED
  BY <1>1, <1>2, LaunchKeepsPlans, FirstStepsKeepPlans, PlanningKeepsPlans, TicketKeepsPlans,
     LastStepsKeepPlans DEF RunnerNext, Step

-----------------------------------------------------------------------------
\* A process remembers a bounded number of transitions, each once.
MemoryIsSound(keys) ==
    keys \in Seq(Runs \X EventIds) /\ Len(keys) <= MaxRemembered /\ IsInjective(keys)

MemoriesAreSound ==
    /\ remembered \in [Writers -> Seq(Runs \X EventIds)]
    /\ \A w \in Writers : MemoryIsSound(remembered[w])

LEMMA RememberIsSound ==
    ASSUME NEW keys, MemoryIsSound(keys), NEW key \in Runs \X EventIds,
           key \notin ToSet(keys)
    PROVE  MemoryIsSound(Remember(keys, key))
<1> DEFINE V == Runs \X EventIds
           kept == IF Len(keys) >= MaxRemembered THEN Tail(keys) ELSE keys
<1>1. keys \in Seq(V) /\ Len(keys) \in Nat /\ MaxRemembered \in Nat /\ MaxRemembered > 0
  BY NotifierAssumption DEF MemoryIsSound
<1>2. /\ kept \in Seq(V) /\ Len(kept) < MaxRemembered /\ IsInjective(kept)
      /\ \A i \in 1..Len(kept) : kept[i] # key
  <2>1. CASE Len(keys) >= MaxRemembered
    <3>1. keys # <<>>
      BY <1>1, <2>1
    <3> HIDE DEF V
    <3>2. /\ Tail(keys) \in Seq(V) /\ Len(Tail(keys)) = Len(keys) - 1
          /\ \A i \in 1..Len(Tail(keys)) : Tail(keys)[i] = keys[i + 1]
      BY <1>1, <3>1, HeadTailProperties
    <3>3. \A i \in 1..Len(Tail(keys)) : i + 1 \in DOMAIN keys
      BY <1>1, <3>2
    <3>4. IsInjective(Tail(keys))
      BY <1>1, <3>2, <3>3 DEF MemoryIsSound, IsInjective
    <3>5. \A i \in 1..Len(Tail(keys)) : Tail(keys)[i] # key
      BY <3>2, <3>3 DEF ToSet
    <3>6. kept = Tail(keys) /\ Len(keys) <= MaxRemembered
      BY <2>1 DEF MemoryIsSound
    <3> HIDE DEF kept
    <3> QED
      BY <1>1, <3>2, <3>4, <3>5, <3>6
  <2>2. CASE ~(Len(keys) >= MaxRemembered)
    <3>1. kept = keys /\ Len(keys) < MaxRemembered
      BY <1>1, <2>2
    <3>2. IsInjective(keys) /\ \A i \in 1..Len(keys) : keys[i] # key
      BY <1>1 DEF MemoryIsSound, ToSet
    <3> HIDE DEF kept
    <3> QED
      BY <1>1, <3>1, <3>2
  <2> QED
    BY <2>1, <2>2
<1>3. Remember(keys, key) = Append(kept, key)
  BY DEF Remember
<1>4. key \in V
  OBVIOUS
<1> HIDE DEF kept, V
<1>5. /\ Append(kept, key) \in Seq(V) /\ Len(Append(kept, key)) = Len(kept) + 1
      /\ \A i \in 1..Len(kept) : Append(kept, key)[i] = kept[i]
      /\ Append(kept, key)[Len(kept) + 1] = key
  BY <1>2, <1>4, AppendProperties
<1> DEFINE longer == Append(kept, key)
<1>6. IsInjective(longer)
  <2> HIDE DEF longer
  <2> SUFFICES ASSUME NEW i \in 1..Len(kept) + 1, NEW j \in 1..Len(kept) + 1,
                      longer[i] = longer[j]
               PROVE  i = j
    BY <1>2, <1>5 DEF IsInjective, longer
  <2>1. Len(kept) \in Nat
    BY <1>2
  <2>2. i \in 1..Len(kept) => longer[i] = kept[i] /\ kept[i] # key
    BY <1>2, <1>5 DEF longer
  <2>3. j \in 1..Len(kept) => longer[j] = kept[j] /\ kept[j] # key
    BY <1>2, <1>5 DEF longer
  <2>4. longer[Len(kept) + 1] = key
    BY <1>5 DEF longer
  <2>5. i \in 1..Len(kept) /\ j \in 1..Len(kept) /\ kept[i] = kept[j] => i = j
    BY <1>2 DEF IsInjective
  <2> QED
    BY <2>1, <2>2, <2>3, <2>4, <2>5
<1>7. Len(longer) <= MaxRemembered
  BY <1>1, <1>2, <1>5
<1> QED
  BY <1>3, <1>5, <1>6, <1>7 DEF MemoryIsSound, V, longer

LEMMA EmptyMemory == MemoryIsSound(<<>>)
BY NotifierAssumption DEF MemoryIsSound, IsInjective

LEMMA MemoryStep ==
    ASSUME NotifierInv, MemoriesAreSound, [NotifierNext]_notifierVars
    PROVE  MemoriesAreSound'
<1>1. CASE UNCHANGED remembered
  BY <1>1 DEF MemoriesAreSound
<1>2. ASSUME NEW a \in pending, Announce(a), ~IsSuppressed(a)
      PROVE  MemoriesAreSound'
  <2> DEFINE key == <<a.of.run, a.of.id>>
             keys == remembered[a.by]
  <2>1. a.by \in Writers /\ key \in Runs \X EventIds
    BY DEF NotifierInv, Announcement, Notification
  <2>2. MemoryIsSound(keys) /\ key \notin ToSet(keys)
    BY <1>2, <2>1 DEF MemoriesAreSound, IsSuppressed
  <2>3. remembered' = [remembered EXCEPT ![a.by] = Remember(keys, key)]
    BY <1>2 DEF Announce
  <2> HIDE DEF key, keys
  <2>4. MemoryIsSound(Remember(keys, key))
    BY <2>1, <2>2, RememberIsSound
  <2> QED
    BY <2>1, <2>3, <2>4 DEF MemoriesAreSound, MemoryIsSound
<1>3. ASSUME NEW w \in Writers, Restart(w)
      PROVE  MemoriesAreSound'
  BY <1>3, EmptyMemory DEF Restart, MemoriesAreSound, MemoryIsSound
<1> QED
  BY <1>1, <1>2, <1>3 DEF NotifierNext, NoticeAccept, NoticeAppend, NoticeRetire, Observe,
     Announce, Attempt, notifierVars

-----------------------------------------------------------------------------
\* The part that moves keeps its invariant; the others are where they began.
LedgerPartsInv ==
    /\ part \in LedgerPart
    /\ part = "diff" => DiffTypeOK
    /\ IF part = "runner" THEN RunnerInv /\ PlansAreKept
                          ELSE proc = [p \in Deliveries |-> Idle]
    /\ IF part = "notifier" THEN NotifierInv /\ MemoriesAreSound
                            ELSE channel = [n \in {} |-> 0]
    /\ IF part = "gateway" THEN GatewayInv
                           ELSE request = [q \in Requests |-> Unsent] /\ held = {}
    /\ IF part = "reporter" THEN ReporterInv
       ELSE /\ comments = <<>>
            /\ savedIds = [r \in Runs |-> NoneSaved]
            /\ linked = [r \in Runs |-> [m \in Messages |-> 0]]
    /\ part = "postgres" => PgInv
    /\ part = "done" => DoneInv

LEMMA LedgerPartsBegin == ASSUME LedgerPartsInit PROVE LedgerPartsInv
<1>1. DiffTypeOK
  BY DEF LedgerPartsInit, DiffInit, DiffTypeOK, Init, TypeOK
<1>2. PlansAreKept
  BY RunnerAssumption DEF LedgerPartsInit, RunnerInit, PlansAreKept, HasPlan, Idle
<1>3. MemoriesAreSound
  BY EmptyMemory DEF LedgerPartsInit, NotifierInit, MemoriesAreSound, MemoryIsSound
<1>4. RunnerInv /\ NotifierInv /\ GatewayInv /\ ReporterInv /\ PgInv /\ DoneInv
  BY RunnerInvInit, NotifierInvInit, GatewayInvInit, ReporterInvInit, PgInvInit, DoneInvInit
     DEF LedgerPartsInit
<1> QED
  BY <1>1, <1>2, <1>3, <1>4
     DEF LedgerPartsInv, LedgerPartsInit, RunnerInit, NotifierInit, GatewayInit, ReporterInit

LEMMA LedgerPartsStep ==
    ASSUME LedgerPartsInv, [LedgerPartsNext]_partsVars
    PROVE  LedgerPartsInv'
<1>1. part' = part
  BY DEF LedgerPartsNext, partsVars
<1>2. part = "diff" => DiffTypeOK'
  <2>1. part = "diff" => [DiffNext]_diffVars
    BY DEF LedgerPartsNext, partsVars, diffVars, diffOnly
  <2> QED
    BY <2>1, DiffTypeStep DEF LedgerPartsInv
<1>3. IF part = "runner" THEN RunnerInv' /\ PlansAreKept' ELSE UNCHANGED proc
  <2>1. part = "runner" => [RunnerNext]_runnerVars
    BY DEF LedgerPartsNext, partsVars, runnerVars, runnerOnly
  <2>2. part # "runner" => UNCHANGED proc
    BY DEF LedgerPartsNext, partsVars, runnerOnly
  <2> QED
    BY <2>1, <2>2, RunnerInvStep, PlansStep DEF LedgerPartsInv
<1>4. IF part = "notifier" THEN NotifierInv' /\ MemoriesAreSound' ELSE UNCHANGED channel
  <2>1. part = "notifier" => [NotifierNext]_notifierVars
    BY DEF LedgerPartsNext, partsVars, notifierVars, notifierOnly
  <2>2. part # "notifier" => UNCHANGED channel
    BY DEF LedgerPartsNext, partsVars, notifierOnly
  <2> QED
    BY <2>1, <2>2, NotifierInvStep, MemoryStep DEF LedgerPartsInv
<1>5. IF part = "gateway" THEN GatewayInv' ELSE UNCHANGED <<request, held>>
  <2>1. part = "gateway" => [GatewayNext]_gatewayVars
    BY DEF LedgerPartsNext, partsVars, gatewayVars, gatewayOnly
  <2>2. part # "gateway" => UNCHANGED <<request, held>>
    BY DEF LedgerPartsNext, partsVars, gatewayOnly
  <2> QED
    BY <2>1, <2>2, GatewayInvStep DEF LedgerPartsInv
<1>6. IF part = "reporter" THEN ReporterInv' ELSE UNCHANGED <<comments, savedIds, linked>>
  <2>1. part = "reporter" => [ReporterNext]_reporterVars
    BY DEF LedgerPartsNext, partsVars, reporterVars, reporterOnly
  <2>2. part # "reporter" => UNCHANGED <<comments, savedIds, linked>>
    BY DEF LedgerPartsNext, partsVars, reporterOnly
  <2> QED
    BY <2>1, <2>2, ReporterInvStep DEF LedgerPartsInv
<1>7. part = "postgres" => PgInv'
  <2>1. part = "postgres" => [PgNext]_pgVars
    BY DEF LedgerPartsNext, partsVars, pgVars
  <2> QED
    BY <2>1, PgInvStep DEF LedgerPartsInv
<1>8. part = "done" => DoneInv'
  <2>1. part = "done" => [DoneNext]_doneVars
    BY DEF LedgerPartsNext, partsVars, doneVars, doneOnly
  <2> QED
    BY <2>1, DoneInvStep DEF LedgerPartsInv
<1> QED
  BY <1>1, <1>2, <1>3, <1>4, <1>5, <1>6, <1>7, <1>8 DEF LedgerPartsInv

\* Started with one part alive, that part keeps the invariant of its own proof
\* and the others stay where they began: none writes what another reads.
THEOREM LedgerPartsKeepTheirInvariants == LedgerPartsSpec => []LedgerPartsInv
<1>1. LedgerPartsInv /\ [LedgerPartsNext]_partsVars => LedgerPartsInv'
  BY LedgerPartsStep
<1>2. LedgerPartsInit => LedgerPartsInv
  BY LedgerPartsBegin
<1> QED
  BY <1>1, <1>2, PTL DEF LedgerPartsSpec

\* The row of a ledger, the locals of a process, the memory of a notifier: each
\* is what the code declares it to be, whichever part moves.
THEOREM LedgerPartsTypeCorrect == LedgerPartsSpec => []LedgerPartsTypeOK
<1>1. LedgerPartsInv => LedgerPartsTypeOK
  <2> SUFFICES ASSUME LedgerPartsInv PROVE LedgerPartsTypeOK
    OBVIOUS
  <2>1. part = "runner" => RunnerTypeOK
    <3>1. 0..MaxRevisions \subseteq Nat
      OBVIOUS
    <3>2. part = "runner" => proc \in [Deliveries ->
           [pc : Working \cup {"idle", "parked", "ended", "silent", "crashed"},
            mode : Modes, run : Runs \cup {Nil}, plan : Deliveries \cup {Nil},
            shown : Deliveries \cup {Nil}, round : Nat,
            ending : {"failed", "succeeded"}, aborting : BOOLEAN,
            pushed : BOOLEAN, done : BOOLEAN, lost : BOOLEAN]]
      BY <3>1 DEF LedgerPartsInv, RunnerInv, Process
    <3> QED
      BY <3>2 DEF LedgerPartsInv, RunnerInv, PlansAreKept, RunnerTypeOK
  <2>2. part = "notifier" => NotifierTypeOK
    BY DEF LedgerPartsInv, NotifierInv, MemoriesAreSound, MemoryIsSound, NotifierTypeOK,
       IsToldOnce
  <2> QED
    BY <2>1, <2>2 DEF LedgerPartsInv, LedgerPartsTypeOK, GatewayInv, ReporterInv, PgInv, DoneInv
<1> QED
  BY <1>1, LedgerPartsKeepTheirInvariants, PTL

\* What each part promises holds where they stand side by side: the processes,
\* announcements, calls and comments that a part does not have break nothing.
THEOREM LedgerPartsKeepTheirPromises ==
    LedgerPartsSpec =>
        /\ []ClaimIsReleased /\ []CodedPlanWasReviewed /\ []AnnouncedOnce
        /\ []RefusalIsOnTheRun /\ []CommentsTellTheRecord
        /\ [](part = "done" => DoneIsEarned)
<1>1. ASSUME LedgerPartsInv PROVE ClaimIsReleased /\ CodedPlanWasReviewed
  <2>1. CASE part = "runner"
    BY <1>1, <2>1, RunnerInvGood DEF LedgerPartsInv
  <2>2. CASE part # "runner"
    BY <1>1, <2>2, RunnerAssumption
       DEF LedgerPartsInv, ClaimIsReleased, CodedPlanWasReviewed, Idle
  <2> QED
    BY <2>1, <2>2
<1>2. ASSUME LedgerPartsInv PROVE AnnouncedOnce
  BY <1>2, NotifierAssumption
     DEF LedgerPartsInv, NotifierInv, IsSo, IsToldOnce, AnnouncedOnce
<1>3. ASSUME LedgerPartsInv PROVE RefusalIsOnTheRun
  <2>1. CASE part = "gateway"
    BY <1>3, <2>1 DEF LedgerPartsInv, GatewayInv, CallIsSound, RefusalIsOnTheRun
  <2>2. CASE part # "gateway"
    BY <1>3, <2>2, GatewayAssumption DEF LedgerPartsInv, Unsent, RefusalIsOnTheRun
  <2> QED
    BY <2>1, <2>2
<1>4. ASSUME LedgerPartsInv PROVE CommentsTellTheRecord
  <2>1. CASE part = "reporter"
    BY <1>4, <2>1, ReporterInvGood DEF LedgerPartsInv
  <2>2. CASE part # "reporter"
    <3>1. DOMAIN comments = {}
      BY <1>4, <2>2 DEF LedgerPartsInv
    <3>2. \A r \in Runs, k \in MessageKinds : savedIds[r][k] = 0 /\ CommentsOf(r, k) = {}
      BY <1>4, <2>2, <3>1 DEF LedgerPartsInv, NoneSaved, CommentsOf
    <3>3. \A r \in Runs, m \in Messages : linked[r][m] = 0
      BY <1>4, <2>2 DEF LedgerPartsInv
    <3>4. \A r \in Runs, k \in MessageKinds : Cardinality(CommentsOf(r, k)) <= 1
      BY <3>2, FS_EmptySet
    <3> QED
      BY <3>1, <3>2, <3>3, <3>4 DEF CommentsTellTheRecord
  <2> QED
    BY <2>1, <2>2
<1>5. ASSUME LedgerPartsInv, part = "done" PROVE DoneIsEarned
  BY <1>5 DEF LedgerPartsInv, DoneInv, ReviewSound, SuccessIsEarned, EarnedBy, DoneIsEarned,
     Earned, Here
<1>6. /\ LedgerPartsInv => ClaimIsReleased /\ CodedPlanWasReviewed
      /\ LedgerPartsInv => AnnouncedOnce
      /\ LedgerPartsInv => RefusalIsOnTheRun
      /\ LedgerPartsInv => CommentsTellTheRecord
      /\ LedgerPartsInv => (part = "done" => DoneIsEarned)
  BY <1>1, <1>2, <1>3, <1>4, <1>5
<1> QED
  BY <1>6, LedgerPartsKeepTheirInvariants, PTL
=============================================================================
