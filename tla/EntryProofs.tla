------------------------------ MODULE EntryProofs ------------------------------
(***************************************************************************)
(* The webhook handlers, proved for any number of deliveries, requests and *)
(* handlers at once: what they do to the ledger is what its operations     *)
(* allow, so the ledger's theorems hold with the handlers running on it.   *)
(***************************************************************************)
EXTENDS Entry, RunLedgerProofs

-----------------------------------------------------------------------------
(* What a handler knows at each of its steps                               *)

TriggerSteps == {"accept", "label", "started", "label-failed", "handoff-failed"}
ControlSteps == {"find", "claim", "unlabel", "settle",
                 "terminal", "mark", "resume"}
RunSteps == {"label", "handoff", "started", "label-failed", "handoff-failed",
             "terminal", "mark", "resume"}

\* At step s, a handler of a delivery of kind k may name run r: it takes the
\* steps of its kind, and it names a run wherever it is about to use one.
Fits(s, k, r) ==
    /\ s \in TriggerSteps => k = "trigger"
    /\ s \in ControlSteps => k \in {"abort", "resume"}
    /\ s = "terminal" => k = "abort"
    /\ s = "handoff" => k # "abort"
    /\ s \in {"mark", "resume"} => k = "resume"
    /\ s \in RunSteps => r \in Runs
    /\ s = "unlabel" /\ k = "resume" => r \in Runs

Sound(x, kinds) ==
    x.pc # "idle" =>
        /\ x.d \in Deliveries
        /\ kinds[x.d] \in Kinds
        /\ Fits(x.pc, kinds[x.d], x.run)

HandlersSound ==
    /\ kind \in [Deliveries -> Kinds \cup {Nil}]
    /\ h \in [Slots -> Local]
    /\ \A p \in Slots : Sound(h[p], kind)

\* A step of one handler keeps all of them sound if its own new state is.
LEMMA OneHandlerMoves ==
    ASSUME HandlersSound, NEW p \in Slots, NEW y \in Local,
           h' = [h EXCEPT ![p] = y], kind' = kind, Sound(y, kind)
    PROVE  HandlersSound'
BY DEF HandlersSound, Sound

\* Idle is a local state, and one that claims nothing.
LEMMA IdleSound == Idle \in Local /\ Sound(Idle, kind)
BY DEF Idle, Local, Sound, Steps

\* A handler that moves to another step and keeps what it knows.
LEMMA GotoMoves ==
    ASSUME HandlersSound, NEW p \in Slots, NEW s \in Steps, Goto(p, s),
           kind' = kind, h[p].pc # "idle", Fits(s, KindOf(p), h[p].run)
    PROVE  HandlersSound'
<1> DEFINE y == [h[p] EXCEPT !.pc = s]
<1>1. /\ y \in Local /\ y.pc = s /\ y.d = h[p].d /\ y.run = h[p].run
  BY DEF HandlersSound, Local
<1>2. h' = [h EXCEPT ![p] = y]
  BY DEF Goto
<1>3. Sound(y, kind)
  BY <1>1 DEF HandlersSound, Sound, KindOf
<1> QED
  BY <1>1, <1>2, <1>3, OneHandlerMoves

\* A handler that returns.
LEMMA ReturnMoves ==
    ASSUME HandlersSound, NEW p \in Slots, Return(p), kind' = kind
    PROVE  HandlersSound'
BY OneHandlerMoves, IdleSound DEF Return

\* A delivery is of one kind for good.
LEMMA ReceiveMoves ==
    ASSUME HandlersSound, NEW p \in Slots, NEW d \in Deliveries, Receive(p, d)
    PROVE  HandlersSound'
<1>1. PICK k \in Kinds :
          /\ kind[d] \in {Nil, k}
          /\ kind' = [kind EXCEPT ![d] = k]
          /\ h' = [h EXCEPT ![p] = [Idle EXCEPT
                 !.pc = IF k = "trigger" THEN "accept" ELSE "find",
                 !.d = d]]
  BY DEF Receive
<1> DEFINE y == [Idle EXCEPT !.pc = IF k = "trigger" THEN "accept" ELSE "find",
                             !.d = d]
<1>2. y \in Local
  BY DEF Idle, Local, Steps
<1>3. kind' \in [Deliveries -> Kinds \cup {Nil}] /\ kind'[d] = k
  BY <1>1 DEF HandlersSound
<1>4. h' \in [Slots -> Local] /\ h'[p] = y
  BY <1>1, <1>2 DEF HandlersSound
<1>5. Sound(y, kind')
  <2>1. /\ k = "trigger" => y.pc = "accept"
        /\ k # "trigger" => y.pc = "find"
        /\ y.d = d
    BY DEF Idle
  <2> QED
    BY <1>3, <2>1 DEF Sound, Fits, Kinds, TriggerSteps, ControlSteps, RunSteps
<1>6. ASSUME NEW q \in Slots \ {p} PROVE Sound(h'[q], kind')
  <2>1. h'[q] = h[q] /\ Sound(h[q], kind)
    BY <1>1 DEF HandlersSound
  <2>2. ASSUME h[q].pc # "idle" PROVE kind'[h[q].d] = kind[h[q].d]
    BY <1>1, <2>1, <2>2, EntryAssumption DEF HandlersSound, Sound
  <2> QED
    BY <2>1, <2>2 DEF Sound
<1> QED
  BY <1>3, <1>4, <1>5, <1>6 DEF HandlersSound

-----------------------------------------------------------------------------
(* Every handler step keeps the handlers sound                             *)

LEMMA AcceptSound ==
    ASSUME TypeOK, HandlersSound, NEW p \in Slots, Accept(p)
    PROVE  HandlersSound'
<1>1. CASE \E r \in Runs :
              /\ AcceptDelivery(h[p].d, Issue(p), r)
              /\ h' = [h EXCEPT ![p].pc = "label", ![p].run = r]
  <2>1. PICK r \in Runs : h' = [h EXCEPT ![p].pc = "label", ![p].run = r]
    BY <1>1
  <2> DEFINE y == [[h[p] EXCEPT !.pc = "label"] EXCEPT !.run = r]
  <2>2. y \in Local /\ y.pc = "label" /\ y.d = h[p].d /\ y.run = r
    BY DEF HandlersSound, Local, Steps
  <2>3. h' = [h EXCEPT ![p] = y]
    BY <2>1 DEF HandlersSound
  <2>4. Sound(y, kind)
    BY <2>2 DEF Accept, At, HandlersSound, Sound, Fits,
                TriggerSteps, ControlSteps, RunSteps
  <2> QED
    BY <2>2, <2>3, <2>4, OneHandlerMoves DEF Accept
<1>2. CASE Return(p)
  BY <1>2, ReturnMoves DEF Accept
<1> QED
  BY <1>1, <1>2 DEF Accept

\* Where a handoff can lead.
LEMMA HandoffMoves ==
    ASSUME NEW p \in Slots, Handoff(p)
    PROVE  /\ h[p].pc = "handoff" /\ kind' = kind
           /\ \/ KindOf(p) = "trigger" /\ Goto(p, "started")
              \/ KindOf(p) # "trigger" /\ Goto(p, "mark")
              \/ KindOf(p) = "trigger" /\ Goto(p, "handoff-failed")
              \/ Return(p)
<1>1. PICK ok \in BOOLEAN :
        CASE ok -> Goto(p, IF KindOf(p) = "trigger" THEN "started" ELSE "mark")
          [] ~ok /\ KindOf(p) = "trigger" -> Goto(p, "handoff-failed")
          [] OTHER -> Return(p)
  BY Zenon DEF Handoff
<1>2. h[p].pc = "handoff" /\ kind' = kind
  BY DEF Handoff, At
<1>3. CASE ok
  BY <1>1, <1>2, <1>3
<1>4. CASE ~ok /\ KindOf(p) = "trigger"
  BY <1>1, <1>2, <1>4
<1>5. CASE ~ok /\ KindOf(p) # "trigger"
  BY <1>1, <1>2, <1>5
<1> QED
  BY <1>3, <1>4, <1>5

LEMMA HandoffSound ==
    ASSUME TypeOK, HandlersSound, NEW p \in Slots, Handoff(p)
    PROVE  HandlersSound'
<1>1. h[p].pc = "handoff" /\ kind' = kind
  BY HandoffMoves
<1>2. h[p].run \in Runs /\ KindOf(p) \in Kinds \ {"abort"}
  BY <1>1 DEF HandlersSound, Sound, Fits, RunSteps, KindOf
<1>3. CASE KindOf(p) = "trigger" /\ Goto(p, "started")
  BY <1>1, <1>2, <1>3, GotoMoves
     DEF Fits, TriggerSteps, ControlSteps, RunSteps, Steps
<1>4. CASE KindOf(p) # "trigger" /\ Goto(p, "mark")
  BY <1>1, <1>2, <1>4, GotoMoves
     DEF Fits, TriggerSteps, ControlSteps, RunSteps, Steps, Kinds
<1>5. CASE KindOf(p) = "trigger" /\ Goto(p, "handoff-failed")
  BY <1>1, <1>2, <1>5, GotoMoves
     DEF Fits, TriggerSteps, ControlSteps, RunSteps, Steps
<1>6. CASE Return(p)
  BY <1>1, <1>6, ReturnMoves
<1> QED
  BY <1>3, <1>4, <1>5, <1>6, HandoffMoves

LEMMA FindActiveSound ==
    ASSUME TypeOK, HandlersSound, NEW p \in Slots, FindActive(p)
    PROVE  HandlersSound'
<1>1. h[p].pc = "find" /\ kind' = kind
  BY DEF FindActive, At
<1>2. KindOf(p) \in {"abort", "resume"}
  BY <1>1 DEF HandlersSound, Sound, Fits, ControlSteps, KindOf
<1>3. Fits("claim", KindOf(p), h[p].run)
  BY <1>2 DEF Fits, TriggerSteps, ControlSteps, RunSteps
<1>4. CASE \E r \in ActiveRuns(Issue(p)) :
              h' = [h EXCEPT ![p].pc = "claim", ![p].active = r,
                             ![p].activeStatus = status[r]]
  <2>1. PICK r \in ActiveRuns(Issue(p)) :
              h' = [h EXCEPT ![p].pc = "claim", ![p].active = r,
                             ![p].activeStatus = status[r]]
    BY <1>4
  <2>2. r \in Runs /\ status[r] \in RunStatus
    BY DEF ActiveRuns, RunStatus
  <2> DEFINE y == [[[h[p] EXCEPT !.pc = "claim"] EXCEPT !.active = r]
                       EXCEPT !.activeStatus = status[r]]
  <2>3. y \in Local /\ y.pc = "claim" /\ y.d = h[p].d /\ y.run = h[p].run
    BY <2>2 DEF HandlersSound, Local, Steps
  <2>4. h' = [h EXCEPT ![p] = y]
    BY <2>1 DEF HandlersSound
  <2>5. Sound(y, kind)
    BY <1>1, <1>3, <2>3 DEF HandlersSound, Sound, KindOf
  <2> QED
    BY <1>1, <2>3, <2>4, <2>5, OneHandlerMoves
<1>5. CASE Goto(p, "claim")
  BY <1>1, <1>3, <1>5, GotoMoves DEF Steps
<1> QED
  BY <1>4, <1>5 DEF FindActive

\* An abort settles a receipt that names a run only if it saw the run ended.
LEMMA AbortDecides ==
    ASSUME NEW x
    PROVE  /\ AbortStep(x) \in {"idle", "settle", "unlabel"}
           /\ AbortStep(x) = "settle" /\ x.run # Nil => x.runStatus \in Terminal
BY DEF AbortStep

\* A resume acts only on a receipt that names a run.
LEMMA ResumeDecides ==
    ASSUME NEW x
    PROVE  /\ ResumeStep(x) \in {"idle", "settle", "unlabel", "resume"}
           /\ ResumeStep(x) \in {"unlabel", "resume"} => x.run # Nil
BY DEF ResumeStep

\* What a claim leaves a handler with: nothing, or the run of its receipt and
\* a step that its kind allows.
LEMMA ClaimDecides ==
    ASSUME TypeOK, HandlersSound, NEW p \in Slots, Claim(p)
    PROVE  LET d == h[p].d
               run == receipts'[d].run
               y(s) == [[[Idle EXCEPT !.pc = s] EXCEPT !.d = d] EXCEPT !.run = run]
           IN  /\ d \in Deliveries /\ KindOf(p) \in {"abort", "resume"}
               /\ receipts'[d] # Nil
               /\ run \in Runs \cup {Nil}
               /\ \/ Return(p)
                  \/ \E s \in {"settle", "unlabel", "resume"} :
                        /\ h' = [h EXCEPT ![p] = y(s)]
                        /\ KindOf(p) = "resume" /\ s # "settle" => run # Nil
                        /\ KindOf(p) = "abort" => s # "resume"
                        /\ KindOf(p) = "abort" /\ s = "settle" /\ run # Nil
                              => status[run] \in Terminal
<1> DEFINE d == h[p].d
           run == receipts'[d].run
           y(s) == [[[Idle EXCEPT !.pc = s] EXCEPT !.d = d] EXCEPT !.run = run]
<1>1. h[p] \in Local /\ d \in Deliveries /\ KindOf(p) \in {"abort", "resume"}
  BY DEF Claim, At, HandlersSound, Sound, Fits, ControlSteps, KindOf
<1>2. PICK x : /\ Decide(p, x)
               /\ x.d = d /\ x.run = run /\ run \in Runs \cup {Nil}
               /\ receipts'[d] # Nil
               /\ run # Nil => x.runStatus = status[run]
  <2>1. CASE /\ ClaimControlDelivery(d, Issue(p), KindOf(p), Eligible(p))
             /\ Decide(p, Seen(p, Eligible(p), FALSE, FALSE, FALSE))
    <3>1. Eligible(p) \in Runs \cup {Nil}
      BY <1>1 DEF Eligible, Local
    <3>2. receipts'[d] = [issue |-> Issue(p), transition |-> KindOf(p),
                          run |-> Eligible(p), handoffSent |-> FALSE,
                          completed |-> FALSE]
      BY <1>1, <2>1 DEF ClaimControlDelivery, TypeOK
    <3>3. receipts'[d] \in Receipt
      BY <1>1, <3>1, <3>2, EntryAssumption DEF Receipt, Issue
    <3> DEFINE x == Seen(p, Eligible(p), FALSE, FALSE, FALSE)
    <3>4. x.d = d /\ x.run = Eligible(p)
      BY <1>1 DEF Seen, Local
    <3>5. Eligible(p) # Nil => x.runStatus = status[Eligible(p)]
      BY <1>1 DEF Seen, Local
    <3>6. run = Eligible(p)
      BY <3>2
    <3>7. receipts'[d] # Nil
      BY <3>3, EntryAssumption
    <3> QED
      BY <2>1, <3>1, <3>4, <3>5, <3>6, <3>7
  <2>2. CASE /\ receipts[d] # Nil
             /\ Decide(p, Seen(p, receipts[d].run, receipts[d].handoffSent,
                               receipts[d].completed, TRUE))
             /\ UNCHANGED ledgerVars
    <3>1. receipts'[d] = receipts[d] /\ receipts[d] \in Receipt
      BY <1>1, <2>2 DEF TypeOK, ledgerVars
    <3> DEFINE x == Seen(p, receipts[d].run, receipts[d].handoffSent,
                         receipts[d].completed, TRUE)
    <3>2. x.d = d /\ x.run = run
      BY <1>1, <3>1 DEF Seen, Local
    <3>3. run # Nil => x.runStatus = status[run]
      BY <1>1, <3>1 DEF Seen, Local
    <3>4. run \in Runs \cup {Nil}
      BY <3>1 DEF Receipt
    <3> QED
      BY <2>2, <3>1, <3>2, <3>3, <3>4
  <2> QED
    BY <2>1, <2>2 DEF Claim
<1> DEFINE s == IF KindOf(p) = "abort" THEN AbortStep(x) ELSE ResumeStep(x)
<1>3. h' = [h EXCEPT ![p] = IF s = "idle" THEN Idle ELSE y(s)]
  BY <1>2 DEF Decide
<1>4. CASE s = "idle"
  BY <1>1, <1>2, <1>3, <1>4 DEF Return
<1>5. CASE s # "idle"
  <2>1. s \in {"settle", "unlabel", "resume"}
    BY <1>1, <1>5, AbortDecides, ResumeDecides
  <2>2. KindOf(p) = "resume" /\ s # "settle" => run # Nil
    BY <1>2, <2>1, ResumeDecides
  <2>3. KindOf(p) = "abort" => s # "resume"
    BY AbortDecides
  <2>4. KindOf(p) = "abort" /\ s = "settle" /\ run # Nil => status[run] \in Terminal
    BY <1>2, AbortDecides
  <2>5. h' = [h EXCEPT ![p] = y(s)]
    BY <1>3, <1>5
  <2> HIDE DEF s, y, run, d
  <2> QED
    BY <1>1, <1>2, <2>1, <2>2, <2>3, <2>4, <2>5 DEF d, run, y
<1> QED
  BY <1>4, <1>5

LEMMA ClaimSound ==
    ASSUME TypeOK, HandlersSound, NEW p \in Slots, Claim(p)
    PROVE  HandlersSound'
<1> DEFINE d == h[p].d
           run == receipts'[d].run
           y(s) == [[[Idle EXCEPT !.pc = s] EXCEPT !.d = d] EXCEPT !.run = run]
<1>1. d \in Deliveries /\ KindOf(p) \in {"abort", "resume"} /\ run \in Runs \cup {Nil}
  BY ClaimDecides
<1>2. kind' = kind
  BY DEF Claim
<1>3. CASE Return(p)
  BY <1>2, <1>3, ReturnMoves
<1>4. CASE \E s \in {"settle", "unlabel", "resume"} :
              /\ h' = [h EXCEPT ![p] = y(s)]
              /\ KindOf(p) = "resume" /\ s # "settle" => run # Nil
              /\ KindOf(p) = "abort" => s # "resume"
  <2>1. PICK s \in {"settle", "unlabel", "resume"} :
              /\ h' = [h EXCEPT ![p] = y(s)]
              /\ KindOf(p) = "resume" /\ s # "settle" => run # Nil
              /\ KindOf(p) = "abort" => s # "resume"
    BY <1>4
  <2>2. y(s) \in Local /\ y(s).pc = s /\ y(s).d = d /\ y(s).run = run
    BY <1>1 DEF Idle, Local, Steps
  <2>3. Fits(s, KindOf(p), run)
    BY <1>1, <2>1 DEF Fits, TriggerSteps, ControlSteps, RunSteps
  <2>4. Sound(y(s), kind)
    BY <1>1, <2>2, <2>3 DEF Sound, KindOf, Kinds
  <2> QED
    BY <1>2, <2>1, <2>2, <2>4, OneHandlerMoves
<1> QED
  BY <1>3, <1>4, ClaimDecides

LEMMA ControlStepsSound ==
    ASSUME TypeOK, HandlersSound, NEW p \in Slots,
           \/ Unlabel(p) \/ RecordAborted(p) \/ MarkHandoffSent(p)
           \/ RecordResumed(p) \/ Settle(p)
    PROVE  HandlersSound'
<1> USE DEF At, Fits, TriggerSteps, ControlSteps, RunSteps, Steps
<1>1. kind' = kind /\ h[p].pc # "idle"
  BY DEF Unlabel, RecordAborted, MarkHandoffSent, RecordResumed, Settle
<1>2. Fits(h[p].pc, KindOf(p), h[p].run)
  BY <1>1 DEF HandlersSound, Sound, KindOf
<1>3. ASSUME Unlabel(p) PROVE HandlersSound'
  <2>1. h[p].pc = "unlabel" /\ KindOf(p) \in {"abort", "resume"} /\ h[p].run \in Runs \cup {Nil}
    BY <1>2, <1>3 DEF Unlabel, HandlersSound, Local
  <2>2. CASE KindOf(p) = "resume"
    BY <1>1, <1>2, <1>3, <2>1, <2>2, GotoMoves DEF Unlabel
  <2>3. CASE KindOf(p) = "abort" /\ h[p].run # Nil
    BY <1>1, <1>2, <1>3, <2>1, <2>3, GotoMoves DEF Unlabel
  <2>4. CASE KindOf(p) = "abort" /\ h[p].run = Nil
    BY <1>1, <1>2, <1>3, <2>1, <2>4, GotoMoves DEF Unlabel
  <2> QED
    BY <2>1, <2>2, <2>3, <2>4
<1>4. ASSUME RecordAborted(p) PROVE HandlersSound'
  BY <1>1, <1>2, <1>4, GotoMoves DEF RecordAborted
<1>5. ASSUME MarkHandoffSent(p) PROVE HandlersSound'
  BY <1>1, <1>2, <1>5, GotoMoves DEF MarkHandoffSent
<1>6. ASSUME RecordResumed(p) PROVE HandlersSound'
  BY <1>1, <1>2, <1>6, GotoMoves DEF RecordResumed
<1>7. ASSUME Settle(p) PROVE HandlersSound'
  BY <1>1, <1>7, ReturnMoves DEF Settle
<1> QED
  BY <1>3, <1>4, <1>5, <1>6, <1>7

LEMMA TriggerStepsSound ==
    ASSUME TypeOK, HandlersSound, NEW p \in Slots,
           \/ AddRunningLabel(p) \/ RecordStarted(p) \/ RecordFailed(p)
    PROVE  HandlersSound'
<1> USE DEF At, Fits, TriggerSteps, ControlSteps, RunSteps, Steps
<1>1. kind' = kind /\ h[p].pc # "idle"
  BY DEF AddRunningLabel, RecordStarted, RecordFailed
<1>2. Fits(h[p].pc, KindOf(p), h[p].run)
  BY <1>1 DEF HandlersSound, Sound, KindOf
<1>3. CASE AddRunningLabel(p)
  BY <1>1, <1>2, <1>3, GotoMoves DEF AddRunningLabel
<1>4. CASE RecordStarted(p)
  BY <1>1, <1>4, ReturnMoves DEF RecordStarted
<1>5. CASE RecordFailed(p)
  BY <1>1, <1>5, ReturnMoves DEF RecordFailed
<1> QED
  BY <1>3, <1>4, <1>5

-----------------------------------------------------------------------------
(* Every step is a step of the ledger, or leaves it alone                  *)

\* The events the handlers and the agent write are events of the ledger.
LEMMA DeliveryEventIds ==
    ASSUME NEW d \in Deliveries,
           NEW t \in {"dispatch-started", "label-failed", "handoff-failed",
                      "abort", "resume"}
    PROVE  <<d, t>> \in EventIds
BY EntryAssumption DEF EntryEventIds

LEMMA AgentEventIds ==
    ASSUME NEW q \in Questions \cup {"end"}
    PROVE  <<"agent", q>> \in EventIds
BY EntryAssumption DEF EntryEventIds

LEMMA TerminalIsEvent ==
    ASSUME NEW id \in EventIds, NEW s \in Terminal
    PROVE  [id |-> id, type |-> "run.terminal", status |-> s] \in Event
BY DEF Event, EventTypes, RunStatus, WellFormed

\* A handler asks the ledger for nothing but its operations.
LEMMA HandlerCallsLedger ==
    ASSUME HandlersSound, NEW p \in Slots, HandlerStep(p)
    PROVE  [Next]_ledgerVars
<1>1. ASSUME h[p].pc # "idle"
      PROVE  /\ h[p].d \in Deliveries /\ KindOf(p) \in Kinds
             /\ Issue(p) \in Issues
             /\ h[p].run \in Runs \cup {Nil}
             /\ Fits(h[p].pc, KindOf(p), h[p].run)
  BY <1>1, EntryAssumption DEF HandlersSound, Sound, Local, KindOf, Issue
<1>2. CASE Accept(p)
  <2>1. h[p].d \in Deliveries /\ Issue(p) \in Issues
    BY <1>1, <1>2 DEF Accept, At
  <2> QED
    BY <1>2, <2>1 DEF Accept, Next
<1>3. CASE RecordStarted(p)
  <2> DEFINE e == [id |-> EventId(p, "dispatch-started"),
                   type |-> "dispatch.started", status |-> "running"]
  <2>1. h[p].d \in Deliveries /\ h[p].run \in Runs
    BY <1>1, <1>3 DEF RecordStarted, At, Fits, RunSteps
  <2>2. e \in Event
    BY <2>1, DeliveryEventIds
       DEF EventId, Event, EventTypes, WorkTypes, RunStatus, Active, WellFormed
  <2>3. AppendEvent(h[p].run, e)
    BY <1>3 DEF RecordStarted
  <2> HIDE DEF e
  <2> QED
    BY <2>1, <2>2, <2>3 DEF Next
<1>4. CASE RecordFailed(p)
  <2> DEFINE e == TerminalEvent(p, h[p].pc, "failed")
  <2>1. /\ h[p].d \in Deliveries /\ h[p].run \in Runs
        /\ h[p].pc \in {"label-failed", "handoff-failed"}
    BY <1>1, <1>4 DEF RecordFailed, Fits, RunSteps
  <2>2. e \in Event
    BY <2>1, DeliveryEventIds, TerminalIsEvent DEF TerminalEvent, EventId, Terminal
  <2>3. AppendEvent(h[p].run, e)
    BY <1>4 DEF RecordFailed
  <2> HIDE DEF e
  <2> QED
    BY <2>1, <2>2, <2>3 DEF Next
<1>5. CASE Claim(p)
  <2>1. /\ h[p].d \in Deliveries /\ Issue(p) \in Issues
        /\ KindOf(p) \in {"abort", "resume"} /\ Eligible(p) \in Runs \cup {Nil}
    BY <1>1, <1>5
       DEF Claim, At, Fits, ControlSteps, Eligible, HandlersSound, Local
  <2> QED
    BY <1>5, <2>1 DEF Claim, Next
<1>6. CASE RecordAborted(p)
  <2> DEFINE e == TerminalEvent(p, "abort", "aborted")
  <2>1. h[p].d \in Deliveries /\ h[p].run \in Runs
    BY <1>1, <1>6 DEF RecordAborted, At, Fits, RunSteps
  <2>2. e \in Event
    BY <2>1, DeliveryEventIds, TerminalIsEvent DEF TerminalEvent, EventId, Terminal
  <2>3. AppendEvent(h[p].run, e) \/ UNCHANGED ledgerVars
    BY <1>6 DEF RecordAborted, AppendOrReplay
  <2> HIDE DEF e
  <2> QED
    BY <2>1, <2>2, <2>3 DEF Next
<1>7. CASE RecordResumed(p)
  <2> DEFINE e == [id |-> EventId(p, "resume"), type |-> "run.resumed",
                   status |-> "running"]
  <2>1. h[p].d \in Deliveries /\ h[p].run \in Runs
    BY <1>1, <1>7 DEF RecordResumed, At, Fits, RunSteps
  <2>2. e \in Event
    BY <2>1, DeliveryEventIds
       DEF EventId, Event, EventTypes, WorkTypes, RunStatus, Active, WellFormed
  <2>3. AppendEvent(h[p].run, e) \/ UNCHANGED ledgerVars
    BY <1>7 DEF RecordResumed, AppendOrReplay
  <2> HIDE DEF e
  <2> QED
    BY <2>1, <2>2, <2>3 DEF Next
<1>8. CASE MarkHandoffSent(p)
  <2>1. /\ h[p].d \in Deliveries /\ Issue(p) \in Issues
        /\ h[p].run \in Runs \cup {Nil}
    BY <1>1, <1>8 DEF MarkHandoffSent, At
  <2> QED
    BY <1>8, <2>1 DEF MarkHandoffSent, Next
<1>9. CASE Settle(p)
  <2>1. /\ h[p].d \in Deliveries /\ Issue(p) \in Issues
        /\ KindOf(p) \in {"abort", "resume"} /\ h[p].run \in Runs \cup {Nil}
    BY <1>1, <1>9 DEF Settle, At, Fits, ControlSteps
  <2> QED
    BY <1>9, <2>1 DEF Settle, Next
<1>10. CASE AddRunningLabel(p) \/ Handoff(p) \/ FindActive(p) \/ Unlabel(p)
  BY <1>10 DEF AddRunningLabel, Handoff, FindActive, Unlabel
<1> QED
  BY <1>2, <1>3, <1>4, <1>5, <1>6, <1>7, <1>8, <1>9, <1>10 DEF HandlerStep

\* So does everything around the handlers.
LEMMA EntryCallsLedger ==
    ASSUME HandlersSound, [EntryNext]_vars
    PROVE  [Next]_ledgerVars
<1>1. ASSUME NEW r \in Runs, AgentAsks(r) PROVE [Next]_ledgerVars
  <2>1. PICK q \in Questions :
            AppendEvent(r, [id |-> <<"agent", q>>, type |-> "worker.question",
                            status |-> "blocked"])
    BY <1>1 DEF AgentAsks, AgentReports
  <2> DEFINE e == [id |-> <<"agent", q>>, type |-> "worker.question",
                   status |-> "blocked"]
  <2>2. e \in Event
    BY AgentEventIds DEF Event, EventTypes, RunStatus, Active, WellFormed
  <2> QED
    BY <2>1, <2>2 DEF Next
<1>2. ASSUME NEW r \in Runs, AgentEnds(r) PROVE [Next]_ledgerVars
  <2>1. PICK s \in {"succeeded", "failed"} :
            AppendEvent(r, [id |-> <<"agent", "end">>, type |-> "run.terminal",
                            status |-> s])
    BY <1>2 DEF AgentEnds, AgentReports
  <2>2. [id |-> <<"agent", "end">>, type |-> "run.terminal", status |-> s] \in Event
    BY AgentEventIds, TerminalIsEvent DEF Terminal
  <2> QED
    BY <2>1, <2>2 DEF Next
<1>3. ASSUME NEW p \in Slots, NEW d \in Deliveries, Receive(p, d)
      PROVE  [Next]_ledgerVars
  BY <1>3 DEF Receive
<1>4. ASSUME NEW p \in Slots, GiveUp(p) PROVE [Next]_ledgerVars
  BY <1>4 DEF GiveUp
<1>5. ASSUME NEW i \in Issues, Retire(i) PROVE [Next]_ledgerVars
  BY <1>5 DEF Retire, Next
<1>6. CASE UNCHANGED vars
  BY <1>6 DEF vars
<1> QED
  BY <1>1, <1>2, <1>3, <1>4, <1>5, <1>6, HandlerCallsLedger DEF EntryNext

LEMMA EntryStepSound ==
    ASSUME TypeOK, HandlersSound, [EntryNext]_vars
    PROVE  HandlersSound'
<1>1. ASSUME NEW p \in Slots, GiveUp(p) PROVE HandlersSound'
  BY <1>1, ReturnMoves DEF GiveUp
<1>2. ASSUME NEW r \in Runs, AgentAsks(r) \/ AgentEnds(r) PROVE HandlersSound'
  BY <1>2 DEF AgentAsks, AgentEnds, AgentReports, HandlersSound
<1>3. ASSUME NEW i \in Issues, Retire(i) PROVE HandlersSound'
  BY <1>3 DEF Retire, entryVars, HandlersSound
<1>4. CASE UNCHANGED vars
  BY <1>4 DEF vars, entryVars, HandlersSound
<1> QED
  BY <1>1, <1>2, <1>3, <1>4, ReceiveMoves, AcceptSound, HandoffSound,
     FindActiveSound, ClaimSound, ControlStepsSound, TriggerStepsSound
     DEF EntryNext, HandlerStep

LEMMA EntryInitSound == EntryInit => TypeOK /\ HandlersSound
BY IdleSound DEF EntryInit, Init, TypeOK, HandlersSound, Sound, Idle

\* The invariant every theorem below starts from.
LEMMA HandlersStaySound == EntrySpec => [](TypeOK /\ HandlersSound)
<1>1. TypeOK /\ HandlersSound /\ [EntryNext]_vars => (TypeOK /\ HandlersSound)'
  BY EntryStepSound, EntryCallsLedger, LedgerTypeStep
<1> QED
  BY <1>1, EntryInitSound, PTL DEF EntrySpec

-----------------------------------------------------------------------------
(* The handlers implement the ledger's specification                       *)

\* Whatever is delivered, lost, repeated and interleaved, the webhook handlers,
\* the agents and the operator only ever take steps of the run ledger.
THEOREM EntryImplementsLedger == EntrySpec => Spec
<1>1. EntryInit => Init
  BY DEF EntryInit
<1>2. TypeOK /\ HandlersSound /\ [EntryNext]_vars => [Next]_ledgerVars
  BY EntryCallsLedger
<1> QED
  BY <1>1, <1>2, HandlersStaySound, PTL DEF EntrySpec, Spec

\* So with any number of handlers at once, an issue has one run in flight.
THEOREM HandlersKeepOneActiveRun == EntrySpec => []OneActiveRun
BY EntryImplementsLedger, AtMostOneActiveRun, PTL

\* No redelivery, late report or retirement reopens or re-ends a run.
THEOREM HandlersKeepRunsEnded == EntrySpec => TerminalIsFinal
BY EntryImplementsLedger, TerminalRunsStayEnded, PTL

-----------------------------------------------------------------------------
(* Bindings                                                                *)

\* One transaction never rebinds a delivery or undoes a phase of a receipt.
LEMMA BindingsStep ==
    ASSUME TypeOK, [Next]_ledgerVars, NEW d \in Deliveries
    PROVE  /\ bound[d] # Nil => bound'[d] = bound[d]
           /\ receipts[d] # Nil =>
                 /\ receipts'[d] # Nil
                 /\ receipts'[d].run = receipts[d].run
                 /\ receipts[d].handoffSent => receipts'[d].handoffSent
                 /\ receipts[d].completed => receipts'[d].completed
<1> DEFINE Kept == /\ bound[d] # Nil => bound'[d] = bound[d]
                   /\ receipts[d] # Nil =>
                        /\ receipts'[d] # Nil
                        /\ receipts'[d].run = receipts[d].run
                        /\ receipts[d].handoffSent => receipts'[d].handoffSent
                        /\ receipts[d].completed => receipts'[d].completed
<1>1. ASSUME NEW c \in Deliveries, NEW i \in Issues, NEW r \in Runs,
             AcceptDelivery(c, i, r)
      PROVE  Kept
  BY <1>1 DEF TypeOK, AcceptDelivery, InsertRun
<1>2. ASSUME NEW c \in Deliveries, NEW i \in Issues, NEW t \in {"abort", "resume"},
             NEW r \in Runs \cup {Nil}, ClaimControlDelivery(c, i, t, r)
      PROVE  Kept
  BY <1>2 DEF TypeOK, ClaimControlDelivery
<1>3. ASSUME NEW c \in Deliveries, NEW i \in Issues, NEW t \in {"abort", "resume"},
             NEW r \in Runs \cup {Nil}, NEW sent \in BOOLEAN, NEW done \in BOOLEAN,
             AdvanceControlDelivery(c, i, t, r, sent, done)
      PROVE  Kept
  <2>1. receipts'[d] \in Receipt \cup {Nil} /\ bound' = bound
    BY <1>3, LedgerTypeStep DEF TypeOK, AdvanceControlDelivery
  <2>2. CASE d # c
    BY <1>3, <2>2 DEF TypeOK, AdvanceControlDelivery
  <2>3. CASE d = c
    <3> DEFINE y == [[receipts[d] EXCEPT !.handoffSent = receipts[d].handoffSent \/ sent]
                         EXCEPT !.completed = receipts[d].completed \/ done]
    <3>1. receipts[d] \in Receipt
      BY <1>3, <2>3 DEF TypeOK, AdvanceControlDelivery
    <3>2. receipts'[d] = y
      BY <1>3, <2>3, <3>1 DEF TypeOK, AdvanceControlDelivery, Receipt
    <3>3. y \in Receipt
      BY <3>1 DEF Receipt
    <3>4. /\ y.run = receipts[d].run
          /\ receipts[d].handoffSent => y.handoffSent
          /\ receipts[d].completed => y.completed
      BY <3>1 DEF Receipt
    <3>5. receipts'[d] # Nil
      BY <3>2, <3>3, EntryAssumption
    <3> QED
      BY <2>1, <3>2, <3>4, <3>5
  <2> QED
    BY <2>2, <2>3
<1>4. ASSUME NEW r \in Runs, NEW e \in Event, AppendEvent(r, e) PROVE Kept
  BY <1>4 DEF AppendEvent
<1>5. CASE UNCHANGED ledgerVars
  BY <1>5 DEF ledgerVars
<1> QED
  BY <1>1, <1>2, <1>3, <1>4, <1>5, StepCases

\* A redelivered webhook meets the binding and the phases its predecessors
\* left, whatever else reached the ledger in between.
THEOREM BindingsStayWritten == EntrySpec => BindingsAreWriteOnce
<1> DEFINE WrittenOnce ==
        \A d \in Deliveries :
          /\ bound[d] # Nil => bound'[d] = bound[d]
          /\ receipts[d] # Nil =>
                /\ receipts'[d] # Nil
                /\ receipts'[d].run = receipts[d].run
                /\ receipts[d].handoffSent => receipts'[d].handoffSent
                /\ receipts[d].completed => receipts'[d].completed
<1>1. TypeOK /\ [Next]_ledgerVars => [WrittenOnce]_ledgerVars
  BY BindingsStep
<1>2. Spec => [][WrittenOnce]_ledgerVars
  BY <1>1, LedgerTypeCorrect, PTL DEF Spec
<1> QED
  BY <1>2, EntryImplementsLedger DEF BindingsAreWriteOnce

-----------------------------------------------------------------------------
(* Aborts                                                                  *)

\* One handler step leaves every other handler where it was.
LEMMA OthersStay ==
    ASSUME HandlersSound, NEW p \in Slots, HandlerStep(p) \/ GiveUp(p)
    PROVE  kind' = kind /\ \A q \in Slots \ {p} : h'[q] = h[q]
<1>1. ASSUME NEW s, Goto(p, s) PROVE \A q \in Slots \ {p} : h'[q] = h[q]
  BY <1>1 DEF Goto, HandlersSound
<1>2. ASSUME Return(p) PROVE \A q \in Slots \ {p} : h'[q] = h[q]
  BY <1>2 DEF Return, HandlersSound
<1>3. ASSUME NEW x, Decide(p, x) PROVE \A q \in Slots \ {p} : h'[q] = h[q]
  BY <1>3 DEF Decide, HandlersSound
<1>4. CASE Accept(p)
  BY <1>2, <1>4 DEF Accept, HandlersSound
<1>5. CASE FindActive(p)
  BY <1>1, <1>5 DEF FindActive, HandlersSound
<1>6. CASE Claim(p)
  BY <1>3, <1>6 DEF Claim
<1>7. CASE AddRunningLabel(p) \/ Unlabel(p)
  BY <1>1, <1>7 DEF AddRunningLabel, Unlabel
<1>8. CASE RecordAborted(p) \/ MarkHandoffSent(p) \/ RecordResumed(p)
  BY <1>1, <1>8 DEF RecordAborted, MarkHandoffSent, RecordResumed
<1>9. CASE GiveUp(p) \/ RecordStarted(p) \/ RecordFailed(p) \/ Settle(p)
  BY <1>2, <1>9 DEF GiveUp, RecordStarted, RecordFailed, Settle
<1>10. CASE Handoff(p)
  <2>1. kind' = kind /\ ((\E s : Goto(p, s)) \/ Return(p))
    BY <1>10, HandoffMoves
  <2> QED
    BY <1>1, <1>2, <2>1
<1> QED
  BY <1>4, <1>5, <1>6, <1>7, <1>8, <1>9, <1>10 DEF HandlerStep

\* A look-up leads to the claim.
LEMMA FindActiveMoves ==
    ASSUME HandlersSound, NEW p \in Slots, FindActive(p)
    PROVE  h'[p].pc = "claim"
<1>1. CASE \E r \in ActiveRuns(Issue(p)) :
              h' = [h EXCEPT ![p].pc = "claim", ![p].active = r,
                             ![p].activeStatus = status[r]]
  <2>1. PICK r \in ActiveRuns(Issue(p)) :
              h' = [h EXCEPT ![p].pc = "claim", ![p].active = r,
                             ![p].activeStatus = status[r]]
    BY <1>1
  <2> QED
    BY <2>1 DEF HandlersSound, Local
<1>2. CASE Goto(p, "claim")
  BY <1>2 DEF Goto, HandlersSound, Local
<1> QED
  BY <1>1, <1>2 DEF FindActive

\* A handler past its claim acts on the run its receipt is bound to, and an
\* abort about to settle such a receipt has seen that run ended.
HeldSteps == {"unlabel", "terminal", "settle", "mark", "resume"}

Holds(p) ==
    /\ \/ h[p].pc \in HeldSteps
       \/ h[p].pc = "handoff" /\ KindOf(p) = "resume"
       => /\ receipts[h[p].d] # Nil
          /\ receipts[h[p].d].run = h[p].run
    /\ h[p].pc = "settle" /\ KindOf(p) = "abort" /\ h[p].run # Nil
       => status[h[p].run] \in Terminal

HandlersHold == \A p \in Slots : Holds(p)

OnlyKnownClaimed == \A d \in Deliveries : kind[d] = Nil => receipts[d] = Nil

\* A handler that does not move keeps its hold, whatever the others do.
LEMMA BystanderHolds ==
    ASSUME TypeOK, HandlersSound, [Next]_ledgerVars, NEW q \in Slots, Holds(q),
           h'[q] = h[q], h[q].pc # "idle" => kind'[h[q].d] = kind[h[q].d]
    PROVE  Holds(q)'
<1>1. CASE h[q].pc = "idle"
  BY <1>1 DEF Holds, HeldSteps
<1>2. CASE h[q].pc # "idle"
  <2>1. /\ h[q].d \in Deliveries /\ h[q].run \in Runs \cup {Nil}
        /\ KindOf(q)' = KindOf(q)
    BY <1>2 DEF HandlersSound, Sound, Local, KindOf
  <2>2. receipts[h[q].d] # Nil => /\ receipts'[h[q].d] # Nil
                                  /\ receipts'[h[q].d].run = receipts[h[q].d].run
    BY <2>1, BindingsStep
  <2>3. h[q].run # Nil /\ status[h[q].run] \in Terminal
           => status'[h[q].run] \in Terminal
    BY <2>1, TerminalStep
  <2> QED
    BY <2>1, <2>2, <2>3 DEF Holds
<1> QED
  BY <1>1, <1>2

\* The abort's own append ends its run, or finds that it already did.
LEMMA AbortEndsRun ==
    ASSUME TypeOK, HandlersSound, TerminalIsExplained,
           NEW p \in Slots, RecordAborted(p)
    PROVE  h[p].run \in Runs /\ status'[h[p].run] \in Terminal
<1> DEFINE e == TerminalEvent(p, "abort", "aborted")
<1>1. h[p].run \in Runs /\ h[p].d \in Deliveries
  BY DEF RecordAborted, At, HandlersSound, Sound, Fits, RunSteps
<1>2. e.type = "run.terminal" /\ e.status = "aborted"
  BY DEF TerminalEvent
<1>3. e \in Event
  BY <1>1, DeliveryEventIds, TerminalIsEvent DEF TerminalEvent, EventId, Terminal
<1>4. AppendEvent(h[p].run, e) \/ (e \in log[h[p].run] /\ UNCHANGED ledgerVars)
  BY DEF RecordAborted, AppendOrReplay
<1> HIDE DEF e
<1>5. CASE AppendEvent(h[p].run, e)
  BY <1>1, <1>2, <1>3, <1>5, AppendMoves
<1>6. CASE e \in log[h[p].run] /\ UNCHANGED ledgerVars
  BY <1>1, <1>2, <1>6 DEF TerminalIsExplained, Terminal, ledgerVars
<1> QED
  BY <1>1, <1>4, <1>5, <1>6

\* A handler that moves keeps its hold.
LEMMA MoverHolds ==
    ASSUME TypeOK, HandlersSound, TerminalIsExplained, [Next]_ledgerVars,
           NEW p \in Slots, Holds(p), HandlerStep(p) \/ GiveUp(p)
    PROVE  Holds(p)'
<1>1. ASSUME Return(p) PROVE Holds(p)'
  BY <1>1 DEF Return, Idle, Holds, HeldSteps, HandlersSound
<1>2. ASSUME NEW s, Goto(p, s)
      PROVE  h'[p].pc = s /\ h'[p].d = h[p].d /\ h'[p].run = h[p].run
  BY <1>2 DEF Goto, HandlersSound, Local
<1>3. kind' = kind
  BY OthersStay
<1>4. ASSUME h[p].pc \in HeldSteps \/ (h[p].pc = "handoff" /\ KindOf(p) = "resume"),
             h'[p].d = h[p].d, h'[p].run = h[p].run
      PROVE  /\ receipts'[h'[p].d] # Nil
             /\ receipts'[h'[p].d].run = h'[p].run
             /\ KindOf(p)' = KindOf(p)
  <2>1. h[p].d \in Deliveries
    BY <1>4 DEF HeldSteps, HandlersSound, Sound
  <2> QED
    BY <1>3, <1>4, <2>1, BindingsStep DEF Holds, KindOf
<1>5. CASE Accept(p)
  <2>1. h'[p].pc \in {"label", "idle"}
    BY <1>5 DEF Accept, Return, Idle, HandlersSound, Local
  <2> QED
    BY <2>1 DEF Holds, HeldSteps
<1>6. CASE AddRunningLabel(p)
  <2>1. h[p].d \in Deliveries /\ KindOf(p) = "trigger"
    BY <1>6 DEF AddRunningLabel, At, HandlersSound, Sound, Fits, TriggerSteps, KindOf
  <2>2. h'[p].pc \in {"handoff", "label-failed"} /\ KindOf(p)' = "trigger"
    BY <1>2, <1>3, <1>6, <2>1 DEF AddRunningLabel, KindOf
  <2> QED
    BY <2>2 DEF Holds, HeldSteps
<1>7. CASE Handoff(p)
  <2>1. KindOf(p) \in {"trigger", "resume"}
    BY <1>7 DEF Handoff, At, HandlersSound, Sound, Fits, KindOf, Kinds
  <2>2. CASE KindOf(p) = "resume" /\ Goto(p, "mark")
    BY <1>2, <1>4, <1>7, <2>2, HandoffMoves DEF Holds, HeldSteps
  <2>3. CASE Goto(p, "started") \/ Goto(p, "handoff-failed")
    BY <1>2, <2>3 DEF Holds, HeldSteps
  <2> QED
    BY <1>1, <1>7, <2>1, <2>2, <2>3, HandoffMoves
<1>8. CASE FindActive(p)
  BY <1>8, FindActiveMoves DEF Holds, HeldSteps
<1>9. CASE Claim(p)
  <2> DEFINE d == h[p].d
             run == receipts'[d].run
             y(s) == [[[Idle EXCEPT !.pc = s] EXCEPT !.d = d] EXCEPT !.run = run]
  <2>1. receipts'[d] # Nil /\ run \in Runs \cup {Nil}
    BY <1>9, ClaimDecides
  <2>2. CASE \E s \in {"settle", "unlabel", "resume"} :
                /\ h' = [h EXCEPT ![p] = y(s)]
                /\ KindOf(p) = "abort" /\ s = "settle" /\ run # Nil
                      => status[run] \in Terminal
    <3>1. PICK s \in {"settle", "unlabel", "resume"} :
                /\ h' = [h EXCEPT ![p] = y(s)]
                /\ KindOf(p) = "abort" /\ s = "settle" /\ run # Nil
                      => status[run] \in Terminal
      BY <2>2
    <3>2. h'[p].pc = s /\ h'[p].d = d /\ h'[p].run = run
      BY <3>1 DEF HandlersSound, Idle
    <3>3. KindOf(p)' = KindOf(p)
      BY <1>3, <3>2 DEF KindOf
    <3>4. KindOf(p) = "abort" /\ s = "settle" /\ run # Nil
             => status'[run] \in Terminal
      BY <2>1, <3>1, TerminalStep
    <3> QED
      BY <2>1, <3>2, <3>3, <3>4 DEF Holds
  <2> QED
    BY <1>1, <1>9, <2>2, ClaimDecides
<1>10. CASE Unlabel(p)
  <2>1. PICK s \in {"handoff", "terminal", "settle"} :
            /\ Goto(p, s)
            /\ s = "handoff" => KindOf(p) = "resume"
            /\ s = "settle" => KindOf(p) # "abort" \/ h[p].run = Nil
    BY <1>10 DEF Unlabel
  <2> QED
    BY <1>2, <1>4, <1>10, <2>1 DEF Unlabel, At, Holds, HeldSteps
<1>11. CASE RecordAborted(p)
  BY <1>2, <1>4, <1>11, AbortEndsRun DEF RecordAborted, At, Holds, HeldSteps
<1>12. CASE MarkHandoffSent(p)
  BY <1>2, <1>4, <1>12 DEF MarkHandoffSent, At, Holds, HeldSteps
<1>13. CASE RecordResumed(p)
  <2>1. KindOf(p) = "resume"
    BY <1>13 DEF RecordResumed, At, HandlersSound, Sound, Fits, KindOf
  <2> QED
    BY <1>2, <1>4, <1>13, <2>1 DEF RecordResumed, At, Holds, HeldSteps
<1>14. CASE RecordStarted(p) \/ RecordFailed(p) \/ Settle(p) \/ GiveUp(p)
  BY <1>1, <1>14 DEF RecordStarted, RecordFailed, Settle, GiveUp
<1> QED
  BY <1>5, <1>6, <1>7, <1>8, <1>9, <1>10, <1>11, <1>12, <1>13, <1>14
     DEF HandlerStep

\* A step that changes the receipts is a claim or an advance of its delivery.
LEMMA ReceiptChanges ==
    ASSUME TypeOK, HandlersSound, [EntryNext]_vars,
           NEW d \in Deliveries, receipts'[d] # receipts[d]
    PROVE  \E p \in Slots :
              /\ h[p].d = d /\ h[p].pc # "idle" /\ kind' = kind
              /\ Claim(p) \/ MarkHandoffSent(p) \/ Settle(p)
<1>1. ASSUME NEW p \in Slots, Claim(p) \/ MarkHandoffSent(p) \/ Settle(p)
      PROVE  h[p].d = d /\ h[p].pc # "idle" /\ kind' = kind
  <2>1. h[p].d \in Deliveries /\ h[p].pc # "idle" /\ kind' = kind
    BY <1>1 DEF Claim, MarkHandoffSent, Settle, At, HandlersSound, Sound
  <2>2. h[p].d # d => receipts'[d] = receipts[d]
    BY <1>1, <2>1 DEF Claim, MarkHandoffSent, Settle, ClaimControlDelivery,
                      AdvanceControlDelivery, TypeOK, ledgerVars
  <2> QED
    BY <2>1, <2>2
<1>2. ASSUME NEW p \in Slots,
             \/ Accept(p) \/ AddRunningLabel(p) \/ Handoff(p)
             \/ RecordStarted(p) \/ RecordFailed(p)
             \/ FindActive(p) \/ Unlabel(p)
             \/ RecordAborted(p) \/ RecordResumed(p) \/ GiveUp(p)
      PROVE  FALSE
  BY <1>2 DEF Accept, AcceptDelivery, InsertRun, AddRunningLabel, Handoff,
              RecordStarted, RecordFailed, FindActive, Unlabel, RecordAborted,
              RecordResumed, AppendOrReplay, AppendEvent, GiveUp, ledgerVars
<1>3. ASSUME NEW r \in Runs, AgentAsks(r) \/ AgentEnds(r) PROVE FALSE
  BY <1>3 DEF AgentAsks, AgentEnds, AgentReports, AppendEvent
<1>4. ASSUME NEW i \in Issues, Retire(i) PROVE FALSE
  BY <1>4 DEF Retire, RetireRunClaim, AppendEvent
<1>5. ASSUME NEW p \in Slots, NEW c \in Deliveries, Receive(p, c) PROVE FALSE
  BY <1>5 DEF Receive, ledgerVars
<1>6. ~UNCHANGED vars
  BY DEF vars, ledgerVars
<1> QED
  BY <1>1, <1>2, <1>3, <1>4, <1>5, <1>6 DEF EntryNext, HandlerStep

\* A delivery keeps the kind its first request had.
LEMMA KindStays ==
    ASSUME HandlersSound, [EntryNext]_vars
    PROVE  \A d \in Deliveries : kind[d] # Nil => kind'[d] = kind[d]
<1>1. ASSUME NEW p \in Slots, NEW c \in Deliveries, Receive(p, c)
      PROVE  \A d \in Deliveries : kind[d] # Nil => kind'[d] = kind[d]
  BY <1>1 DEF Receive, HandlersSound
<1>2. ASSUME NEW p \in Slots, HandlerStep(p) \/ GiveUp(p) PROVE kind' = kind
  BY <1>2, OthersStay
<1>3. ASSUME NEW r \in Runs, AgentAsks(r) \/ AgentEnds(r) PROVE kind' = kind
  BY <1>3 DEF AgentAsks, AgentEnds, AgentReports
<1>4. ASSUME NEW i \in Issues, Retire(i) PROVE kind' = kind
  BY <1>4 DEF Retire, entryVars
<1>5. CASE UNCHANGED vars
  BY <1>5 DEF vars, entryVars
<1> QED
  BY <1>1, <1>2, <1>3, <1>4, <1>5 DEF EntryNext

\* Handlers keep their holds, and a receipt belongs to a known delivery.
LEMMA HoldsStep ==
    ASSUME TypeOK, HandlersSound, TerminalIsExplained,
           HandlersHold, OnlyKnownClaimed, [EntryNext]_vars
    PROVE  (HandlersHold /\ OnlyKnownClaimed)'
<1>1. [Next]_ledgerVars
  BY EntryCallsLedger
<1>2. \A d \in Deliveries : kind[d] # Nil => kind'[d] = kind[d]
  BY KindStays
<1>3. OnlyKnownClaimed'
  <2> SUFFICES ASSUME NEW d \in Deliveries, kind'[d] = Nil
               PROVE  receipts'[d] = Nil
    BY DEF OnlyKnownClaimed
  <2>1. kind[d] = Nil /\ receipts[d] = Nil
    BY <1>2 DEF OnlyKnownClaimed
  <2>2. CASE receipts'[d] # receipts[d]
    <3>1. PICK p \in Slots : h[p].d = d /\ h[p].pc # "idle"
      BY <2>2, ReceiptChanges
    <3> QED
      BY <2>1, <3>1, EntryAssumption DEF HandlersSound, Sound
  <2> QED
    BY <2>1, <2>2
<1>4. ASSUME NEW q \in Slots, h'[q] = h[q] PROVE Holds(q)'
  <2>1. h[q].pc # "idle" => kind'[h[q].d] = kind[h[q].d]
    BY <1>2, EntryAssumption DEF HandlersSound, Sound
  <2> QED
    BY <1>1, <1>4, <2>1, BystanderHolds DEF HandlersHold
<1>5. ASSUME NEW p \in Slots, HandlerStep(p) \/ GiveUp(p) PROVE HandlersHold'
  <2>1. Holds(p)'
    BY <1>1, <1>5, MoverHolds DEF HandlersHold
  <2>2. \A q \in Slots \ {p} : Holds(q)'
    BY <1>4, <1>5, OthersStay
  <2> QED
    BY <2>1, <2>2 DEF HandlersHold
<1>6. ASSUME NEW p \in Slots, NEW d \in Deliveries, Receive(p, d)
      PROVE  HandlersHold'
  <2>1. h'[p].pc \in {"accept", "find"} /\ \A q \in Slots \ {p} : h'[q] = h[q]
    BY <1>6 DEF Receive, HandlersSound, Idle
  <2>2. Holds(p)'
    BY <2>1 DEF Holds, HeldSteps
  <2> QED
    BY <1>4, <2>1, <2>2 DEF HandlersHold
<1>7. ASSUME UNCHANGED h PROVE HandlersHold'
  BY <1>4, <1>7 DEF HandlersHold
<1>8. HandlersHold'
  BY <1>5, <1>6, <1>7 DEF EntryNext, AgentAsks, AgentEnds, AgentReports,
                          Retire, entryVars, vars
<1> QED
  BY <1>3, <1>8

LEMMA CompletedStep ==
    ASSUME TypeOK, HandlersSound, HandlersHold, OnlyKnownClaimed,
           CompletedAbortEndedItsRun, [EntryNext]_vars
    PROVE  CompletedAbortEndedItsRun'
<1> SUFFICES ASSUME NEW d \in Deliveries, kind'[d] = "abort",
                    receipts'[d] # Nil, receipts'[d].completed,
                    receipts'[d].run # Nil
             PROVE  status'[receipts'[d].run] \in Terminal
  BY DEF CompletedAbortEndedItsRun
<1>1. [Next]_ledgerVars
  BY EntryCallsLedger
<1>2. CASE receipts'[d] = receipts[d]
  <2>1. kind[d] = "abort"
    BY <1>2, KindStays DEF OnlyKnownClaimed
  <2>2. receipts[d].run \in Runs
    BY <1>2 DEF TypeOK, Receipt
  <2>3. status[receipts[d].run] \in Terminal
    BY <1>2, <2>1 DEF CompletedAbortEndedItsRun
  <2> QED
    BY <1>1, <1>2, <2>2, <2>3, TerminalStep
<1>3. CASE receipts'[d] # receipts[d]
  <2>1. PICK p \in Slots : /\ h[p].d = d /\ kind' = kind
                           /\ Claim(p) \/ MarkHandoffSent(p) \/ Settle(p)
    BY <1>3, ReceiptChanges
  <2>2. KindOf(p) = "abort"
    BY <2>1 DEF KindOf
  <2>3. ~Claim(p)
    <3>1. SUFFICES ASSUME ClaimControlDelivery(d, Issue(p), KindOf(p), Eligible(p))
                   PROVE  FALSE
      BY <1>3, <2>1 DEF Claim, ledgerVars
    <3>2. receipts'[d] = [issue |-> Issue(p), transition |-> KindOf(p),
                          run |-> Eligible(p), handoffSent |-> FALSE,
                          completed |-> FALSE]
      BY <3>1 DEF ClaimControlDelivery, TypeOK
    <3> QED
      BY <3>2
  <2>4. ~MarkHandoffSent(p)
    BY <2>2 DEF MarkHandoffSent, At, HandlersSound, Sound, Fits, KindOf
  <2>5. Settle(p) /\ h[p].pc = "settle" /\ receipts[d] # Nil /\ receipts[d].run = h[p].run
    BY <2>1, <2>3, <2>4 DEF Settle, At, AdvanceControlDelivery
  <2>6. receipts'[d].run = h[p].run
    BY <1>1, <2>5, BindingsStep
  <2>7. h[p].run \in Runs /\ status[h[p].run] \in Terminal
    BY <2>2, <2>5, <2>6 DEF HandlersHold, Holds, HandlersSound, Local
  <2> QED
    BY <1>1, <2>6, <2>7, TerminalStep
<1> QED
  BY <1>2, <1>3

\* What the handlers know about their receipts, at every moment.
LEMMA HandlersAlwaysHold == EntrySpec => [](HandlersHold /\ OnlyKnownClaimed)
<1>1. EntryInit => HandlersHold /\ OnlyKnownClaimed
  BY DEF EntryInit, Init, HandlersHold, Holds, HeldSteps, Idle, OnlyKnownClaimed
<1>2. TypeOK /\ HandlersSound /\ TerminalIsExplained /\ HandlersHold
        /\ OnlyKnownClaimed /\ [EntryNext]_vars => (HandlersHold /\ OnlyKnownClaimed)'
  BY HoldsStep
<1>3. EntrySpec => []TerminalIsExplained
  BY EntryImplementsLedger, LogExplainsTerminal, PTL
<1> QED
  BY <1>1, <1>2, <1>3, HandlersStaySound, PTL DEF EntrySpec

\* An abort reported done has ended the run it was bound to, across crashes,
\* redeliveries and whatever other handlers and agents do meanwhile.
THEOREM CompletedAbortsEnded == EntrySpec => []CompletedAbortEndedItsRun
<1>1. EntryInit => CompletedAbortEndedItsRun
  BY DEF EntryInit, Init, CompletedAbortEndedItsRun
<1>2. TypeOK /\ HandlersSound /\ HandlersHold /\ OnlyKnownClaimed
        /\ CompletedAbortEndedItsRun /\ [EntryNext]_vars => CompletedAbortEndedItsRun'
  BY CompletedStep
<1> QED
  BY <1>1, <1>2, HandlersStaySound, HandlersAlwaysHold, PTL DEF EntrySpec

\* Only its own steps move a handler.
LEMMA OnlyOwnSteps ==
    ASSUME HandlersSound, [EntryNext]_vars, NEW p \in Slots, h'[p] # h[p]
    PROVE  (\E d \in Deliveries : Receive(p, d)) \/ HandlerStep(p) \/ GiveUp(p)
<1>1. ASSUME NEW q \in Slots, NEW d \in Deliveries, Receive(q, d)
      PROVE  q = p
  BY <1>1 DEF Receive, HandlersSound
<1>2. ASSUME NEW q \in Slots, HandlerStep(q) \/ GiveUp(q)
      PROVE  q = p
  BY <1>2, OthersStay
<1>3. h' # h
  OBVIOUS
<1> QED
  BY <1>1, <1>2, <1>3 DEF EntryNext, AgentAsks, AgentEnds, AgentReports,
                          Retire, entryVars, vars

\* The append of an abort or resume moves no run but the one its receipt names.
THEOREM ControlsMoveTheirRun == EntrySpec => ControlMovesOnlyItsRun
<1> DEFINE OnlyItsRun ==
        \A p \in Slots :
          h[p].pc \in {"terminal", "resume"} /\ h'[p].pc = "settle" =>
              \A r \in Runs : status'[r] # status[r] =>
                                 receipts[h[p].d].run = r
<1>1. TypeOK /\ HandlersSound /\ HandlersHold /\ [EntryNext]_vars => [OnlyItsRun]_vars
  <2> SUFFICES ASSUME TypeOK, HandlersSound, HandlersHold, [EntryNext]_vars,
                      NEW p \in Slots, NEW r \in Runs,
                      h[p].pc \in {"terminal", "resume"}, h'[p].pc = "settle",
                      status'[r] # status[r]
               PROVE  receipts[h[p].d].run = r
    OBVIOUS
  <2>1. receipts[h[p].d].run = h[p].run
    BY DEF HandlersHold, Holds, HeldSteps
  <2>2. h'[p] # h[p]
    OBVIOUS
  <2>3. HandlerStep(p) \/ GiveUp(p)
    <3>1. ~ \E d \in Deliveries : Receive(p, d)
      BY DEF Receive, At
    <3> QED
      BY <2>2, <3>1, OnlyOwnSteps
  <2>4. RecordAborted(p) \/ RecordResumed(p)
    <3>1. ~GiveUp(p)
      BY DEF GiveUp, Return, Idle, HandlersSound
    <3>2. ~Accept(p) /\ ~AddRunningLabel(p) /\ ~Handoff(p) /\ ~FindActive(p)
      BY DEF At, Accept, AddRunningLabel, Handoff, FindActive
    <3>3. ~RecordStarted(p) /\ ~RecordFailed(p) /\ ~MarkHandoffSent(p)
      BY DEF At, RecordStarted, RecordFailed, MarkHandoffSent
    <3>4. ~Claim(p) /\ ~Unlabel(p) /\ ~Settle(p)
      BY DEF At, Claim, Unlabel, Settle
    <3> QED
      BY <2>3, <3>1, <3>2, <3>3, <3>4 DEF HandlerStep
  <2>5. \E e : AppendEvent(h[p].run, e)
    BY <2>4 DEF RecordAborted, RecordResumed, AppendOrReplay, ledgerVars
  <2>6. h[p].run = r
    BY <2>5 DEF AppendEvent, TypeOK
  <2> QED
    BY <2>1, <2>6
<1> QED
  BY <1>1, HandlersStaySound, HandlersAlwaysHold, PTL
     DEF EntrySpec, ControlMovesOnlyItsRun

-----------------------------------------------------------------------------
(* The history variables                                                   *)

\* A handoff is the only step that posts, and it posts once, for its delivery.
LEMMA PostsStep ==
    ASSUME EntryTypeOK, HandlersSound, [EntryNext]_vars
    PROVE  /\ posts' \in [Deliveries -> Nat]
           /\ \A d \in Deliveries :
                 \/ posts'[d] = posts[d]
                 \/ /\ posts'[d] = posts[d] + 1
                    /\ \E p \in Slots : Handoff(p) /\ h[p].d = d
<1>1. ASSUME NEW p \in Slots, Handoff(p)
      PROVE  /\ posts' \in [Deliveries -> Nat]
             /\ \A d \in Deliveries :
                   \/ posts'[d] = posts[d]
                   \/ posts'[d] = posts[d] + 1 /\ h[p].d = d
  <2>1. h[p].d \in Deliveries
    BY <1>1 DEF Handoff, At, HandlersSound, Sound
  <2>2. posts' = posts \/ posts' = [posts EXCEPT ![h[p].d] = posts[h[p].d] + 1]
    BY <1>1, Zenon DEF Handoff
  <2>3. posts \in [Deliveries -> Nat]
    BY DEF EntryTypeOK
  <2> QED
    BY <2>1, <2>2, <2>3
<1>2. ASSUME UNCHANGED posts
      PROVE  /\ posts' \in [Deliveries -> Nat]
             /\ \A d \in Deliveries : posts'[d] = posts[d]
  BY <1>2 DEF EntryTypeOK
<1> QED
  BY <1>1, <1>2
     DEF EntryNext, HandlerStep, Receive, GiveUp, Accept, AddRunningLabel,
         RecordStarted, RecordFailed, FindActive, Claim, Unlabel, RecordAborted,
         MarkHandoffSent, RecordResumed, Settle, AgentAsks, AgentEnds,
         AgentReports, Retire, entryVars, vars

LEMMA AgentsStep ==
    ASSUME EntryTypeOK, HandlersSound, [EntryNext]_vars
    PROVE  agents' \subseteq Runs
<1>1. ASSUME NEW p \in Slots, Handoff(p) PROVE agents' \subseteq Runs
  <2>1. h[p].run \in Runs
    BY <1>1 DEF Handoff, At, HandlersSound, Sound, Fits, RunSteps
  <2>2. agents' = agents \/ agents' = agents \cup {h[p].run}
    BY <1>1, Zenon DEF Handoff
  <2> QED
    BY <2>1, <2>2 DEF EntryTypeOK
<1>2. ASSUME NEW r \in Runs, AgentAsks(r) \/ AgentEnds(r) PROVE agents' \subseteq Runs
  BY <1>2 DEF AgentAsks, AgentEnds, EntryTypeOK
<1>3. ASSUME UNCHANGED agents PROVE agents' \subseteq Runs
  BY <1>3 DEF EntryTypeOK
<1> QED
  BY <1>1, <1>2, <1>3
     DEF EntryNext, HandlerStep, Receive, GiveUp, Accept, AddRunningLabel,
         RecordStarted, RecordFailed, FindActive, Claim, Unlabel, RecordAborted,
         MarkHandoffSent, RecordResumed, Settle, Retire, entryVars, vars

LEMMA ReceivedStep ==
    ASSUME received \in Nat, [EntryNext]_vars
    PROVE  received' \in Nat
<1>1. received' = received \/ received' = received + 1
  BY DEF EntryNext, HandlerStep, Receive, GiveUp, Accept, AddRunningLabel, Handoff,
         RecordStarted, RecordFailed, FindActive, Claim, Unlabel, RecordAborted,
         MarkHandoffSent, RecordResumed, Settle, AgentAsks, AgentEnds,
         AgentReports, Retire, entryVars, vars
<1> QED
  BY <1>1

\* Whatever the handlers keep, in the ledger and in themselves, has its type.
THEOREM HandlersTypeCorrect == EntrySpec => []EntryTypeOK
<1>1. EntryInit => EntryTypeOK
  BY EntryInitSound DEF EntryInit, EntryTypeOK, HandlersSound
<1>2. TypeOK /\ HandlersSound /\ EntryTypeOK /\ [EntryNext]_vars => EntryTypeOK'
  <2> SUFFICES ASSUME TypeOK, HandlersSound, EntryTypeOK, [EntryNext]_vars
               PROVE  EntryTypeOK'
    OBVIOUS
  <2>1. TypeOK' /\ HandlersSound'
    BY EntryStepSound, EntryCallsLedger, LedgerTypeStep
  <2>2. received' \in Nat
    BY ReceivedStep DEF EntryTypeOK
  <2> QED
    BY <2>1, <2>2, PostsStep, AgentsStep DEF EntryTypeOK, HandlersSound
<1> QED
  BY <1>1, <1>2, HandlersStaySound, PTL DEF EntrySpec

-----------------------------------------------------------------------------
(* One handoff per trigger                                                 *)

\* A handler that may still hand off a trigger's run.
Pending(p) == h[p].pc \in {"label", "handoff"} /\ KindOf(p) = "trigger"

\* Such a handler owns the binding of its delivery, alone, and nothing was
\* handed off yet; nor was anything for a trigger that is not bound.
TriggersOwned ==
    /\ \A p \in Slots : Pending(p) => /\ bound[h[p].d] # Nil
                                      /\ posts[h[p].d] = 0
    /\ \A p, q \in Slots :
          Pending(p) /\ Pending(q) /\ h[p].d = h[q].d => p = q
    /\ \A d \in Deliveries :
          \/ kind[d] = Nil
          \/ kind[d] = "trigger" /\ bound[d] = Nil
          => posts[d] = 0

\* A handler comes to own a binding only by an acceptance.
LEMMA PendingStep ==
    ASSUME TypeOK, HandlersSound, [EntryNext]_vars, NEW p \in Slots, Pending(p)'
    PROVE  /\ h[p].pc # "idle" /\ h'[p].d = h[p].d /\ KindOf(p) = "trigger"
           /\ \/ Pending(p) /\ ~Handoff(p)
              \/ \E r \in Runs : Accept(p) /\ AcceptDelivery(h[p].d, Issue(p), r)
<1>1. ~Handoff(p)
  BY HandoffMoves DEF Pending, Goto, Return, Idle, HandlersSound, Local
<1>2. CASE h'[p] = h[p]
  <2>1. h[p].pc # "idle" /\ kind[h[p].d] # Nil /\ h[p].d \in Deliveries
    BY <1>2, EntryAssumption DEF Pending, HandlersSound, Sound
  <2>2. KindOf(p) = "trigger"
    BY <1>2, <2>1, KindStays DEF Pending, KindOf
  <2> QED
    BY <1>1, <1>2, <2>1, <2>2 DEF Pending
<1>3. CASE h'[p] # h[p]
  <2>1. CASE \E d \in Deliveries : Receive(p, d)
    BY <2>1 DEF Pending, Receive, Idle, HandlersSound
  <2>2. CASE Accept(p)
    <3>1. ~Return(p)
      BY DEF Pending, Return, Idle, HandlersSound
    <3>2. PICK r \in Runs : /\ AcceptDelivery(h[p].d, Issue(p), r)
                            /\ h' = [h EXCEPT ![p].pc = "label", ![p].run = r]
      BY <2>2, <3>1 DEF Accept
    <3>3. h'[p].d = h[p].d
      BY <3>2 DEF HandlersSound, Local
    <3>4. h[p].pc # "idle" /\ KindOf(p) = "trigger"
      BY <2>2 DEF Accept, At, HandlersSound, Sound, Fits, TriggerSteps, KindOf
    <3> QED
      BY <2>2, <3>2, <3>3, <3>4
  <2>3. CASE AddRunningLabel(p)
    <3>1. h[p].pc = "label" /\ KindOf(p) = "trigger"
      BY <2>3 DEF AddRunningLabel, At, HandlersSound, Sound, Fits, TriggerSteps, KindOf
    <3>2. h'[p].d = h[p].d
      BY <2>3 DEF AddRunningLabel, Goto, HandlersSound, Local
    <3> QED
      BY <1>1, <3>1, <3>2 DEF Pending
  <2>4. CASE Unlabel(p)
    <3>1. h'[p].pc = "handoff" => KindOf(p) = "resume"
      BY <2>4 DEF Unlabel, Goto, HandlersSound, Local
    <3>2. KindOf(p)' = KindOf(p)
      BY <2>4 DEF Unlabel, Goto, HandlersSound, Local, KindOf
    <3>3. h'[p].pc # "label"
      BY <2>4 DEF Unlabel, Goto, HandlersSound, Local
    <3> QED
      BY <3>1, <3>2, <3>3 DEF Pending
  <2>5. CASE FindActive(p)
    <3>1. h'[p].pc = "claim"
      BY <2>5, FindActiveMoves
    <3> QED
      BY <3>1 DEF Pending
  <2>6. CASE Claim(p)
    <3> DEFINE y(s) == [[[Idle EXCEPT !.pc = s] EXCEPT !.d = h[p].d]
                            EXCEPT !.run = receipts'[h[p].d].run]
    <3>1. PICK s \in {"idle", "settle", "unlabel", "resume"} :
              Return(p) \/ h' = [h EXCEPT ![p] = y(s)]
      BY <2>6, ClaimDecides
    <3>2. y(s).pc = s
      BY DEF Idle
    <3>3. h'[p] = Idle \/ h'[p] = y(s)
      BY <3>1 DEF Return, HandlersSound
    <3>4. Idle.pc = "idle"
      BY DEF Idle
    <3> HIDE DEF y
    <3>5. h'[p].pc \in {"idle", s}
      BY <3>2, <3>3, <3>4
    <3> QED
      BY <3>5 DEF Pending
  <2>7. CASE RecordAborted(p) \/ MarkHandoffSent(p) \/ RecordResumed(p)
    <3>1. Goto(p, "settle") \/ Goto(p, "resume")
      BY <2>7 DEF RecordAborted, MarkHandoffSent, RecordResumed
    <3>2. h'[p].pc \in {"settle", "resume"}
      BY <3>1 DEF Goto, HandlersSound, Local
    <3> QED
      BY <3>2 DEF Pending
  <2>8. CASE RecordStarted(p) \/ RecordFailed(p) \/ Settle(p) \/ GiveUp(p)
    <3>1. Return(p)
      BY <2>8 DEF RecordStarted, RecordFailed, Settle, GiveUp
    <3>2. h'[p].pc = "idle"
      BY <3>1 DEF Return, Idle, HandlersSound
    <3> QED
      BY <3>2 DEF Pending
  <2>9. (\E d \in Deliveries : Receive(p, d)) \/ HandlerStep(p) \/ GiveUp(p)
    BY <1>3, OnlyOwnSteps
  <2> QED
    BY <1>1, <2>1, <2>2, <2>3, <2>4, <2>5, <2>6, <2>7, <2>8, <2>9
       DEF HandlerStep
<1> QED
  BY <1>2, <1>3

LEMMA TriggersOwnedStep ==
    ASSUME EntryTypeOK, HandlersSound, TriggersOwned, [EntryNext]_vars
    PROVE  TriggersOwned'
<1> USE DEF EntryTypeOK
<1>1. [Next]_ledgerVars
  BY EntryCallsLedger
<1>2. ASSUME NEW p \in Slots, Pending(p)
      PROVE  h[p].d \in Deliveries /\ kind[h[p].d] = "trigger"
  BY <1>2 DEF Pending, HandlersSound, Sound, KindOf
<1>3. ASSUME NEW p \in Slots, Pending(p)'
      PROVE  bound'[h'[p].d] # Nil /\ posts'[h'[p].d] = 0
  <2>1. /\ h[p].d \in Deliveries /\ h'[p].d = h[p].d /\ kind[h[p].d] = "trigger"
        /\ posts[h[p].d] = 0 /\ bound'[h[p].d] # Nil
    <3>1. CASE Pending(p)
      BY <1>1, <1>2, <1>3, <3>1, PendingStep, BindingsStep DEF TriggersOwned
    <3>2. CASE \E r \in Runs : AcceptDelivery(h[p].d, Issue(p), r)
      <4>1. h[p].d \in Deliveries /\ h'[p].d = h[p].d /\ kind[h[p].d] = "trigger"
        BY <1>3, PendingStep DEF HandlersSound, Sound, KindOf
      <4>2. bound[h[p].d] = Nil /\ bound'[h[p].d] # Nil
        BY <3>2, <4>1, LedgerAssumption DEF AcceptDelivery, InsertRun, TypeOK
      <4> QED
        BY <4>1, <4>2 DEF TriggersOwned
    <3> QED
      BY <1>3, <3>1, <3>2, PendingStep
  <2>2. ~ \E q \in Slots : Handoff(q) /\ h[q].d = h[p].d
    <3> SUFFICES ASSUME NEW q \in Slots, Handoff(q), h[q].d = h[p].d
                 PROVE  FALSE
      OBVIOUS
    <3>1. Pending(q)
      BY <2>1, HandoffMoves DEF Pending, KindOf
    <3>2. CASE Pending(p) /\ ~Handoff(p)
      BY <3>1, <3>2 DEF TriggersOwned
    <3>3. CASE \E r \in Runs : AcceptDelivery(h[p].d, Issue(p), r)
      BY <3>1, <3>3 DEF TriggersOwned, AcceptDelivery
    <3> QED
      BY <1>3, <3>2, <3>3, PendingStep
  <2> QED
    BY <2>1, <2>2, PostsStep
<1>4. ASSUME NEW p \in Slots, NEW q \in Slots, Pending(p)', Pending(q)',
             h'[p].d = h'[q].d
      PROVE  p = q
  <2>1. h[p].d = h[q].d
    BY <1>4, PendingStep
  <2>2. CASE Pending(p) /\ Pending(q)
    BY <2>1, <2>2 DEF TriggersOwned
  <2>3. CASE \E r \in Runs : Accept(p) /\ AcceptDelivery(h[p].d, Issue(p), r)
    <3>1. ~Pending(q)
      BY <2>1, <2>3 DEF TriggersOwned, AcceptDelivery
    <3>2. Accept(q)
      BY <1>4, <3>1, PendingStep
    <3>3. SUFFICES ASSUME p # q PROVE FALSE
      OBVIOUS
    <3>4. h'[q] = h[q]
      BY <2>3, <3>3, OthersStay DEF HandlerStep
    <3> QED
      BY <1>4, <3>2, <3>4 DEF Pending, Accept, At
  <2>4. CASE \E r \in Runs : Accept(q) /\ AcceptDelivery(h[q].d, Issue(q), r)
    <3>1. ~Pending(p)
      BY <2>1, <2>4 DEF TriggersOwned, AcceptDelivery
    <3>2. Accept(p)
      BY <1>4, <3>1, PendingStep
    <3>3. SUFFICES ASSUME p # q PROVE FALSE
      OBVIOUS
    <3>4. h'[p] = h[p]
      BY <2>4, <3>3, OthersStay DEF HandlerStep
    <3> QED
      BY <1>4, <3>2, <3>4 DEF Pending, Accept, At
  <2> QED
    BY <1>4, <2>2, <2>3, <2>4, PendingStep
<1>5. ASSUME NEW d \in Deliveries,
             kind'[d] = Nil \/ (kind'[d] = "trigger" /\ bound'[d] = Nil)
      PROVE  posts'[d] = 0
  <2>1. kind[d] = Nil \/ (kind[d] = "trigger" /\ bound[d] = Nil)
    BY <1>1, <1>5, KindStays, BindingsStep
  <2>2. posts[d] = 0
    BY <2>1 DEF TriggersOwned
  <2>3. ~ \E q \in Slots : Handoff(q) /\ h[q].d = d
    <3> SUFFICES ASSUME NEW q \in Slots, Handoff(q), h[q].d = d
                 PROVE  FALSE
      OBVIOUS
    <3>1. kind[d] # Nil
      BY HandoffMoves, EntryAssumption DEF HandlersSound, Sound
    <3>2. Pending(q)
      BY <2>1, <3>1, HandoffMoves DEF Pending, KindOf
    <3> QED
      BY <2>1, <3>1, <3>2 DEF TriggersOwned
  <2> QED
    BY <2>2, <2>3, PostsStep
<1> QED
  BY <1>3, <1>4, <1>5 DEF TriggersOwned

\* However many times and to however many handlers a trigger is delivered, its
\* run is handed to the session API at most once.
THEOREM TriggersHandedOffOnce == EntrySpec => []TriggerIsHandedOffOnce
<1>1. EntryInit => TriggersOwned /\ TriggerIsHandedOffOnce
  BY DEF EntryInit, TriggersOwned, Pending, Idle, TriggerIsHandedOffOnce
<1>2. EntryTypeOK /\ HandlersSound /\ TriggersOwned /\ [EntryNext]_vars => TriggersOwned'
  BY TriggersOwnedStep
<1>3. EntryTypeOK /\ HandlersSound /\ TriggersOwned /\ TriggerIsHandedOffOnce
        /\ [EntryNext]_vars => TriggerIsHandedOffOnce'
  <2> SUFFICES ASSUME EntryTypeOK, HandlersSound, TriggersOwned,
                      TriggerIsHandedOffOnce, [EntryNext]_vars,
                      NEW d \in Deliveries, kind'[d] = "trigger"
               PROVE  posts'[d] <= 1
    BY DEF TriggerIsHandedOffOnce
  <2>1. posts[d] \in Nat /\ posts[d] <= 1
    <3>1. kind[d] = Nil \/ kind[d] = "trigger"
      BY KindStays
    <3> QED
      BY <3>1 DEF TriggersOwned, TriggerIsHandedOffOnce, EntryTypeOK
  <2>2. ASSUME NEW p \in Slots, Handoff(p), h[p].d = d
        PROVE  posts[d] = 0
    <3>1. kind[d] = "trigger"
      BY <2>2, KindStays, HandoffMoves, EntryAssumption DEF HandlersSound, Sound
    <3> QED
      BY <2>2, <3>1, HandoffMoves DEF TriggersOwned, Pending, KindOf
  <2> QED
    BY <2>1, <2>2, PostsStep
<1> QED
  BY <1>1, <1>2, <1>3, HandlersStaySound, HandlersTypeCorrect, PTL DEF EntrySpec

-----------------------------------------------------------------------------
(* Questions and resumes                                                   *)

Asked(r) == \E e \in log[r] : e.type = "worker.question"
Resumed(r) == \E e \in log[r] : e.type = "run.resumed"
Answered(r) == Resumed(r) \/ status[r] \in Terminal

\* A run is parked by a question in its log, and a question leaves the run
\* parked until somebody answers it.
QuestionsTold ==
    \A r \in Runs :
        /\ status[r] = "none" => log[r] = {}
        /\ status[r] = "blocked" => Asked(r)
        /\ Asked(r) => status[r] = "blocked" \/ Answered(r)

\* An event that parks its run is the question it is parked on.
LEMMA AppendParks ==
    ASSUME TypeOK, NEW q \in Runs, NEW e, AppendEvent(q, e),
           e.status # Nil, e.status = "blocked" => e.type = "worker.question",
           NEW r \in Runs, status'[r] = "blocked"
    PROVE  status[r] = "blocked" \/ Asked(r)'
<1>1. CASE r # q
  BY <1>1 DEF AppendEvent, TypeOK
<1>2. CASE r = q
  <2>1. status'[r] = e.status /\ log'[r] = log[r] \cup {e}
    BY <1>2 DEF AppendEvent, TypeOK, StatusAfter
  <2> QED
    BY <2>1 DEF Asked
<1> QED
  BY <1>1, <1>2

\* Nothing but an agent's question parks a run.
LEMMA OnlyQuestionsPark ==
    ASSUME TypeOK, HandlersSound, [EntryNext]_vars,
           NEW r \in Runs, status'[r] = "blocked"
    PROVE  status[r] = "blocked" \/ Asked(r)'
<1>1. Nil \notin RunStatus
  BY StatusesApart
<1>2. ASSUME NEW p \in Slots, Accept(p) PROVE status[r] = "blocked"
  <2>1. \/ \E q \in Runs : AcceptDelivery(h[p].d, Issue(p), q)
        \/ UNCHANGED ledgerVars
    BY <1>2 DEF Accept
  <2> QED
    BY <2>1 DEF AcceptDelivery, InsertRun, TypeOK, ledgerVars
<1>3. ASSUME NEW p \in Slots, h[p].pc \in RunSteps PROVE h[p].run \in Runs
  BY <1>3 DEF HandlersSound, Sound, Fits, RunSteps
<1>4. ASSUME NEW p \in Slots, RecordStarted(p)
      PROVE  status[r] = "blocked" \/ Asked(r)'
  <2> DEFINE e == [id |-> EventId(p, "dispatch-started"),
                   type |-> "dispatch.started", status |-> "running"]
  <2>1. h[p].run \in Runs /\ AppendEvent(h[p].run, e)
    BY <1>3, <1>4 DEF RecordStarted, At, RunSteps
  <2>2. e.status # Nil /\ e.status # "blocked"
    BY LedgerAssumption
  <2> HIDE DEF e
  <2> QED
    BY <2>1, <2>2, AppendParks
<1>5. ASSUME NEW q \in Runs, NEW p, NEW t, NEW s \in Terminal,
             AppendEvent(q, TerminalEvent(p, t, s))
      PROVE  status[r] = "blocked" \/ Asked(r)'
  <2> DEFINE e == TerminalEvent(p, t, s)
  <2>1. e.status # Nil /\ e.status # "blocked"
    BY LedgerAssumption DEF TerminalEvent, Terminal
  <2> HIDE DEF e
  <2>2. AppendEvent(q, e)
    BY <1>5 DEF e
  <2> QED
    BY <2>1, <2>2, AppendParks
<1>6. ASSUME NEW p \in Slots, RecordFailed(p)
      PROVE  status[r] = "blocked" \/ Asked(r)'
  BY <1>3, <1>5, <1>6 DEF RecordFailed, RunSteps, Terminal
<1>7. ASSUME NEW p \in Slots, RecordAborted(p)
      PROVE  status[r] = "blocked" \/ Asked(r)'
  <2>1. h[p].run \in Runs
    BY <1>3, <1>7 DEF RecordAborted, At, RunSteps
  <2>2. AppendEvent(h[p].run, TerminalEvent(p, "abort", "aborted"))
           \/ UNCHANGED ledgerVars
    BY <1>7 DEF RecordAborted, AppendOrReplay
  <2>3. CASE UNCHANGED ledgerVars
    BY <2>3 DEF ledgerVars
  <2> QED
    BY <1>5, <2>1, <2>2, <2>3 DEF Terminal
<1>8. ASSUME NEW p \in Slots, RecordResumed(p)
      PROVE  status[r] = "blocked" \/ Asked(r)'
  <2> DEFINE e == [id |-> EventId(p, "resume"), type |-> "run.resumed",
                   status |-> "running"]
  <2>1. h[p].run \in Runs /\ (AppendEvent(h[p].run, e) \/ UNCHANGED ledgerVars)
    BY <1>3, <1>8 DEF RecordResumed, At, RunSteps, AppendOrReplay
  <2>2. e.status # Nil /\ e.status # "blocked"
    BY LedgerAssumption
  <2>3. CASE UNCHANGED ledgerVars
    BY <2>3 DEF ledgerVars
  <2> HIDE DEF e
  <2> QED
    BY <2>1, <2>2, <2>3, AppendParks
<1>9. ASSUME NEW p \in Slots,
             \/ AddRunningLabel(p) \/ Handoff(p) \/ FindActive(p) \/ Claim(p)
             \/ Unlabel(p) \/ MarkHandoffSent(p) \/ Settle(p) \/ GiveUp(p)
             \/ \E d \in Deliveries : Receive(p, d)
      PROVE  status' = status
  BY <1>9 DEF AddRunningLabel, Handoff, FindActive, Claim, Unlabel,
              MarkHandoffSent, Settle, GiveUp, Receive, ClaimControlDelivery,
              AdvanceControlDelivery, ledgerVars
<1>10. ASSUME NEW q \in Runs, AgentAsks(q)
       PROVE  status[r] = "blocked" \/ Asked(r)'
  <2>1. PICK n \in Questions :
            AppendEvent(q, [id |-> <<"agent", n>>, type |-> "worker.question",
                            status |-> "blocked"])
    BY <1>10 DEF AgentAsks, AgentReports
  <2> DEFINE e == [id |-> <<"agent", n>>, type |-> "worker.question",
                   status |-> "blocked"]
  <2>2. AppendEvent(q, e) /\ e.status # Nil /\ e.type = "worker.question"
    BY <2>1, LedgerAssumption
  <2> HIDE DEF e
  <2> QED
    BY <2>2, AppendParks
<1>11. ASSUME NEW q \in Runs, AgentEnds(q)
       PROVE  status[r] = "blocked" \/ Asked(r)'
  <2>1. PICK s \in {"succeeded", "failed"} :
            AppendEvent(q, [id |-> <<"agent", "end">>, type |-> "run.terminal",
                            status |-> s])
    BY <1>11 DEF AgentEnds, AgentReports
  <2> DEFINE e == [id |-> <<"agent", "end">>, type |-> "run.terminal", status |-> s]
  <2>2. AppendEvent(q, e) /\ e.status # Nil /\ e.status # "blocked"
    BY <2>1, LedgerAssumption
  <2> HIDE DEF e
  <2> QED
    BY <2>2, AppendParks
<1>12. ASSUME NEW i \in Issues, Retire(i)
       PROVE  status[r] = "blocked" \/ Asked(r)'
  <2> DEFINE e == [id |-> RetireId, type |-> "run.terminal", status |-> "aborted"]
  <2>1. PICK q \in Runs : AppendEvent(q, e)
    BY <1>12 DEF Retire, RetireRunClaim, ActiveRuns
  <2>2. e.status # Nil /\ e.status # "blocked"
    BY LedgerAssumption
  <2> HIDE DEF e
  <2> QED
    BY <2>1, <2>2, AppendParks
<1>13. CASE UNCHANGED vars
  BY <1>13 DEF vars, ledgerVars
<1> QED
  BY <1>2, <1>4, <1>6, <1>7, <1>8, <1>9, <1>10, <1>11, <1>12, <1>13
     DEF EntryNext, HandlerStep

\* What the log says of a question or a resumption, it says for good.
LEMMA ToldForGood ==
    ASSUME TypeOK, QuestionsTold, [Next]_ledgerVars, NEW r \in Runs
    PROVE  /\ Asked(r) => Asked(r)'
           /\ Answered(r) => Answered(r)'
<1>1. CASE status[r] = "none"
  BY <1>1, StatusesApart
     DEF QuestionsTold, Asked, Answered, Resumed, RunStatus
<1>2. CASE status[r] # "none"
  BY <1>2, LedgerGrows DEF Asked, Answered, Resumed
<1> QED
  BY <1>1, <1>2

\* A question parks its run, and only an answer or the end lets it move.
LEMMA AskedStep ==
    ASSUME TypeOK, QuestionsTold, [Next]_ledgerVars, NEW r \in Runs, Asked(r)'
    PROVE  status'[r] = "blocked" \/ Answered(r)'
<1>1. ASSUME NEW d \in Deliveries, NEW i \in Issues, NEW q \in Runs,
             AcceptDelivery(d, i, q)
      PROVE  status'[r] = "blocked" \/ Answered(r)'
  <2>1. q # r
    BY <1>1, AcceptEffect DEF Asked
  <2>2. status'[r] = status[r] /\ log'[r] = log[r]
    BY <1>1, <2>1 DEF AcceptDelivery, InsertRun, TypeOK
  <2> QED
    BY <2>2 DEF QuestionsTold, Asked, Answered, Resumed
<1>2. ASSUME NEW q \in Runs, NEW e \in Event, AppendEvent(q, e)
      PROVE  status'[r] = "blocked" \/ Answered(r)'
  <2>1. CASE q # r
    <3>1. status'[r] = status[r] /\ log'[r] = log[r]
      BY <1>2, <2>1, AppendEffect
    <3> QED
      BY <3>1 DEF QuestionsTold, Asked, Answered, Resumed
  <2>2. CASE q = r /\ Asked(r)
    <3>1. status[r] = "blocked" \/ Resumed(r)
      BY <1>2, <2>2, AppendMoves DEF QuestionsTold, Answered
    <3>2. CASE Resumed(r)
      BY <2>2, <3>2, ToldForGood DEF Answered
    <3>3. CASE status[r] = "blocked"
      <4>1. e.type \in {"run.resumed", "run.terminal"}
        BY <1>2, <2>2, <3>3 DEF AppendEvent, Applies
      <4>2. log'[r] = log[r] \cup {e}
        BY <1>2, <2>2, AppendEffect
      <4>3. CASE e.type = "run.resumed"
        BY <4>2, <4>3 DEF Answered, Resumed
      <4>4. CASE e.type = "run.terminal"
        BY <1>2, <2>2, <4>4, AppendMoves DEF Answered
      <4> QED
        BY <4>1, <4>3, <4>4
    <3> QED
      BY <3>1, <3>2, <3>3
  <2>3. CASE q = r /\ ~Asked(r)
    <3>1. log'[r] = log[r] \cup {e} /\ status'[r] = StatusAfter(e, status[r])
      BY <1>2, <2>3, AppendEffect
    <3>2. e.type = "worker.question"
      BY <2>3, <3>1 DEF Asked
    <3>3. e.status = "blocked"
      BY <3>2 DEF Event, WellFormed
    <3> QED
      BY <3>1, <3>3, LedgerAssumption DEF StatusAfter
  <2> QED
    BY <2>1, <2>2, <2>3
<1>3. ASSUME UNCHANGED <<status, log>>
      PROVE  status'[r] = "blocked" \/ Answered(r)'
  BY <1>3 DEF QuestionsTold, Asked, Answered, Resumed
<1> QED
  BY <1>1, <1>2, <1>3, StepCases
     DEF ClaimControlDelivery, AdvanceControlDelivery, ledgerVars

\* Only an accepted run has a log.
LEMMA UnbornStep ==
    ASSUME TypeOK, QuestionsTold, [Next]_ledgerVars,
           NEW r \in Runs, status'[r] = "none"
    PROVE  log'[r] = {}
<1>1. status[r] = "none" /\ log[r] = {}
  BY LedgerGrows DEF QuestionsTold
<1>2. ASSUME NEW d \in Deliveries, NEW i \in Issues, NEW q \in Runs,
             AcceptDelivery(d, i, q)
      PROVE  log'[r] = {}
  <2>1. q # r
    BY <1>2, AcceptEffect
  <2> QED
    BY <1>1, <1>2, <2>1 DEF AcceptDelivery, InsertRun, TypeOK
<1>3. ASSUME NEW q \in Runs, NEW e \in Event, AppendEvent(q, e)
      PROVE  log'[r] = {}
  BY <1>1, <1>3 DEF AppendEvent, TypeOK
<1>4. ASSUME UNCHANGED log PROVE log'[r] = {}
  BY <1>1, <1>4
<1> QED
  BY <1>2, <1>3, <1>4, StepCases
     DEF ClaimControlDelivery, AdvanceControlDelivery, ledgerVars

LEMMA QuestionsToldStep ==
    ASSUME TypeOK, HandlersSound, QuestionsTold, [EntryNext]_vars
    PROVE  QuestionsTold'
<1> SUFFICES ASSUME NEW r \in Runs
             PROVE  /\ status'[r] = "none" => log'[r] = {}
                    /\ status'[r] = "blocked" => Asked(r)'
                    /\ Asked(r)' => status'[r] = "blocked" \/ Answered(r)'
  BY DEF QuestionsTold, Asked, Answered, Resumed
<1>1. [Next]_ledgerVars
  BY EntryCallsLedger
<1>2. ASSUME status'[r] = "blocked" PROVE Asked(r)'
  BY <1>1, <1>2, OnlyQuestionsPark, ToldForGood DEF QuestionsTold
<1> QED
  BY <1>1, <1>2, UnbornStep, AskedStep

\* A resume handler that saw a parked run saw one that had asked; a receipt of
\* a resume names a run that had asked, and is completed only once that run was
\* answered, which is what a handler about to settle it has seen.
SawQuestion(x) ==
    x.active # Nil /\ x.activeStatus = "blocked" => Asked(x.active)

BoundToQuestion(d) ==
    receipts[d] # Nil /\ receipts[d].run # Nil =>
        /\ Asked(receipts[d].run)
        /\ receipts[d].completed => Answered(receipts[d].run)

ResumesSound ==
    /\ \A p \in Slots :
          /\ SawQuestion(h[p])
          /\ h[p].pc = "settle" /\ KindOf(p) = "resume" /\ h[p].run # Nil
                => Answered(h[p].run)
    /\ \A d \in Deliveries :
          /\ kind[d] = Nil => posts[d] = 0
          /\ kind[d] = "resume" =>
                /\ BoundToQuestion(d)
                /\ posts[d] > 0 => receipts[d] # Nil /\ receipts[d].run # Nil

\* A handler that names an active run has looked it up, now or before.
LEMMA LookupStep ==
    ASSUME TypeOK, HandlersSound, [EntryNext]_vars, NEW p \in Slots,
           h'[p].active # Nil
    PROVE  \/ h'[p].active = h[p].active /\ h'[p].activeStatus = h[p].activeStatus
           \/ h'[p].active \in Runs /\ h'[p].activeStatus = status[h'[p].active]
<1> DEFINE Same == /\ h'[p].active = h[p].active
                   /\ h'[p].activeStatus = h[p].activeStatus
<1>1. CASE h'[p] = h[p]
  BY <1>1
<1>2. CASE \E d \in Deliveries : Receive(p, d)
  BY <1>2 DEF Receive, HandlersSound, Idle
<1>3. ASSUME Return(p) PROVE FALSE
  BY <1>3 DEF Return, HandlersSound, Idle
<1>4. ASSUME NEW s, Goto(p, s) PROVE Same
  BY <1>4 DEF Goto, HandlersSound, Local
<1>5. CASE Accept(p)
  <2>1. PICK r \in Runs : h' = [h EXCEPT ![p].pc = "label", ![p].run = r]
    BY <1>3, <1>5 DEF Accept
  <2> QED
    BY <2>1 DEF HandlersSound, Local
<1>6. CASE FindActive(p)
  <2>1. CASE \E r \in ActiveRuns(Issue(p)) :
                h' = [h EXCEPT ![p].pc = "claim", ![p].active = r,
                               ![p].activeStatus = status[r]]
    <3>1. PICK r \in ActiveRuns(Issue(p)) :
                h' = [h EXCEPT ![p].pc = "claim", ![p].active = r,
                               ![p].activeStatus = status[r]]
      BY <2>1
    <3>2. r \in Runs
      BY DEF ActiveRuns
    <3>3. h'[p].active = r /\ h'[p].activeStatus = status[r]
      BY <3>1 DEF HandlersSound, Local
    <3> QED
      BY <3>2, <3>3
  <2> QED
    BY <1>4, <1>6, <2>1 DEF FindActive
<1>7. CASE Claim(p)
  <2> DEFINE y(s) == [[[Idle EXCEPT !.pc = s] EXCEPT !.d = h[p].d]
                          EXCEPT !.run = receipts'[h[p].d].run]
  <2>1. PICK s \in {"settle", "unlabel", "resume"} :
            Return(p) \/ h' = [h EXCEPT ![p] = y(s)]
    BY <1>7, ClaimDecides
  <2> QED
    BY <1>3, <2>1 DEF Idle, HandlersSound
<1>8. CASE Handoff(p)
  BY <1>3, <1>4, <1>8, HandoffMoves
<1>9. CASE \/ AddRunningLabel(p) \/ Unlabel(p) \/ RecordAborted(p)
           \/ MarkHandoffSent(p) \/ RecordResumed(p)
  BY <1>4, <1>9 DEF AddRunningLabel, Unlabel, RecordAborted, MarkHandoffSent,
                    RecordResumed
<1>10. CASE RecordStarted(p) \/ RecordFailed(p) \/ Settle(p) \/ GiveUp(p)
  BY <1>3, <1>10 DEF RecordStarted, RecordFailed, Settle, GiveUp
<1> QED
  BY <1>1, <1>2, <1>5, <1>6, <1>7, <1>8, <1>9, <1>10, OnlyOwnSteps DEF HandlerStep

\* A resume settles a receipt that names a run only when it read that run as
\* running or over.
LEMMA ResumeSettles ==
    ASSUME NEW x
    PROVE  ResumeStep(x) = "settle" /\ x.run # Nil
              => x.runStatus \in Terminal \/ x.runStatus = "running"
BY DEF ResumeStep

LEMMA ClaimSettles ==
    ASSUME TypeOK, HandlersSound, NEW p \in Slots, Claim(p), KindOf(p) = "resume",
           h'[p].pc = "settle"
    PROVE  /\ h'[p].run = receipts'[h[p].d].run
           /\ h'[p].run # Nil =>
                 status[h'[p].run] \in Terminal \/ status[h'[p].run] = "running"
<1> DEFINE d == h[p].d
<1>1. h[p] \in Local /\ d \in Deliveries
  BY DEF Claim, At, HandlersSound, Sound
<1>2. ASSUME NEW x, Decide(p, x)
      PROVE  h'[p].run = x.run /\ ResumeStep(x) = "settle"
  <2> DEFINE next == ResumeStep(x)
  <2>1. next \in {"idle", "settle", "unlabel", "resume"}
    BY ResumeDecides
  <2>2. h'[p] = IF next = "idle" THEN Idle
                ELSE [Idle EXCEPT !.pc = next, !.d = x.d, !.run = x.run]
    BY <1>2, Zenon DEF Decide, HandlersSound
  <2>3. next # "idle"
    BY <2>2 DEF Idle
  <2> HIDE DEF next
  <2>4. h'[p].pc = next /\ h'[p].run = x.run
    BY <2>2, <2>3 DEF Idle
  <2> QED
    BY <2>4 DEF next
<1>3. CASE /\ ClaimControlDelivery(d, Issue(p), KindOf(p), Eligible(p))
           /\ Decide(p, Seen(p, Eligible(p), FALSE, FALSE, FALSE))
  <2> DEFINE x == Seen(p, Eligible(p), FALSE, FALSE, FALSE)
  <2>1. h'[p].run = x.run /\ ResumeStep(x) = "settle"
    BY <1>2, <1>3
  <2>2. x.run = Eligible(p) /\ (Eligible(p) # Nil => x.runStatus = status[Eligible(p)])
    BY <1>1 DEF Seen, Local
  <2>3. receipts'[d].run = Eligible(p)
    BY <1>1, <1>3 DEF ClaimControlDelivery, TypeOK
  <2> HIDE DEF x
  <2> QED
    BY <2>1, <2>2, <2>3, ResumeSettles
<1>4. CASE /\ receipts[d] # Nil
           /\ Decide(p, Seen(p, receipts[d].run, receipts[d].handoffSent,
                             receipts[d].completed, TRUE))
           /\ UNCHANGED ledgerVars
  <2> DEFINE x == Seen(p, receipts[d].run, receipts[d].handoffSent,
                       receipts[d].completed, TRUE)
  <2>1. h'[p].run = x.run /\ ResumeStep(x) = "settle"
    BY <1>2, <1>4
  <2>2. /\ x.run = receipts[d].run
        /\ receipts[d].run # Nil => x.runStatus = status[receipts[d].run]
    BY <1>1 DEF Seen, Local
  <2>3. receipts'[d].run = receipts[d].run
    BY <1>4 DEF ledgerVars
  <2> HIDE DEF x
  <2> QED
    BY <2>1, <2>2, <2>3, ResumeSettles
<1> QED
  BY <1>3, <1>4 DEF Claim

LEMMA SawQuestionStep ==
    ASSUME TypeOK, HandlersSound, QuestionsTold, ResumesSound, [EntryNext]_vars,
           NEW p \in Slots
    PROVE  SawQuestion(h[p])'
<1> SUFFICES ASSUME h'[p].active # Nil, h'[p].activeStatus = "blocked"
             PROVE  Asked(h[p].active)'
  BY DEF SawQuestion, Asked
<1>1. h'[p] \in Local
  BY EntryStepSound DEF HandlersSound
<1>2. PICK r \in Runs : r = h'[p].active
  BY <1>1 DEF Local
<1>3. Asked(r)
  BY <1>2, LookupStep DEF ResumesSound, SawQuestion, QuestionsTold
<1>4. Asked(r)'
  BY <1>2, <1>3, EntryCallsLedger, ToldForGood
<1> QED
  BY <1>2, <1>4 DEF Asked

\* What a step leaves in the receipt of a resume.
LEMMA BoundStep ==
    ASSUME TypeOK, HandlersSound, HandlersHold, OnlyKnownClaimed, QuestionsTold,
           ResumesSound, [EntryNext]_vars,
           NEW d \in Deliveries, kind'[d] = "resume"
    PROVE  BoundToQuestion(d)'
<1> SUFFICES ASSUME receipts'[d] # Nil, receipts'[d].run # Nil
             PROVE  /\ Asked(receipts[d].run)'
                    /\ receipts'[d].completed => Answered(receipts[d].run)'
  BY DEF BoundToQuestion, Asked, Answered, Resumed
<1>1. [Next]_ledgerVars /\ TypeOK'
  BY EntryCallsLedger, LedgerTypeStep
<1>2. PICK r \in Runs : r = receipts'[d].run
  BY <1>1 DEF TypeOK, Receipt
<1>3. Asked(r)' /\ (receipts'[d].completed => Answered(r)')
  <2>1. ASSUME receipts[d] # Nil, kind[d] = "resume", receipts[d].run = r
        PROVE  /\ Asked(r)'
               /\ receipts[d].completed => Answered(r)'
    BY <1>1, <1>2, <2>1, ToldForGood DEF ResumesSound, BoundToQuestion
  <2>2. CASE receipts'[d] = receipts[d]
    <3>1. kind[d] = "resume"
      BY <2>2, KindStays DEF OnlyKnownClaimed
    <3> QED
      BY <1>2, <2>1, <2>2, <3>1
  <2>3. CASE receipts'[d] # receipts[d]
    <3>1. PICK p \in Slots : /\ h[p].d = d /\ kind' = kind
                             /\ Claim(p) \/ MarkHandoffSent(p) \/ Settle(p)
      BY <2>3, ReceiptChanges
    <3>2. KindOf(p) = "resume" /\ kind[d] = "resume"
      BY <3>1 DEF KindOf
    <3>3. CASE Claim(p)
      <4>1. ClaimControlDelivery(d, Issue(p), KindOf(p), Eligible(p))
        BY <2>3, <3>1, <3>3 DEF Claim, ledgerVars
      <4>2. receipts'[d] = [issue |-> Issue(p), transition |-> KindOf(p),
                            run |-> Eligible(p), handoffSent |-> FALSE,
                            completed |-> FALSE]
        BY <4>1 DEF ClaimControlDelivery, TypeOK
      <4>3. r = h[p].active /\ h[p].activeStatus = "blocked"
        BY <1>2, <3>2, <4>2 DEF Eligible
      <4>4. Asked(r)
        BY <1>2, <4>3 DEF ResumesSound, SawQuestion
      <4> QED
        BY <1>1, <1>2, <4>2, <4>4, ToldForGood
    <3>4. CASE MarkHandoffSent(p) \/ Settle(p)
      <4>1. receipts[d] # Nil /\ receipts[d].run = r
        BY <1>1, <1>2, <3>1, <3>4, BindingsStep
           DEF MarkHandoffSent, Settle, AdvanceControlDelivery
      <4>2. CASE MarkHandoffSent(p)
        <5>1. receipts'[d].completed = receipts[d].completed
          <6> DEFINE y == [[receipts[d] EXCEPT !.handoffSent = receipts[d].handoffSent \/ TRUE]
                               EXCEPT !.completed = receipts[d].completed \/ FALSE]
          <6>1. receipts[d] \in Receipt
            BY <4>1 DEF TypeOK
          <6>2. receipts'[d] = y
            BY <3>1, <4>2, <6>1
               DEF MarkHandoffSent, AdvanceControlDelivery, TypeOK, Receipt
          <6> QED
            BY <6>1, <6>2 DEF Receipt
        <5> QED
          BY <2>1, <3>2, <4>1, <5>1
      <4>3. CASE Settle(p)
        <5>1. h[p].run = r /\ h[p].pc = "settle"
          BY <3>1, <4>1, <4>3 DEF Settle, At, AdvanceControlDelivery
        <5>2. Answered(r)
          BY <1>2, <3>2, <5>1, LedgerAssumption DEF ResumesSound
        <5> QED
          BY <1>1, <1>2, <2>1, <3>2, <4>1, <5>2, ToldForGood
      <4> QED
        BY <3>4, <4>2, <4>3
    <3> QED
      BY <3>1, <3>3, <3>4
  <2> QED
    BY <2>2, <2>3
<1> QED
  BY <1>2, <1>3 DEF Asked, Answered, Resumed

\* A resume about to settle has seen its run answered, or wrote the answer.
LEMMA SettlesAnsweredStep ==
    ASSUME TypeOK, HandlersSound, HandlersHold, OnlyKnownClaimed, QuestionsTold,
           ResumesSound, [EntryNext]_vars,
           NEW p \in Slots, h'[p].pc = "settle", KindOf(p)' = "resume",
           h'[p].run # Nil
    PROVE  Answered(h[p].run)'
<1>1. [Next]_ledgerVars /\ h'[p] \in Local /\ h[p] \in Local
  BY EntryCallsLedger, EntryStepSound DEF HandlersSound
<1>2. PICK r \in Runs : r = h'[p].run
  BY <1>1 DEF Local
<1>3. Answered(r)'
  <2>1. CASE h'[p] = h[p]
    <3>1. h[p].d \in Deliveries /\ kind[h[p].d] # Nil
      BY <2>1, EntryAssumption DEF HandlersSound, Sound
    <3>2. KindOf(p) = "resume"
      BY <2>1, <3>1, KindStays DEF KindOf
    <3>3. Answered(r)
      BY <1>2, <2>1, <3>2 DEF ResumesSound
    <3> QED
      BY <1>1, <3>3, ToldForGood
  <2>2. CASE h'[p] # h[p]
    <3>1. ASSUME Return(p) PROVE FALSE
      BY <3>1 DEF Return, HandlersSound, Idle
    <3>2. ASSUME NEW s, Goto(p, s)
          PROVE  s = "settle" /\ h'[p].d = h[p].d /\ h'[p].run = h[p].run
      BY <3>2 DEF Goto, HandlersSound, Local
    <3>3. ASSUME NEW d \in Deliveries, Receive(p, d) PROVE FALSE
      <4>1. h'[p].pc \in {"accept", "find"}
        BY <3>3 DEF Receive, HandlersSound, Idle
      <4> QED
        BY <4>1
    <3>4. ~Accept(p)
      <4>1. ASSUME NEW q \in Runs, h' = [h EXCEPT ![p].pc = "label", ![p].run = q]
            PROVE  FALSE
        BY <1>1, <4>1 DEF HandlersSound, Local
      <4> QED
        BY <3>1, <4>1 DEF Accept
    <3>5. ~AddRunningLabel(p) /\ ~MarkHandoffSent(p) /\ ~FindActive(p)
      <4>1. ~Goto(p, "handoff") /\ ~Goto(p, "label-failed") /\ ~Goto(p, "resume")
        BY <3>2
      <4> QED
        BY <4>1, FindActiveMoves DEF AddRunningLabel, MarkHandoffSent
    <3>6. ~Handoff(p)
      BY <3>1, <3>2, HandoffMoves
    <3>7. ~RecordStarted(p) /\ ~RecordFailed(p) /\ ~Settle(p) /\ ~GiveUp(p)
      BY <3>1 DEF RecordStarted, RecordFailed, Settle, GiveUp
    <3>8. HandlerStep(p)
      BY <2>2, <3>3, <3>7, OnlyOwnSteps
    <3>9. kind' = kind
      BY <3>8, OthersStay
    <3>10. ~Unlabel(p)
      <4> SUFFICES ASSUME Unlabel(p) PROVE FALSE
        OBVIOUS
      <4>1. PICK s \in {"handoff", "terminal", "settle"} :
                Goto(p, s) /\ (KindOf(p) = "resume" => s = "handoff")
        BY DEF Unlabel
      <4>2. KindOf(p) = "resume"
        BY <3>2, <3>9, <4>1 DEF KindOf
      <4> QED
        BY <3>2, <4>1, <4>2
    <3>11. ~RecordAborted(p)
      <4> SUFFICES ASSUME RecordAborted(p) PROVE FALSE
        OBVIOUS
      <4>1. KindOf(p) = "resume"
        BY <3>2, <3>9 DEF RecordAborted, KindOf
      <4> QED
        BY <4>1 DEF RecordAborted, At, HandlersSound, Sound, Fits, KindOf
    <3>12. CASE RecordResumed(p)
      <4> DEFINE e == [id |-> EventId(p, "resume"), type |-> "run.resumed",
                       status |-> "running"]
      <4>1. h[p].run = r
        BY <1>2, <3>2, <3>12 DEF RecordResumed
      <4>2. AppendEvent(r, e) \/ (e \in log[r] /\ UNCHANGED ledgerVars)
        BY <3>12, <4>1 DEF RecordResumed, AppendOrReplay
      <4>3. e \in log'[r]
        BY <4>2 DEF AppendEvent, TypeOK, ledgerVars
      <4>4. e.type = "run.resumed"
        OBVIOUS
      <4> HIDE DEF e
      <4> QED
        BY <4>3, <4>4 DEF Answered, Resumed
    <3>13. CASE Claim(p)
      <4>1. KindOf(p) = "resume" /\ h[p].d \in Deliveries
        <5>1. h'[p].d = h[p].d
          <6> DEFINE y(s) == [[[Idle EXCEPT !.pc = s] EXCEPT !.d = h[p].d]
                                  EXCEPT !.run = receipts'[h[p].d].run]
          <6>1. PICK s \in {"settle", "unlabel", "resume"} :
                    Return(p) \/ h' = [h EXCEPT ![p] = y(s)]
            BY <3>13, ClaimDecides
          <6> QED
            BY <3>1, <6>1 DEF Idle, HandlersSound
        <5> QED
          BY <3>9, <3>13, <5>1, ClaimDecides DEF KindOf
      <4>2. /\ r = receipts'[h[p].d].run
            /\ status[r] \in Terminal \/ status[r] = "running"
        BY <1>2, <3>13, <4>1, ClaimSettles
      <4>3. receipts'[h[p].d] # Nil
        BY <3>13, ClaimDecides
      <4>4. CASE status[r] \in Terminal
        BY <1>1, <4>4, ToldForGood DEF Answered
      <4>5. CASE status[r] = "running"
        <5>1. PICK d \in Deliveries : d = h[p].d
          BY <4>1
        <5>2. BoundToQuestion(d)'
          BY <3>9, <4>1, <5>1, BoundStep DEF KindOf
        <5>3. Asked(r)'
          BY <1>2, <4>2, <4>3, <5>1, <5>2, LedgerAssumption
             DEF BoundToQuestion, Asked
        <5>4. status' = status
          BY <3>13 DEF Claim, ClaimControlDelivery, ledgerVars
        <5> QED
          BY <1>1, <4>5, <5>3, <5>4, AskedStep
      <4> QED
        BY <4>2, <4>4, <4>5
    <3> QED
      BY <3>4, <3>5, <3>6, <3>7, <3>8, <3>10, <3>11, <3>12, <3>13 DEF HandlerStep
  <2> QED
    BY <2>1, <2>2
<1> QED
  BY <1>2, <1>3 DEF Answered, Resumed

LEMMA ResumesSoundStep ==
    ASSUME EntryTypeOK, HandlersSound, HandlersHold, OnlyKnownClaimed,
           QuestionsTold, ResumesSound, [EntryNext]_vars
    PROVE  ResumesSound'
<1>1. TypeOK /\ [Next]_ledgerVars
  BY EntryCallsLedger DEF EntryTypeOK
<1>2. ASSUME NEW d \in Deliveries, kind'[d] = Nil PROVE posts'[d] = 0
  <2>1. kind[d] = Nil /\ posts[d] = 0
    BY <1>2, KindStays DEF ResumesSound
  <2>2. ~ \E p \in Slots : Handoff(p) /\ h[p].d = d
    BY <2>1, HandoffMoves, EntryAssumption DEF HandlersSound, Sound
  <2> QED
    BY <2>1, <2>2, PostsStep
<1>3. ASSUME NEW d \in Deliveries, kind'[d] = "resume", posts'[d] > 0
      PROVE  receipts'[d] # Nil /\ receipts'[d].run # Nil
  <2>1. receipts[d] # Nil /\ receipts[d].run # Nil
    <3>1. CASE \E p \in Slots : Handoff(p) /\ h[p].d = d
      <4>1. PICK p \in Slots : Handoff(p) /\ h[p].d = d
        BY <3>1
      <4>2. h[p].pc = "handoff" /\ kind' = kind
        BY <4>1, HandoffMoves
      <4>3. KindOf(p) = "resume" /\ h[p].run \in Runs
        BY <1>3, <4>1, <4>2 DEF KindOf, HandlersSound, Sound, Fits, RunSteps
      <4> QED
        BY <4>1, <4>2, <4>3, LedgerAssumption DEF HandlersHold, Holds
    <3>2. CASE posts'[d] = posts[d]
      BY <1>3, <3>2, KindStays, EntryAssumption DEF ResumesSound
    <3> QED
      BY <3>1, <3>2, PostsStep
  <2> QED
    BY <1>1, <2>1, BindingsStep
<1> QED
  BY <1>1, <1>2, <1>3, SawQuestionStep, BoundStep, SettlesAnsweredStep
     DEF ResumesSound, Answered, Resumed, KindOf

\* A run's log shows the question it is parked on, however its handlers,
\* agents and operators interleave.
LEMMA QuestionsAlwaysTold == EntrySpec => []QuestionsTold
<1>1. EntryInit => QuestionsTold
  BY DEF EntryInit, Init, QuestionsTold, Asked
<1>2. TypeOK /\ HandlersSound /\ QuestionsTold /\ [EntryNext]_vars => QuestionsTold'
  BY QuestionsToldStep
<1> QED
  BY <1>1, <1>2, HandlersStaySound, PTL DEF EntrySpec

\* A redelivered or racing resume never hands off a run that asked nothing, and
\* is never reported done while its run still waits for the answer.
THEOREM ResumesAnswerParks == EntrySpec => []ResumeAnswersAPark
<1>1. EntryInit => ResumesSound
  BY DEF EntryInit, Init, ResumesSound, SawQuestion, BoundToQuestion, Idle
<1>2. EntryTypeOK /\ HandlersSound /\ HandlersHold /\ OnlyKnownClaimed
        /\ QuestionsTold /\ ResumesSound /\ [EntryNext]_vars => ResumesSound'
  BY ResumesSoundStep
<1>3. ResumesSound => ResumeAnswersAPark
  BY DEF ResumesSound, BoundToQuestion, ResumeAnswersAPark, Asked, Answered, Resumed
<1> QED
  BY <1>1, <1>2, <1>3, HandlersTypeCorrect, HandlersStaySound, HandlersAlwaysHold,
     QuestionsAlwaysTold, PTL DEF EntrySpec
=============================================================================
