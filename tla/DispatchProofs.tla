----------------------------- MODULE DispatchProofs -----------------------------
(***************************************************************************)
(* What the dispatcher guarantees for any number of deliveries, retries    *)
(* and stages, proved from the actions of Dispatch: how the record of a    *)
(* run, the call that serves a delivery and the handlers it leaves behind  *)
(* keep step through deadlines, crashes, lost saves, pauses and a stop.    *)
(***************************************************************************)
EXTENDS Dispatch, TLAPS

\* A call waits for a handler, or is about to, on a record that is under way.
Ongoing == {"pending", "retrying"}

\* While calls do not overlap, one call at most is under way.
OneCall == \A d, e \in Deliveries : InProgress(d) /\ InProgress(e) => d = e

\* The record against the invocations: a record a call may take on again has
\* every one of them, any other all but at most the last.
RecordIsAccounted ==
    /\ rec = Nil => tries = 0
    /\ rec # Nil => tries \in {rec.attempts, rec.attempts + 1}
    /\ rec # Nil /\ rec.status \in {"paused", "blocked"} => tries = rec.attempts

\* The call of delivery d against the record: what it goes on from is what the
\* record says, and nobody has written the record since.
CallIsAccounted(d) ==
    /\ At(d, "base") /\ rec = Nil => s[d].attempt = 0
    /\ At(d, "base") /\ rec # Nil => Resumes(d) /\ s[d].attempt = rec.attempts
    /\ At(d, "emit") =>
          /\ rec # Nil /\ rec.status \in Ongoing
          /\ s[d].attempt = rec.attempts + 1 /\ tries = rec.attempts
    /\ At(d, "handling") =>
          /\ rec # Nil /\ rec.status \in Ongoing
          /\ s[d].attempt = rec.attempts + 1 /\ tries = rec.attempts + 1

Accounted == OneCall /\ RecordIsAccounted /\ \A d \in Deliveries : CallIsAccounted(d)

\* The inductive invariant behind the theorems below.
DispatchInv == DispatchTypeOK /\ (~overlap => Accounted)

-----------------------------------------------------------------------------
(* The end of an attempt, and the steps of handlers                        *)

\* However an attempt ends, its call returns with some status saved or not, or
\* has saved "retrying" and goes on to the next attempt.
Settles(d) ==
    \/ \E status \in Status : SaveFailed(status, s[d].attempt) /\ Return(d)
    \/ /\ Saved("retrying", s[d].attempt)
       /\ s' = [s EXCEPT ![d] = [pc |-> "emit", attempt |-> @.attempt + 1]]

\* Failing an attempt settles it, and leaves a natural count of the unparked.
LEMMA FailedSettles ==
    ASSUME DispatchTypeOK, NEW d \in Deliveries, Failed(d)
    PROVE  Settles(d) /\ unparked' \in Nat
BY DEF DispatchTypeOK, Failed, Settles, Count, Status

\* So does finishing it with a status a record may have.
LEMMA FinishSettles ==
    ASSUME DispatchTypeOK, NEW d \in Deliveries, NEW status \in Status,
           Finish(d, status)
    PROVE  Settles(d) /\ unparked' \in Nat
BY DEF DispatchTypeOK, Finish, Settles, Count

\* The end of a handler and its deadline settle the attempt of a call that is
\* waiting for it; handlers may only go away.
LEMMA AttemptSettles ==
    ASSUME DispatchTypeOK, NEW d \in Deliveries, AttemptEnds(d) \/ Deadline(d)
    PROVE  /\ At(d, "handling") /\ Settles(d) /\ work' \subseteq work
           /\ unparked' \in Nat /\ UNCHANGED <<stopped, tries, overlap>>
<1>1. CASE AttemptEnds(d)
  <2>1. PICK w \in Awaited(d) :
            /\ work' = work \ {w}
            /\ \E outcome \in Outcomes(w) :
                  CASE outcome = "error" -> Failed(d)
                    [] outcome = "parked" -> Finish(d, "blocked")
                    [] outcome = "success" -> Finish(d, "succeeded")
                    [] OTHER -> Finish(d, outcome)
    BY <1>1 DEF AttemptEnds
  <2>2. PICK outcome \in Outcomes(w) :
            CASE outcome = "error" -> Failed(d)
              [] outcome = "parked" -> Finish(d, "blocked")
              [] outcome = "success" -> Finish(d, "succeeded")
              [] OTHER -> Finish(d, outcome)
    BY <2>1
  <2>3. outcome \in {"parked", "error", "success", "stopped", "paused"}
    BY <2>2 DEF Outcomes
  <2>4. Failed(d) \/ \E status \in Status : Finish(d, status)
    <3>1. CASE outcome = "error"
      BY <2>2, <3>1
    <3>2. CASE outcome = "parked"
      BY <2>2, <3>2 DEF Status
    <3>3. CASE outcome = "success"
      BY <2>2, <3>3 DEF Status
    <3>4. CASE outcome \in {"stopped", "paused"}
      BY <2>2, <3>4 DEF Status
    <3> QED
      BY <2>3, <3>1, <3>2, <3>3, <3>4
  <2>5. Settles(d) /\ unparked' \in Nat
    BY <2>4, FailedSettles, FinishSettles
  <2>6. At(d, "handling")
    BY <2>1 DEF Awaited
  <2> QED
    BY <1>1, <2>1, <2>5, <2>6 DEF AttemptEnds
<1>2. CASE Deadline(d)
  BY <1>2, FailedSettles DEF Deadline
<1> QED
  BY <1>1, <1>2

\* A step of a handler leaves the record, the calls and the counts alone; the
\* handlers stay handlers, and one enters a stage only on a run not stopped.
LEMMA HandlerEffect ==
    ASSUME DispatchTypeOK, NEW w \in work, HandlerStep(w)
    PROVE  /\ UNCHANGED <<rec, s, stopped, history>>
           /\ work' \subseteq Handler
           /\ stopped => \A v \in work' : v.at = "stage" => v \in work
<1>1. w \in Handler /\ w.stage \in Stages
  BY DEF DispatchTypeOK, Handler
<1>2. ASSUME NEW stage \in Stages, NEW at \in {"factory", "run", "stage"},
             Move(w, stage, at), stopped => at # "stage"
      PROVE  /\ UNCHANGED <<rec, s, stopped, history>>
             /\ work' \subseteq Handler
             /\ stopped => \A v \in work' : v.at = "stage" => v \in work
  <2>1. [w EXCEPT !.stage = stage, !.at = at] \in Handler
    BY <1>1 DEF Handler
  <2>2. [w EXCEPT !.stage = stage, !.at = at].at = at
    BY <1>1 DEF Handler
  <2> QED
    BY <1>2, <2>1, <2>2 DEF Move, DispatchTypeOK
<1>3. CASE CheckFactory(w)
  BY <1>1, <1>2, <1>3 DEF CheckFactory
<1>4. CASE CheckRun(w)
  BY <1>1, <1>2, <1>4 DEF CheckRun
<1>5. CASE InnerCheckpoint(w)
  BY <1>1, <1>2, <1>5 DEF InnerCheckpoint
<1>6. CASE NextStage(w)
  <2>1. w.stage + 1 \in Stages
    BY <1>1, <1>6, DispatchAssumption DEF NextStage, Stages
  <2> QED
    BY <1>2, <1>6, <2>1 DEF NextStage
<1>7. CASE AbandonedEnds(w)
  BY <1>7 DEF AbandonedEnds, DispatchTypeOK
<1> QED
  BY <1>3, <1>4, <1>5, <1>6, <1>7 DEF HandlerStep

\* The kinds of steps a proof has to look at.
LEMMA StepCases ==
    ASSUME DispatchTypeOK, [Next]_vars
    PROVE  \/ \E d \in Deliveries :
                 \/ Receive(d) \/ GateFactory(d) \/ GateRun(d) \/ Get(d)
                 \/ SaveBase(d) \/ StartAttempt(d) \/ Crash(d)
                 \/ AttemptEnds(d) \/ Deadline(d)
           \/ \E w \in work : HandlerStep(w)
           \/ Stop
           \/ UNCHANGED vars
BY DEF Next, DispatchStep

-----------------------------------------------------------------------------
(* Type correctness                                                        *)

\* One step keeps the record a record, every call at a known place and every
\* handler in a stage the pipeline has.
LEMMA DispatchTypeStep ==
    ASSUME DispatchTypeOK, [Next]_vars
    PROVE  DispatchTypeOK'
<1> USE DEF DispatchTypeOK
<1>1. ASSUME NEW d \in Deliveries,
             Receive(d) \/ GateFactory(d) \/ GateRun(d)
      PROVE  DispatchTypeOK'
  <2>1. CASE Receive(d)
    <3>1. s' = [s EXCEPT ![d].pc = "gate-factory"] /\ UNCHANGED <<rec, work, stopped>>
      BY <2>1 DEF Receive, Goto
    <3>2. tries' \in Nat /\ unparked' \in Nat
      BY <2>1 DEF Receive, history
    <3>3. overlap' \in BOOLEAN
      BY <2>1, Zenon DEF Receive, history
    <3> QED
      BY <3>1, <3>2, <3>3
  <2>2. CASE GateFactory(d)
    BY <2>2 DEF GateFactory, Goto, Return, history
  <2>3. CASE GateRun(d)
    BY <2>3 DEF GateRun, Goto, Return, history
  <2> QED
    BY <1>1, <2>1, <2>2, <2>3
<1>2. ASSUME NEW d \in Deliveries, Get(d)
      PROVE  DispatchTypeOK'
  BY <1>2 DEF Get, Goto, Return, history, Record
<1>3. ASSUME NEW d \in Deliveries, SaveBase(d)
      PROVE  DispatchTypeOK'
  <2>1. [status |-> "pending", attempts |-> s[d].attempt] \in Record
    BY DEF Record, Status
  <2> QED
    BY <1>3, <2>1 DEF SaveBase, Goto, Return, Saved, SaveFailed, history
<1>4. ASSUME NEW d \in Deliveries, StartAttempt(d)
      PROVE  DispatchTypeOK'
  <2>1. [d |-> d, attempt |-> s[d].attempt, stage |-> 1, at |-> "factory"] \in Handler
    BY DispatchAssumption DEF Handler, Stages
  <2> QED
    BY <1>4, <2>1 DEF StartAttempt, Goto, Return, Count
<1>5. ASSUME NEW d \in Deliveries, AttemptEnds(d) \/ Deadline(d)
      PROVE  DispatchTypeOK'
  <2>1. \A status \in Status : [status |-> status, attempts |-> s[d].attempt] \in Record
    BY DEF Record
  <2>2. rec' \in Record \cup {Nil}
    BY <1>5, <2>1, AttemptSettles DEF Settles, Saved, SaveFailed, Status
  <2>3. s' \in [Deliveries ->
                 [pc : {"new", "gate-factory", "gate-run", "get", "base",
                        "emit", "handling", "done"}, attempt : Nat]]
    BY <1>5, AttemptSettles DEF Settles, Goto, Return
  <2> QED
    BY <1>5, <2>2, <2>3, AttemptSettles
<1>6. ASSUME NEW d \in Deliveries, Crash(d)
      PROVE  DispatchTypeOK'
  BY <1>6 DEF Crash, Goto, Return, history
<1>7. ASSUME NEW w \in work, HandlerStep(w)
      PROVE  DispatchTypeOK'
  BY <1>7, HandlerEffect DEF history
<1>8. CASE Stop
  BY <1>8 DEF Stop, history
<1>9. CASE UNCHANGED vars
  BY <1>9 DEF vars, history
<1> QED
  BY <1>1, <1>2, <1>3, <1>4, <1>5, <1>6, <1>7, <1>8, <1>9, StepCases

\* For any number of deliveries, retries and stages: the record is a record,
\* every call is at a step of dispatch, and no handler is past its last stage.
THEOREM DispatchTypeCorrect == Spec => []DispatchTypeOK
<1>1. Init => DispatchTypeOK
  <2>1. Init => stopped \in BOOLEAN /\ overlap \in BOOLEAN
    BY Zenon DEF Init
  <2> QED
    BY <2>1 DEF Init, DispatchTypeOK
<1>2. DispatchTypeOK /\ [Next]_vars => DispatchTypeOK'
  BY DispatchTypeStep
<1> QED
  BY <1>1, <1>2, PTL DEF Spec

-----------------------------------------------------------------------------
(* A stop is final for the work too                                        *)

\* Once the run is stopped no stage of any attempt begins: no retry, answer,
\* redelivery or handler that was abandoned at its deadline gets past it.
THEOREM NoStageBeginsAfterStop == Spec => NoStageAfterStop
<1> DEFINE Kept == stopped => \A v \in work' : v.at = "stage" => v \in work
<1>1. ASSUME DispatchTypeOK, [Next]_vars
      PROVE  Kept
  <2>1. ASSUME NEW d \in Deliveries, StartAttempt(d)
        PROVE  Kept
    BY <2>1 DEF StartAttempt
  <2>2. ASSUME NEW d \in Deliveries, AttemptEnds(d) \/ Deadline(d)
        PROVE  Kept
    BY <1>1, <2>2, AttemptSettles
  <2>3. ASSUME NEW d \in Deliveries, Crash(d)
        PROVE  Kept
    BY <2>3 DEF Crash
  <2>4. ASSUME NEW w \in work, HandlerStep(w)
        PROVE  Kept
    BY <1>1, <2>4, HandlerEffect
  <2>5. ASSUME UNCHANGED work
        PROVE  Kept
    BY <2>5
  <2> QED
    BY <1>1, <2>1, <2>2, <2>3, <2>4, <2>5, StepCases
       DEF Receive, GateFactory, GateRun, Get, SaveBase, Stop, vars
<1>2. DispatchTypeOK /\ [Next]_vars
        => [stopped => \A w \in work' : w.at = "stage" => w \in work]_vars
  BY <1>1
<1> QED
  BY <1>2, DispatchTypeCorrect, PTL DEF Spec, NoStageAfterStop

-----------------------------------------------------------------------------
(* The record accounts for the invocations                                 *)

\* What is said of the record does not change while neither it nor the count
\* does, and a call keeps its account while it keeps its place as well.
LEMMA StillAccounted ==
    ASSUME UNCHANGED <<rec, tries>>
    PROVE  /\ RecordIsAccounted => RecordIsAccounted'
           /\ \A d \in Deliveries :
                 UNCHANGED (s[d]) /\ CallIsAccounted(d) => CallIsAccounted(d)'
BY DEF RecordIsAccounted, CallIsAccounted, At, Resumes

\* A call that is at its end, or not beyond reading the record, owes nothing.
LEMMA NothingToAccount ==
    ASSUME NEW d \in Deliveries, s'[d].pc \notin {"base", "emit", "handling"}
    PROVE  CallIsAccounted(d)'
BY DEF CallIsAccounted, At

\* When one call moves on and no other does, what is left to show is that the
\* one was alone already, and that its own account holds afterwards.
LEMMA OneCallMoves ==
    ASSUME DispatchTypeOK, Accounted, NEW d \in Deliveries, InProgress(d),
           \A e \in Deliveries \ {d} : UNCHANGED (s[e]),
           RecordIsAccounted', CallIsAccounted(d)'
    PROVE  Accounted'
<1>1. \A e \in Deliveries \ {d} : ~InProgress(e)
  BY DEF Accounted, OneCall
<1>2. \A e \in Deliveries \ {d} : s'[e].pc \in {"new", "done"}
  BY <1>1 DEF InProgress
<1>3. OneCall'
  BY <1>2 DEF OneCall, InProgress
<1>4. \A e \in Deliveries : CallIsAccounted(e)'
  BY <1>2, NothingToAccount
<1> QED
  BY <1>3, <1>4 DEF Accounted

\* A step that moves no call and writes nothing keeps the account.
LEMMA NobodyMoves ==
    ASSUME Accounted, UNCHANGED <<rec, s, tries>>
    PROVE  Accounted'
BY StillAccounted DEF Accounted, OneCall, InProgress

\* One step keeps the account, as long as calls do not overlap.
LEMMA AccountedStep ==
    ASSUME DispatchTypeOK, [Next]_vars, ~overlap', ~overlap => Accounted
    PROVE  ~overlap /\ Accounted'
<1>1. ASSUME NEW d \in Deliveries, Receive(d)
      PROVE  ~overlap /\ Accounted'
  <2>1. ~overlap /\ UNCHANGED <<rec, tries>> /\ \A e \in Deliveries : ~InProgress(e)
    BY <1>1 DEF Receive, history
  <2>2. /\ s'[d].pc = "gate-factory"
        /\ \A e \in Deliveries \ {d} : UNCHANGED (s[e])
    BY <1>1 DEF Receive, Goto, DispatchTypeOK
  <2>3. \A e \in Deliveries \ {d} : s'[e].pc \in {"new", "done"}
    BY <2>1, <2>2 DEF InProgress
  <2>4. OneCall'
    BY <2>3 DEF OneCall, InProgress
  <2>5. \A e \in Deliveries : CallIsAccounted(e)'
    BY <2>2, <2>3, NothingToAccount
  <2>6. RecordIsAccounted'
    BY <2>1, StillAccounted DEF Accounted
  <2> QED
    BY <2>1, <2>4, <2>5, <2>6 DEF Accounted
<1>2. ASSUME NEW d \in Deliveries, GateFactory(d) \/ GateRun(d)
      PROVE  ~overlap /\ Accounted'
  <2>1. ~overlap /\ UNCHANGED <<rec, tries>>
    BY <1>2 DEF GateFactory, GateRun, history
  <2>2. /\ InProgress(d) /\ s'[d].pc \in {"done", "gate-run", "get"}
        /\ \A e \in Deliveries \ {d} : UNCHANGED (s[e])
    BY <1>2 DEF GateFactory, GateRun, Goto, Return, At, InProgress, DispatchTypeOK
  <2>3. CallIsAccounted(d)'
    BY <2>2, NothingToAccount
  <2>4. RecordIsAccounted'
    BY <2>1, StillAccounted DEF Accounted
  <2> QED
    BY <2>1, <2>2, <2>3, <2>4, OneCallMoves
<1>3. ASSUME NEW d \in Deliveries, Get(d)
      PROVE  ~overlap /\ Accounted'
  <2>1. ~overlap /\ UNCHANGED <<rec, tries>> /\ RecordIsAccounted
    BY <1>3 DEF Get, history, Accounted
  <2>2. InProgress(d) /\ \A e \in Deliveries \ {d} : UNCHANGED (s[e])
    BY <1>3 DEF Get, Goto, Return, At, InProgress, DispatchTypeOK
  <2>3. ASSUME rec = Nil, s' = [s EXCEPT ![d] = [pc |-> "base", attempt |-> 0]]
        PROVE  CallIsAccounted(d)'
    BY <2>1, <2>3 DEF CallIsAccounted, At, DispatchTypeOK
  <2>4. ASSUME rec # Nil, Resumes(d),
               s' = [s EXCEPT ![d] = [pc |-> "base", attempt |-> rec.attempts]]
        PROVE  CallIsAccounted(d)'
    BY <2>1, <2>4 DEF CallIsAccounted, At, Resumes, DispatchTypeOK
  <2>5. ASSUME Return(d)
        PROVE  CallIsAccounted(d)'
    <3>1. s'[d].pc = "done"
      BY <2>5 DEF Return, Goto, DispatchTypeOK
    <3> QED
      BY <3>1, NothingToAccount
  <2>6. CallIsAccounted(d)'
    BY <1>3, <2>3, <2>4, <2>5 DEF Get
  <2>7. RecordIsAccounted'
    BY <2>1, StillAccounted
  <2> QED
    BY <2>1, <2>2, <2>6, <2>7, OneCallMoves
<1>4. ASSUME NEW d \in Deliveries, SaveBase(d)
      PROVE  ~overlap /\ Accounted'
  <2>1. ~overlap /\ UNCHANGED tries /\ RecordIsAccounted /\ CallIsAccounted(d)
    BY <1>4 DEF SaveBase, history, Accounted
  <2>2. /\ InProgress(d) /\ At(d, "base")
        /\ \A e \in Deliveries \ {d} : UNCHANGED (s[e])
    BY <1>4 DEF SaveBase, Return, Goto, At, InProgress, DispatchTypeOK
  <2>3. s[d].attempt \in Nat /\ tries = s[d].attempt
    BY <2>1, <2>2 DEF CallIsAccounted, RecordIsAccounted, Resumes, DispatchTypeOK
  <2>4. [status |-> "pending", attempts |-> s[d].attempt] # Nil
    BY <2>3, DispatchAssumption DEF Record, Status
  <2>5. rec' = rec \/ rec' = [status |-> "pending", attempts |-> s[d].attempt]
    BY <1>4 DEF SaveBase, SaveFailed, Saved
  <2>6. RecordIsAccounted'
    BY <2>1, <2>3, <2>4, <2>5 DEF RecordIsAccounted
  <2>7. ASSUME Saved("pending", s[d].attempt),
               s' = [s EXCEPT ![d] = [pc |-> "emit", attempt |-> @.attempt + 1]]
        PROVE  CallIsAccounted(d)'
    <3>1. s'[d] = [pc |-> "emit", attempt |-> s[d].attempt + 1]
      BY <2>7 DEF DispatchTypeOK
    <3> QED
      BY <2>1, <2>3, <2>4, <2>7, <3>1 DEF CallIsAccounted, At, Saved, Ongoing
  <2>8. ASSUME Return(d)
        PROVE  CallIsAccounted(d)'
    <3>1. s'[d].pc = "done"
      BY <2>8 DEF Return, Goto, DispatchTypeOK
    <3> QED
      BY <3>1, NothingToAccount
  <2>9. CallIsAccounted(d)'
    BY <1>4, <2>7, <2>8 DEF SaveBase
  <2> QED
    BY <2>1, <2>2, <2>6, <2>9, OneCallMoves
<1>5. ASSUME NEW d \in Deliveries, StartAttempt(d)
      PROVE  ~overlap /\ Accounted'
  <2>1. ~overlap /\ UNCHANGED rec /\ RecordIsAccounted /\ CallIsAccounted(d)
    BY <1>5 DEF StartAttempt, Accounted
  <2>2. /\ InProgress(d) /\ At(d, "emit")
        /\ \A e \in Deliveries \ {d} : UNCHANGED (s[e])
    BY <1>5 DEF StartAttempt, Return, Goto, At, InProgress, DispatchTypeOK
  <2>3. ASSUME Goto(d, "handling"), tries' = Count(tries)
        PROVE  RecordIsAccounted' /\ CallIsAccounted(d)'
    <3>1. s'[d] = [s[d] EXCEPT !.pc = "handling"] /\ tries' = tries + 1
      BY <2>1, <2>3 DEF Goto, Count, DispatchTypeOK
    <3>2. s'[d].pc = "handling" /\ s'[d].attempt = s[d].attempt
      BY <3>1 DEF DispatchTypeOK
    <3> QED
      BY <2>1, <2>2, <3>1, <3>2
         DEF RecordIsAccounted, CallIsAccounted, At, Ongoing, DispatchTypeOK, Record
  <2>4. ASSUME Return(d), UNCHANGED tries
        PROVE  RecordIsAccounted' /\ CallIsAccounted(d)'
    <3>1. s'[d].pc = "done"
      BY <2>4 DEF Return, Goto, DispatchTypeOK
    <3> QED
      BY <2>1, <2>4, <3>1, NothingToAccount, StillAccounted
  <2>5. RecordIsAccounted' /\ CallIsAccounted(d)'
    BY <1>5, <2>3, <2>4 DEF StartAttempt
  <2> QED
    BY <2>1, <2>2, <2>5, OneCallMoves
<1>6. ASSUME NEW d \in Deliveries, AttemptEnds(d) \/ Deadline(d)
      PROVE  ~overlap /\ Accounted'
  <2>1. /\ At(d, "handling") /\ Settles(d) /\ UNCHANGED tries /\ ~overlap
        /\ RecordIsAccounted /\ CallIsAccounted(d)
    BY <1>6, AttemptSettles DEF Accounted
  <2>2. InProgress(d) /\ \A e \in Deliveries \ {d} : UNCHANGED (s[e])
    BY <2>1 DEF Settles, Return, Goto, At, InProgress, DispatchTypeOK
  <2>3. /\ s[d].attempt \in Nat /\ tries = s[d].attempt
        /\ rec # Nil /\ rec.status \in Ongoing
    BY <2>1 DEF CallIsAccounted, DispatchTypeOK
  <2>4. \A status \in Status :
            [status |-> status, attempts |-> s[d].attempt] # Nil
    BY <2>3, DispatchAssumption DEF Record
  <2>5. \/ rec' = rec
        \/ \E status \in Status : rec' = [status |-> status, attempts |-> s[d].attempt]
    BY <2>1 DEF Settles, SaveFailed, Saved, Status
  <2>6. RecordIsAccounted'
    BY <2>1, <2>3, <2>4, <2>5 DEF RecordIsAccounted
  <2>7. ASSUME Saved("retrying", s[d].attempt),
               s' = [s EXCEPT ![d] = [pc |-> "emit", attempt |-> @.attempt + 1]]
        PROVE  CallIsAccounted(d)'
    <3>1. s'[d] = [pc |-> "emit", attempt |-> s[d].attempt + 1]
      BY <2>7 DEF DispatchTypeOK
    <3> QED
      BY <2>1, <2>3, <2>4, <2>7, <3>1 DEF CallIsAccounted, At, Saved, Ongoing, Status
  <2>8. ASSUME Return(d)
        PROVE  CallIsAccounted(d)'
    <3>1. s'[d].pc = "done"
      BY <2>8 DEF Return, Goto, DispatchTypeOK
    <3> QED
      BY <3>1, NothingToAccount
  <2>9. CallIsAccounted(d)'
    BY <2>1, <2>7, <2>8 DEF Settles
  <2> QED
    BY <2>1, <2>2, <2>6, <2>9, OneCallMoves
<1>7. ASSUME NEW d \in Deliveries, Crash(d)
      PROVE  ~overlap /\ Accounted'
  <2>1. ~overlap /\ UNCHANGED <<rec, tries>> /\ Accounted
    BY <1>7 DEF Crash, history
  <2>2. s'[d].pc = "done" /\ \A e \in Deliveries \ {d} : UNCHANGED (s[e])
    BY <1>7 DEF Crash, Return, Goto, DispatchTypeOK
  <2>3. \A e \in Deliveries : CallIsAccounted(e)'
    BY <2>1, <2>2, NothingToAccount, StillAccounted DEF Accounted
  <2>4. OneCall'
    BY <2>1, <2>2 DEF Accounted, OneCall, InProgress
  <2> QED
    BY <2>1, <2>3, <2>4, StillAccounted DEF Accounted
<1>8. ASSUME NEW w \in work, HandlerStep(w)
      PROVE  ~overlap /\ Accounted'
  BY <1>8, HandlerEffect, NobodyMoves DEF history
<1>9. CASE Stop \/ UNCHANGED vars
  BY <1>9, NobodyMoves DEF Stop, vars, history
<1> QED
  BY <1>1, <1>2, <1>3, <1>4, <1>5, <1>6, <1>7, <1>8, <1>9, StepCases

\* The strengthened invariant holds of every behaviour of the dispatcher.
THEOREM DispatchInvariant == Spec => []DispatchInv
<1>1. Init => DispatchInv
  <2>1. Init => stopped \in BOOLEAN /\ overlap \in BOOLEAN
    BY Zenon DEF Init
  <2> QED
    BY <2>1 DEF Init, DispatchInv, DispatchTypeOK, Accounted, OneCall, InProgress,
                RecordIsAccounted, CallIsAccounted, At
<1>2. DispatchInv /\ [Next]_vars => DispatchInv'
  BY DispatchTypeStep, AccountedStep DEF DispatchInv
<1> QED
  BY <1>1, <1>2, PTL DEF Spec

\* While calls do not overlap, the attempts on the record are the invocations
\* of the handler but at most the last, over every restart, deadline, lost
\* save, pause, park and answer.
THEOREM EveryAttemptIsAnInvocation == Spec => []AttemptsAreInvocations
<1>1. DispatchInv => AttemptsAreInvocations
  BY DEF DispatchInv, Accounted, RecordIsAccounted, AttemptsAreInvocations
<1> QED
  BY <1>1, DispatchInvariant, PTL

-----------------------------------------------------------------------------
(* What a run came to stands                                               *)

\* While calls do not overlap, only a call that read a record it may take on
\* writes it: a run that ended is never written again, and a parked run is
\* taken on by the call of a human's answer alone.
THEOREM OutcomesStand == Spec => OutcomeStands
<1> DEFINE Stands == /\ rec.status \notin Final
                     /\ rec.status = "blocked" => \E d \in Answers : InProgress(d)
<1>1. ASSUME DispatchInv, [Next]_vars, ~overlap', rec # Nil, rec' # rec
      PROVE  Stands
  <2>1. DispatchTypeOK /\ Accounted
    BY <1>1, AccountedStep DEF DispatchInv
  <2>2. ASSUME NEW d \in Deliveries, SaveBase(d)
        PROVE  Stands
    BY <1>1, <2>1, <2>2
       DEF SaveBase, Accounted, CallIsAccounted, Resumes, Final, At, InProgress
  <2>3. ASSUME NEW d \in Deliveries, AttemptEnds(d) \/ Deadline(d)
        PROVE  Stands
    BY <2>1, <2>3, AttemptSettles DEF Accounted, CallIsAccounted, Ongoing, Final
  <2>4. ASSUME UNCHANGED rec
        PROVE  Stands
    BY <1>1, <2>4
  <2>5. ASSUME NEW w \in work, HandlerStep(w)
        PROVE  Stands
    BY <2>1, <2>4, <2>5, HandlerEffect
  <2> QED
    BY <1>1, <2>1, <2>2, <2>3, <2>4, <2>5, StepCases
       DEF Receive, GateFactory, GateRun, Get, StartAttempt, Crash, Stop, vars
<1>2. DispatchInv /\ [Next]_vars
        => [~overlap' /\ rec # Nil /\ rec' # rec =>
              /\ rec.status \notin Final
              /\ rec.status = "blocked" => \E d \in Answers : InProgress(d)]_vars
  BY <1>1
<1> QED
  BY <1>2, DispatchInvariant, PTL DEF Spec, OutcomeStands
=============================================================================
