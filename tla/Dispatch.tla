-------------------------------- MODULE Dispatch --------------------------------
(***************************************************************************)
(* The dispatcher (agent/lib/dark-factory/dispatch.ts) with the pipeline   *)
(* it drives (dispatch-handler.ts) and its cooperative control checkpoints *)
(* (control-checkpoint.ts), for the deliveries of ONE CI run.              *)
(*                                                                         *)
(* Every delivery is one call of Dispatcher.dispatch, possibly in another  *)
(* process.  All of them share the dispatch record of the run in the state *)
(* store, which is read once and then only written.  The handler of an     *)
(* attempt that missed its deadline is not cancelled: it goes on in the    *)
(* background.                                                             *)
(*                                                                         *)
(* An operator may stop the run, for good, and pause and resume the run or *)
(* the factory at any time.  A pause is not remembered here: it can come   *)
(* and go between any two reads, so each read finds it set or clear.       *)
(***************************************************************************)
EXTENDS Naturals

CONSTANTS
    Deliveries,  \* deliveries of the run's event, redeliveries included
    Answers,     \* those sent with resume: true, since a human replied
    MaxRetries,  \* RetryPolicy.maxRetries
    LastStage,   \* stages of the handler: developer, tester, pr in the code
    Nil          \* no record

Status == {"pending", "retrying", "succeeded", "failed",
           "paused", "stopped", "blocked"}
Final == {"succeeded", "failed", "stopped"}
Record == [status : Status, attempts : Nat]

\* The stages createDispatchHandler runs in sequence.
Stages == 1..LastStage

ASSUME DispatchAssumption ==
    /\ Answers \subseteq Deliveries
    /\ MaxRetries \in Nat
    /\ LastStage \in Nat \ {0}
    /\ Nil \notin Record

VARIABLES
    rec,       \* the dispatch record, Nil before the first save
    s,         \* the call that serves each delivery
    work,      \* the handlers that are running
    stopped,   \* the run control state says stopped
    overlap,   \* two calls have run at the same time (history)
    tries,     \* handler invocations, counted until calls overlap (history)
    unparked   \* attempts that ended in anything but a park (history)

history == <<overlap, tries, unparked>>
vars == <<rec, s, work, stopped, history>>

Handler == [d : Deliveries, attempt : Nat, stage : Stages,
            at : {"factory", "run", "stage"}]

DispatchTypeOK ==
    /\ rec \in Record \cup {Nil}
    /\ s \in [Deliveries ->
                [pc : {"new", "gate-factory", "gate-run", "get", "base",
                       "emit", "handling", "done"},
                 attempt : Nat]]
    /\ work \subseteq Handler
    /\ stopped \in BOOLEAN
    /\ tries \in Nat /\ unparked \in Nat /\ overlap \in BOOLEAN

Init ==
    /\ rec = Nil
    /\ s = [d \in Deliveries |-> [pc |-> "new", attempt |-> 0]]
    /\ work = {}
    /\ stopped = FALSE
    /\ tries = 0 /\ unparked = 0 /\ overlap = FALSE

At(d, step) == s[d].pc = step
Goto(d, step) == s' = [s EXCEPT ![d].pc = step]
Return(d) == Goto(d, "done")
InProgress(d) == s[d].pc \notin {"new", "done"}

\* The next value of a count that stops when calls overlap.
Count(n) == IF overlap THEN 0 ELSE n + 1

\* The handler that the call of delivery d waits for.
Awaited(d) == {w \in work : At(d, "handling") /\ w.d = d
                            /\ w.attempt = s[d].attempt}

-----------------------------------------------------------------------------
(* The gate, the record and the attempt loop                               *)

\* Bound: once two calls have overlapped, no further delivery is received.
Receive(d) ==
    /\ At(d, "new")
    /\ ~overlap
    /\ Goto(d, "gate-factory")
    /\ IF \E e \in Deliveries : InProgress(e)
       THEN overlap' = TRUE /\ tries' = 0 /\ unparked' = 0
       ELSE UNCHANGED history
    /\ UNCHANGED <<rec, work, stopped>>

\* getControlGate, in two reads: paused, stopped or unreadable, it is closed.
GateFactory(d) ==
    /\ At(d, "gate-factory")
    /\ Return(d) \/ Goto(d, "gate-run")
    /\ UNCHANGED <<rec, work, stopped, history>>

GateRun(d) ==
    /\ At(d, "gate-run")
    /\ Return(d) \/ (~stopped /\ Goto(d, "get"))
    /\ UNCHANGED <<rec, work, stopped, history>>

\* Mutant: any delivery takes a parked run on.
ResumesUnasked(d) == rec.status \in {"paused", "blocked"}

\* A paused run goes on with any delivery, a parked one only with an answer.
Resumes(d) ==
    \/ rec.status = "paused"
    \/ rec.status = "blocked" /\ d \in Answers

\* store.get; everything else already recorded makes this a duplicate.
Get(d) ==
    /\ At(d, "get")
    /\ \/ /\ rec = Nil
          /\ s' = [s EXCEPT ![d] = [pc |-> "base", attempt |-> 0]]
       \/ /\ rec # Nil
          /\ Resumes(d)
          /\ s' = [s EXCEPT ![d] = [pc |-> "base", attempt |-> rec.attempts]]
       \/ /\ rec # Nil => ~Resumes(d)
          /\ Return(d)
    /\ UNCHANGED <<rec, work, stopped, history>>

\* store.save; a save that reports an error may still have been written.
Saved(status, n) == rec' = [status |-> status, attempts |-> n]
SaveFailed(status, n) == Saved(status, n) \/ UNCHANGED rec

\* Mutant: a resumed run starts counting its attempts over.
SaveBaseAnew(d) ==
    /\ At(d, "base")
    /\ \/ /\ Saved("pending", 0)
          /\ s' = [s EXCEPT ![d] = [pc |-> "emit", attempt |-> 1]]
       \/ /\ SaveFailed("pending", 0)
          /\ Return(d)
    /\ UNCHANGED <<work, stopped, history>>

\* The base record, and on to the first attempt of this call.
SaveBase(d) ==
    /\ At(d, "base")
    /\ \/ /\ Saved("pending", s[d].attempt)
          /\ s' = [s EXCEPT ![d] = [pc |-> "emit", attempt |-> @.attempt + 1]]
       \/ /\ SaveFailed("pending", s[d].attempt)
          /\ Return(d)
    /\ UNCHANGED <<work, stopped, history>>

\* emit "dispatched", then the handler; the observer or the run ledger may
\* refuse, and then the call ends with the record as it is.
StartAttempt(d) ==
    /\ At(d, "emit")
    /\ \/ /\ Goto(d, "handling")
          /\ work' = work \cup {[d |-> d, attempt |-> s[d].attempt,
                                 stage |-> 1, at |-> "factory"]}
          /\ tries' = Count(tries)
       \/ Return(d) /\ UNCHANGED <<work, tries>>
    /\ UNCHANGED <<rec, stopped, unparked, overlap>>

-----------------------------------------------------------------------------
(* The handler: a checkpoint before each stage and, at will, within it     *)

Move(w, stage, at) ==
    /\ work' = (work \ {w}) \cup {[w EXCEPT !.stage = stage, !.at = at]}
    /\ UNCHANGED <<rec, s, stopped, history>>

CheckFactory(w) ==
    /\ w.at = "factory"
    /\ Move(w, w.stage, "run")

\* Mutant: the checkpoint reads the run's pause only.
CheckRunPause(w) ==
    /\ w.at = "run"
    /\ Move(w, w.stage, "stage")

\* The run's row is read and the stage begins in one step: a stop set while the
\* answer is under way is seen at the next checkpoint.
CheckRun(w) ==
    /\ w.at = "run"
    /\ ~stopped
    /\ Move(w, w.stage, "stage")

InnerCheckpoint(w) ==
    /\ w.at = "stage"
    /\ Move(w, w.stage, "factory")

\* Mutant: one stage too many.
NextStageBeyond(w) ==
    /\ w.at = "stage"
    /\ w.stage <= LastStage
    /\ Move(w, w.stage + 1, "factory")

NextStage(w) ==
    /\ w.at = "stage"
    /\ w.stage < LastStage
    /\ Move(w, w.stage + 1, "factory")

\* How a handler that is where w is can end.
Outcomes(w) ==
    CASE w.at = "stage" /\ w.stage < LastStage -> {"parked", "error"}
      [] w.at = "stage" /\ w.stage = LastStage -> {"parked", "error", "success"}
      [] w.at = "run" /\ stopped -> {"stopped", "paused"}
      [] OTHER -> {"paused"}   \* paused, or the control state is unreadable

\* A handler nobody waits for any more ends unheard.
AbandonedEnds(w) ==
    /\ \A d \in Deliveries : w \notin Awaited(d)
    /\ work' = work \ {w}
    /\ UNCHANGED <<rec, s, stopped, history>>

-----------------------------------------------------------------------------
(* What the call makes of the end of an attempt                            *)

\* nextRetry: no attempt is left after this one.
Exhausted(attempt) == attempt >= MaxRetries + 1

\* Whatever the save and the emit answer, the call ends.
Finish(d, status) ==
    /\ SaveFailed(status, s[d].attempt)
    /\ Return(d)
    /\ unparked' = IF status = "blocked" THEN unparked ELSE Count(unparked)

Failed(d) ==
    /\ unparked' = Count(unparked)
    /\ \/ /\ Exhausted(s[d].attempt)
          /\ SaveFailed("failed", s[d].attempt)
          /\ Return(d)
       \/ /\ ~Exhausted(s[d].attempt)
          /\ \/ /\ Saved("retrying", s[d].attempt)
                /\ s' = [s EXCEPT ![d] = [pc |-> "emit", attempt |-> @.attempt + 1]]
             \/ /\ SaveFailed("retrying", s[d].attempt)
                /\ Return(d)

AttemptEnds(d) ==
    /\ \E w \in Awaited(d) :
        /\ work' = work \ {w}
        /\ \E outcome \in Outcomes(w) :
              CASE outcome = "error" -> Failed(d)
                [] outcome = "parked" -> Finish(d, "blocked")
                [] outcome = "success" -> Finish(d, "succeeded")
                [] OTHER -> Finish(d, outcome)
    /\ UNCHANGED <<stopped, tries, overlap>>

\* Mutant: the timer is cleared while the handler still runs.
DeadlineCleared(d) ==
    /\ At(d, "handling")
    /\ Awaited(d) = {}
    /\ Failed(d)
    /\ UNCHANGED <<work, stopped, tries, overlap>>

\* withDeadline: the attempt counts as failed, its handler keeps running.
Deadline(d) ==
    /\ At(d, "handling")
    /\ Failed(d)
    /\ UNCHANGED <<work, stopped, tries, overlap>>

\* The process that serves d dies, and every handler it was running.
Crash(d) ==
    /\ InProgress(d) \/ \E w \in work : w.d = d
    /\ Return(d)
    /\ work' = {w \in work : w.d # d}
    /\ UNCHANGED <<rec, stopped, history>>

\* The operator stops the run; control.ts never takes that back.
Stop ==
    /\ ~stopped
    /\ stopped' = TRUE
    /\ UNCHANGED <<rec, s, work, history>>

-----------------------------------------------------------------------------
DispatchStep(d) ==
    \/ GateFactory(d) \/ GateRun(d) \/ Get(d) \/ SaveBase(d)
    \/ StartAttempt(d) \/ Deadline(d)

HandlerStep(w) ==
    \/ CheckFactory(w) \/ CheckRun(w) \/ InnerCheckpoint(w) \/ NextStage(w)
    \/ AbandonedEnds(w)

Next ==
    \/ \E d \in Deliveries : Receive(d) \/ DispatchStep(d)
                                \/ AttemptEnds(d) \/ Crash(d)
    \/ \E w \in work : HandlerStep(w)
    \/ Stop

\* A call that runs goes on: its timers fire and its store calls are answered.
\* Nothing is assumed of handlers, which may hang, of operators or of GitHub.
Fairness == \A d \in Deliveries : WF_vars(DispatchStep(d))

Spec == Init /\ [][Next]_vars /\ Fairness

-----------------------------------------------------------------------------
(* Properties                                                              *)

\* A hung handler holds a delivery only until its deadline, and retries end:
\* every call of dispatch returns, so sooner or later none is in progress.
DispatchTerminates == <>[](\A d \in Deliveries : ~InProgress(d))

\* A stop is final for the work too: once the run is stopped, no stage of any
\* attempt begins, whether retried, resumed, redelivered or abandoned.  This
\* rests on the run being the last thing a checkpoint reads.
NoStageAfterStop ==
    [][stopped =>
          \A w \in work' : w.at = "stage" => w \in work]_vars

\* While calls do not overlap, what a run came to stands: nothing writes the
\* record of a run that ended again, no abandoned attempt, redelivery or
\* answer, and only the human's answer takes a parked run on.
OutcomeStands ==
    [][~overlap' /\ rec # Nil /\ rec' # rec =>
          /\ rec.status \notin Final
          /\ rec.status = "blocked" => \E d \in Answers : InProgress(d)]_vars

\* While calls do not overlap, the record's attempts are the invocations of
\* the handler, but for one whose end is not (or could not be) recorded: no
\* restart, pause or answer hides an attempt or pays for one twice.
AttemptsAreInvocations ==
    /\ ~overlap
    /\ rec # Nil
    => tries \in {rec.attempts, rec.attempts + 1}

\* invariants.md: the dispatcher reads the record first and never invokes the
\* handler twice for the same delivery id, so two calls never handle at once.
OneCallHandles ==
    \A d, e \in Deliveries : At(d, "handling") /\ At(e, "handling") => d = e

\* dispatch.ts: parking must not consume the retry budget, so a run only
\* fails after maxRetries + 1 attempts that did not park.
ParkCostsNoRetry ==
    /\ ~overlap
    /\ rec # Nil
    /\ rec.status = "failed"
    => unparked >= MaxRetries + 1
=============================================================================
