----------------------------- MODULE ServicesProofs -----------------------------
(***************************************************************************)
(* What the parts of Services guarantee for any number of tasks, coders,   *)
(* seeds and operators, proved part by part: each part keeps its own       *)
(* inductive invariant, whether it is the part that moves or not.          *)
(***************************************************************************)
EXTENDS Services, SequenceTheorems, FiniteSetTheorems, WellFoundedInduction, TLAPS

(* Operator control: every call decides on a row that may be stale and is   *)
(* compared when it is written.                                            *)

\* A row the call may still write over: not stopped, and not what it asks for.
Leaves(seen, action) ==
    seen # NoRow => ~seen.flags.stopped /\ seen.flags # Target(action)

\* What a call has decided by the step it is at; it has left an event only if
\* it was answered, and then not as a duplicate or a refusal.
CallIsSound(p) ==
    /\ call[p].pc \in {"read", "apply"} => call[p].action \in {"pause", "resume", "stop"}
    /\ call[p].pc = "apply" => Leaves(call[p].seen, call[p].action)
    /\ call[p].pc # "answered" => call[p].answer = "none" /\ EventsBy(p) = {}

\* The inductive invariant behind the theorems below.
ControlInv ==
    /\ ControlTypeOK
    /\ \A p \in ControlCalls : CallIsSound(p)
    /\ AuditIsTrue

-----------------------------------------------------------------------------
(* What the steps of a call change                                         *)

\* What a call is answered, and what of it that leaves as it was.
LEMMA AnswerEffect ==
    ASSUME ControlTypeOK, NEW p \in ControlCalls, NEW answer \in Answers,
           Answer(p, answer)
    PROVE  /\ call' \in [ControlCalls -> CallState]
           /\ call'[p].pc = "answered" /\ call'[p].answer = answer
           /\ \A q \in ControlCalls \ {p} : call'[q] = call[q]
<1> DEFINE rec == [call[p] EXCEPT !.pc = "answered", !.answer = answer, !.seen = NoRow]
<1>1. call \in [ControlCalls -> CallState] /\ call[p] \in CallState
  BY DEF ControlTypeOK
<1>2. rec \in CallState /\ rec.pc = "answered" /\ rec.answer = answer
  BY <1>1 DEF CallState
<1>3. call' = [call EXCEPT ![p] = rec]
  BY <1>1 DEF Answer, CallState
<1> HIDE DEF rec
<1> QED
  BY <1>1, <1>2, <1>3

\* Only a commit touches the rows and the log.  Any other step leaves the call
\* well formed and as sound as it was, and every other call alone.
LEMMA QuietStep ==
    ASSUME ControlTypeOK, NEW p \in ControlCalls, CallIsSound(p),
           Validate(p) \/ Read(p) \/ Conflict(p) \/ WriteFails(p)
    PROVE  /\ UNCHANGED <<controls, audit>>
           /\ call' \in [ControlCalls -> CallState]
           /\ \A q \in ControlCalls \ {p} : call'[q] = call[q]
           /\ EventsBy(p) = {} /\ EventsBy(p)' = {}
           /\ call'[p].pc \in {"read", "apply"} =>
                 call'[p].action \in {"pause", "resume", "stop"}
           /\ call'[p].pc = "apply" => Leaves(call'[p].seen, call'[p].action)
           /\ call'[p].pc # "answered" => call'[p].answer = "none"
           /\ call'[p].answer # "applied"
<1> USE DEF CallIsSound
<1>1. call[p].pc # "answered" /\ call[p].answer = "none" /\ EventsBy(p) = {}
  BY DEF Validate, Read, Conflict, WriteFails
<1>2. UNCHANGED <<controls, audit>>
  BY DEF Validate, Read, Conflict, WriteFails
<1>3. EventsBy(p)' = {}
  BY <1>1, <1>2 DEF EventsBy
<1>4. ASSUME NEW answer \in {"duplicate", "invalid", "unavailable"}, Answer(p, answer)
      PROVE  /\ call' \in [ControlCalls -> CallState]
             /\ \A q \in ControlCalls \ {p} : call'[q] = call[q]
             /\ call'[p].pc = "answered" /\ call'[p].answer # "applied"
  BY <1>4, AnswerEffect DEF Answers
<1>5. CASE Validate(p)
  <2>1. PICK action \in Actions, scope \in Scopes :
            call' = [call EXCEPT ![p] = [@ EXCEPT
                    !.action = action, !.scope = scope,
                    !.pc = IF Refused(action, scope) THEN "answered" ELSE "read",
                    !.answer = IF Refused(action, scope) THEN "invalid" ELSE call[p].answer]]
    BY <1>5 DEF Validate
  <2>2. ~Refused(action, scope) => action \in {"pause", "resume", "stop"}
    BY DEF Refused
  <2> DEFINE place == IF Refused(action, scope) THEN "answered" ELSE "read"
             answer == IF Refused(action, scope) THEN "invalid" ELSE call[p].answer
             rec == [call[p] EXCEPT !.action = action, !.scope = scope,
                                    !.pc = place, !.answer = answer]
  <2>3. call \in [ControlCalls -> CallState] /\ call[p] \in CallState
    BY DEF ControlTypeOK
  <2>4. /\ place \in {"answered", "read"} /\ (place = "read" => ~Refused(action, scope))
        /\ answer \in {"none", "invalid"} /\ (place = "read" => answer = "none")
    BY <1>1
  <2>5. call' = [call EXCEPT ![p] = rec]
    BY <2>1, <2>3 DEF CallState
  <2> HIDE DEF place, answer
  <2>6. /\ rec \in CallState /\ rec.action = action
        /\ rec.pc = place /\ rec.answer = answer
    BY <2>3, <2>4 DEF CallState, Answers
  <2> HIDE DEF rec
  <2>7. /\ call' \in [ControlCalls -> CallState] /\ call'[p] = rec
        /\ \A q \in ControlCalls \ {p} : call'[q] = call[q]
    BY <2>3, <2>5, <2>6
  <2> QED
    BY <1>2, <1>3, <1>1, <2>2, <2>4, <2>6, <2>7
<1>6. CASE Read(p)
  <2> DEFINE x == call[p].scope
             action == call[p].action
  <2>1. x \in Scopes /\ action \in {"pause", "resume", "stop"}
    BY <1>6 DEF Read, ControlTypeOK, CallState
  <2>2. CASE \E answer \in {"duplicate", "invalid", "unavailable"} : Answer(p, answer)
    BY <1>1, <1>2, <1>3, <1>4, <2>2
  <2>3. CASE /\ ~IsStopped(x) /\ ~AlreadySo(x, action)
             /\ call' = [call EXCEPT ![p].pc = "apply", ![p].seen = controls[x]]
    <3>1. Leaves(controls[x], action)
      BY <2>3 DEF IsStopped, AlreadySo, Leaves
    <3>2. /\ call' \in [ControlCalls -> CallState]
          /\ \A q \in ControlCalls \ {p} : call'[q] = call[q]
          /\ call'[p].pc = "apply" /\ call'[p].seen = controls[x]
          /\ call'[p].action = action /\ call'[p].answer = call[p].answer
      BY <2>1, <2>3 DEF ControlTypeOK, CallState
    <3> QED
      BY <1>1, <1>2, <1>3, <2>1, <3>1, <3>2
  <2> QED
    BY <1>6, <2>2, <2>3 DEF Read
<1>7. CASE Conflict(p)
  <2>1. CASE call[p].conflicts < MaxConflicts
    <3>1. call' = [call EXCEPT ![p].pc = "read", ![p].seen = NoRow, ![p].conflicts = @ + 1]
      BY <1>7, <2>1 DEF Conflict
    <3>2. call[p].conflicts + 1 \in 0..MaxConflicts
      BY <2>1, ControlAssumption DEF ControlTypeOK, CallState
    <3>3. /\ call' \in [ControlCalls -> CallState]
          /\ \A q \in ControlCalls \ {p} : call'[q] = call[q]
          /\ call'[p].pc = "read" /\ call'[p].action = call[p].action
          /\ call'[p].answer = call[p].answer
      BY <3>1, <3>2 DEF ControlTypeOK, CallState
    <3> QED
      BY <1>1, <1>2, <1>3, <1>7, <3>3 DEF Conflict
  <2>2. CASE ~(call[p].conflicts < MaxConflicts)
    BY <1>1, <1>2, <1>3, <1>4, <1>7, <2>2 DEF Conflict
  <2> QED
    BY <2>1, <2>2
<1>8. CASE WriteFails(p)
  BY <1>1, <1>2, <1>3, <1>4, <1>8 DEF WriteFails
<1> QED
  BY <1>5, <1>6, <1>7, <1>8

\* What a commit writes: one row, over a row that is what the call has read,
\* and one more event, at the end of the log.
LEMMA CommitEffect ==
    ASSUME ControlTypeOK, NEW p \in ControlCalls, CallIsSound(p), Commit(p)
    PROVE  /\ EventsBy(p) = {}
           /\ call[p].action \in {"pause", "resume", "stop"} /\ call[p].scope \in Scopes
           /\ Leaves(controls[call[p].scope], call[p].action)
           /\ controls' \in [Scopes -> ControlRow \cup {NoRow}]
           /\ controls'[call[p].scope] # NoRow
           /\ controls'[call[p].scope].flags = Target(call[p].action)
           /\ \A x \in Scopes \ {call[p].scope} : controls'[x] = controls[x]
           /\ audit' \in Seq(AuditRecord)
           /\ DOMAIN audit' = DOMAIN audit \cup {Len(audit) + 1}
           /\ \A n \in DOMAIN audit : audit'[n] = audit[n] /\ n < Len(audit) + 1
           /\ audit'[Len(audit) + 1] = AuditEvent(p)
           /\ call' \in [ControlCalls -> CallState]
           /\ call'[p].pc = "answered" /\ call'[p].answer \in {"applied", "unavailable"}
           /\ \A q \in ControlCalls \ {p} : call'[q] = call[q]
<1>1. call[p].pc = "apply" /\ controls[call[p].scope] = call[p].seen
  BY DEF Commit, Matches
<1>2. /\ EventsBy(p) = {} /\ Leaves(controls[call[p].scope], call[p].action)
      /\ call[p].action \in {"pause", "resume", "stop"} /\ call[p].scope \in Scopes
  BY <1>1 DEF CallIsSound, ControlTypeOK, CallState
<1>3. PICK stamp \in Stamps :
          controls' = [controls EXCEPT ![call[p].scope] =
                           [flags |-> Target(call[p].action), stamp |-> stamp]]
  BY DEF Commit, WriteRow
<1>4. [flags |-> Target(call[p].action), stamp |-> stamp] \in ControlRow
  BY DEF ControlRow, Flags, Target
<1>5. /\ controls' \in [Scopes -> ControlRow \cup {NoRow}]
      /\ controls'[call[p].scope] # NoRow
      /\ controls'[call[p].scope].flags = Target(call[p].action)
      /\ \A x \in Scopes \ {call[p].scope} : controls'[x] = controls[x]
  BY <1>2, <1>3, <1>4, ControlAssumption DEF ControlTypeOK
<1>6. AuditEvent(p) \in AuditRecord
  BY <1>2 DEF AuditEvent, AuditRecord
<1>7. /\ audit' \in Seq(AuditRecord)
      /\ DOMAIN audit' = DOMAIN audit \cup {Len(audit) + 1}
      /\ \A n \in DOMAIN audit : audit'[n] = audit[n] /\ n < Len(audit) + 1
      /\ audit'[Len(audit) + 1] = AuditEvent(p)
  BY <1>6 DEF Commit, ControlTypeOK
<1>8. /\ call' \in [ControlCalls -> CallState]
      /\ call'[p].pc = "answered" /\ call'[p].answer \in {"applied", "unavailable"}
      /\ \A q \in ControlCalls \ {p} : call'[q] = call[q]
  BY AnswerEffect DEF Commit, Answers
<1> QED
  BY <1>2, <1>5, <1>7, <1>8

-----------------------------------------------------------------------------
(* The invariant                                                           *)

\* What a commit does to the events of a scope, and of a call.
LEMMA CommitEvents ==
    ASSUME ControlTypeOK, NEW p \in ControlCalls, CallIsSound(p), Commit(p)
    PROVE  /\ EventsBy(p)' = {Len(audit) + 1}
           /\ \A q \in ControlCalls \ {p} : EventsBy(q)' = EventsBy(q)
           /\ \A x \in Scopes : EventsOf(x)' =
                 EventsOf(x) \cup {n \in {Len(audit) + 1} : x = call[p].scope}
<1>1. AuditEvent(p).by = p /\ AuditEvent(p).scope = call[p].scope
  BY DEF AuditEvent
<1>2. EventsBy(p) = {}
  BY CommitEffect
<1>3. EventsBy(p)' = {Len(audit) + 1}
  BY <1>1, <1>2, CommitEffect DEF EventsBy
<1>4. \A q \in ControlCalls \ {p} : EventsBy(q)' = EventsBy(q)
  BY <1>1, CommitEffect DEF EventsBy
<1>5. \A x \in Scopes : EventsOf(x)' =
          EventsOf(x) \cup {n \in {Len(audit) + 1} : x = call[p].scope}
  <2>1. \A n \in DOMAIN audit : audit'[n] = audit[n]
    BY CommitEffect
  <2>2. DOMAIN audit' = DOMAIN audit \cup {Len(audit) + 1}
    BY CommitEffect
  <2>3. audit'[Len(audit) + 1].scope = call[p].scope
    BY <1>1, CommitEffect
  <2> QED
    BY <2>1, <2>2, <2>3 DEF EventsOf
<1> QED
  BY <1>3, <1>4, <1>5

\* A commit keeps the log an explanation of every row.
LEMMA CommitExplains ==
    ASSUME ControlInv, NEW p \in ControlCalls, Commit(p)
    PROVE  AuditExplainsState'
<1> DEFINE top == Len(audit) + 1
           Explained(x) ==
              /\ (EventsOf(x) = {}) <=> (controls[x] = NoRow)
              /\ \A n \in EventsOf(x) : (\A k \in EventsOf(x) : k <= n) =>
                    controls[x].flags = Target(audit[n].action)
              /\ \A m, n \in DOMAIN audit : FollowedBy(x, m, n) =>
                    /\ Target(audit[m].action) # Target(audit[n].action)
                    /\ audit[m].action # "stop"
<1>1. ControlTypeOK /\ CallIsSound(p) /\ \A x \in Scopes : Explained(x)
  BY DEF ControlInv, AuditIsTrue, AuditExplainsState
<1>2. /\ DOMAIN audit \subseteq Nat /\ top \in Nat
      /\ \A n \in DOMAIN audit : audit'[n] = audit[n] /\ n < top
      /\ DOMAIN audit' = DOMAIN audit \cup {top} /\ audit'[top] = AuditEvent(p)
  <2>1. audit \in Seq(AuditRecord)
    BY <1>1 DEF ControlTypeOK
  <2>2. DOMAIN audit \subseteq Nat /\ top \in Nat
    BY <2>1
  <2>3. /\ \A n \in DOMAIN audit : audit'[n] = audit[n] /\ n < top
        /\ DOMAIN audit' = DOMAIN audit \cup {top} /\ audit'[top] = AuditEvent(p)
    BY <1>1, CommitEffect
  <2> QED
    BY <2>2, <2>3
<1>3. ASSUME NEW x \in Scopes \ {call[p].scope}
      PROVE  Explained(x)'
  <2>1. controls'[x] = controls[x] /\ EventsOf(x)' = EventsOf(x)
    <3>1. controls'[x] = controls[x]
      BY <1>1, CommitEffect
    <3>2. EventsOf(x)' = EventsOf(x) \cup {n \in {top} : x = call[p].scope}
      BY <1>1, CommitEvents
    <3> QED
      BY <3>1, <3>2
  <2>2. EventsOf(x) \subseteq DOMAIN audit
    BY DEF EventsOf
  <2>3. \A m, n \in DOMAIN audit' :
            FollowedBy(x, m, n)' => m \in DOMAIN audit /\ n \in DOMAIN audit /\ FollowedBy(x, m, n)
    BY <2>1, <2>2 DEF FollowedBy
  <2> QED
    BY <1>1, <1>2, <2>1, <2>2, <2>3
<1>4. ASSUME NEW x \in Scopes, x = call[p].scope
      PROVE  Explained(x)'
  <2>1. /\ EventsOf(x)' = EventsOf(x) \cup {top} /\ EventsOf(x) \subseteq DOMAIN audit
        /\ controls'[x] # NoRow /\ controls'[x].flags = Target(call[p].action)
        /\ Leaves(controls[x], call[p].action)
    BY <1>1, <1>4, CommitEffect, CommitEvents DEF EventsOf
  <2>2. AuditEvent(p).action = call[p].action
    BY DEF AuditEvent
  <2>3. (EventsOf(x)' = {}) <=> (controls'[x] = NoRow)
    BY <2>1
  <2>4. ASSUME NEW n \in EventsOf(x)', \A k \in EventsOf(x)' : k <= n
        PROVE  controls'[x].flags = Target(audit'[n].action)
    <3>1. n = top
      BY <1>2, <2>1, <2>4
    <3> QED
      BY <1>2, <2>1, <2>2, <3>1
  <2>5. ASSUME NEW m \in DOMAIN audit', NEW n \in DOMAIN audit', FollowedBy(x, m, n)'
        PROVE  /\ Target(audit'[m].action) # Target(audit'[n].action)
               /\ audit'[m].action # "stop"
    <3>1. /\ m \in EventsOf(x)' /\ n \in EventsOf(x)' /\ m < n
          /\ \A k \in EventsOf(x)' : k <= m \/ n <= k
      BY <2>5 DEF FollowedBy
    <3>2. m # top /\ m \in EventsOf(x) /\ m \in DOMAIN audit
      BY <1>2, <2>1, <3>1
    <3>3. CASE n = top
      <4>1. \A k \in EventsOf(x) : k <= m
        BY <1>2, <2>1, <3>1, <3>3
      <4>2. controls[x] # NoRow /\ controls[x].flags = Target(audit[m].action)
        BY <1>1, <3>2, <4>1
      <4>3. Target(audit[m].action) # Target(call[p].action)
            /\ ~Target(audit[m].action).stopped
        BY <2>1, <4>2 DEF Leaves
      <4>4. Target("stop").stopped
        BY DEF Target
      <4>5. audit[m].action # "stop"
        BY <4>3, <4>4
      <4> QED
        BY <1>2, <2>2, <3>2, <3>3, <4>3, <4>5
    <3>4. CASE n # top
      <4>1. n \in EventsOf(x) /\ n \in DOMAIN audit
        BY <2>1, <3>1, <3>4
      <4>2. FollowedBy(x, m, n)
        BY <2>1, <3>1, <3>2, <4>1 DEF FollowedBy
      <4> QED
        BY <1>1, <1>2, <3>2, <4>1, <4>2
    <3> QED
      BY <3>3, <3>4
  <2> QED
    BY <2>3, <2>4, <2>5
<1> QED
  BY <1>3, <1>4 DEF AuditExplainsState

\* One step keeps the invariant.
LEMMA ControlInvStep ==
    ASSUME ControlInv, [ControlNext]_controlVars
    PROVE  ControlInv'
<1>1. ASSUME NEW p \in ControlCalls,
             Validate(p) \/ Read(p) \/ Conflict(p) \/ WriteFails(p)
      PROVE  ControlInv'
  <2>1. ControlTypeOK /\ CallIsSound(p)
    BY DEF ControlInv
  <2>2. /\ UNCHANGED <<controls, audit>> /\ call' \in [ControlCalls -> CallState]
        /\ \A q \in ControlCalls \ {p} : call'[q] = call[q]
        /\ EventsBy(p)' = {} /\ call'[p].answer # "applied"
    BY <1>1, <2>1, QuietStep
  <2>3. ControlTypeOK'
    BY <2>1, <2>2 DEF ControlTypeOK
  <2>4. \A q \in ControlCalls \ {p} : EventsBy(q)' = EventsBy(q)
    BY <2>2 DEF EventsBy
  <2>5. CallIsSound(p)'
    BY <1>1, <2>1, QuietStep DEF CallIsSound
  <2>6. \A q \in ControlCalls \ {p} : CallIsSound(q)'
    BY <2>2, <2>4 DEF ControlInv, CallIsSound
  <2>7. AuditExplainsState'
    BY <2>2 DEF ControlInv, AuditIsTrue, AuditExplainsState, EventsOf, FollowedBy
  <2>8. AnswersMatchAudit'
    BY <2>2, <2>4 DEF ControlInv, AuditIsTrue, AnswersMatchAudit
  <2> QED
    BY <2>3, <2>5, <2>6, <2>7, <2>8 DEF ControlInv, AuditIsTrue
<1>2. ASSUME NEW p \in ControlCalls, Commit(p)
      PROVE  ControlInv'
  <2>1. ControlTypeOK /\ CallIsSound(p)
    BY DEF ControlInv
  <2>2. ControlTypeOK'
    BY <1>2, <2>1, CommitEffect DEF ControlTypeOK
  <2>3. CallIsSound(p)'
    BY <1>2, <2>1, CommitEffect DEF CallIsSound
  <2>4. \A q \in ControlCalls \ {p} : CallIsSound(q)'
    BY <1>2, <2>1, CommitEffect, CommitEvents DEF ControlInv, CallIsSound
  <2>5. AnswersMatchAudit'
    BY <1>2, <2>1, CommitEffect, CommitEvents
       DEF ControlInv, AuditIsTrue, AnswersMatchAudit
  <2> QED
    BY <1>2, <2>2, <2>3, <2>4, <2>5, CommitExplains DEF ControlInv, AuditIsTrue
<1>3. CASE UNCHANGED controlVars
  BY <1>3 DEF ControlInv, ControlTypeOK, CallIsSound, AuditIsTrue, AuditExplainsState,
              AnswersMatchAudit, EventsOf, EventsBy, FollowedBy, controlVars
<1> QED
  BY <1>1, <1>2, <1>3 DEF ControlNext

LEMMA ControlBegins ==
    ASSUME ControlInit
    PROVE  ControlInv
<1>1. ControlTypeOK
  BY ControlAssumption
     DEF ControlInit, ControlTypeOK, CallState, Actions, Scopes, Answers
<1>2. /\ \A x \in Scopes : EventsOf(x) = {} /\ controls[x] = NoRow
      /\ \A p \in ControlCalls : EventsBy(p) = {}
  BY DEF ControlInit, EventsOf, EventsBy
<1>3. \A p \in ControlCalls : call[p].pc = "idle" /\ call[p].answer = "none"
  BY DEF ControlInit
<1> QED
  BY <1>1, <1>2, <1>3 DEF ControlInv, CallIsSound, AuditIsTrue, AuditExplainsState,
                          AnswersMatchAudit, FollowedBy

\* The inductive invariant holds of every behaviour of operator control.
THEOREM ControlInvariant == ControlSpec => []ControlInv
BY ControlBegins, ControlInvStep, PTL DEF ControlSpec

\* Rows, events and calls stay well formed, for any number of calls and runs.
THEOREM ControlTypeCorrect == ControlSpec => []ControlTypeOK
BY ControlInvariant, PTL DEF ControlInv

\* However many operators call at once, and however stale the rows they act
\* on, the log explains every row and every answer: no update is lost, none is
\* applied twice, and nothing follows a stop.
THEOREM AuditStaysTrue == ControlSpec => []AuditIsTrue
BY ControlInvariant, PTL DEF ControlInv

LEMMA StopStep ==
    ASSUME ControlInv, ControlNext, NEW x \in Scopes, IsStopped(x)
    PROVE  controls'[x] = controls[x]
<1>1. PICK p \in ControlCalls :
          Validate(p) \/ Read(p) \/ Conflict(p) \/ Commit(p) \/ WriteFails(p)
  BY DEF ControlNext
<1>2. ControlTypeOK /\ CallIsSound(p)
  BY DEF ControlInv
<1>3. CASE Commit(p)
  <2>1. x # call[p].scope
    BY <1>2, <1>3, CommitEffect DEF Leaves, IsStopped
  <2> QED
    BY <1>2, <1>3, <2>1, CommitEffect
<1> QED
  BY <1>1, <1>2, <1>3, QuietStep

\* No call, whatever it read before, writes over a run that was stopped.
THEOREM StopsArePermanent == ControlSpec => StopIsPermanent
<1>1. ControlInv /\ [ControlNext]_controlVars
        => [\A x \in Scopes : IsStopped(x) => controls'[x] = controls[x]]_controlVars
  BY StopStep
<1> QED
  BY <1>1, ControlInvariant, PTL DEF ControlSpec, StopIsPermanent

-----------------------------------------------------------------------------
(* Leases                                                                  *)

\* A lease is refused from the moment it ought to be: none exists before its
\* task asked for it, none is left alive by a task that completed, and one
\* that was refused once is revoked, expired or gone for good.
LeaseIsSound(t) ==
    /\ task[t] = "waiting" => t \notin DOMAIN leases /\ sandbox[t] = "none"
                              /\ t \notin denied
    /\ task[t] = "done" /\ t \in DOMAIN leases => leases[t].revoked
    /\ t \in denied => ~Authorizes(t)

LeaseInv == LeaseTypeOK /\ \A t \in Tasks : LeaseIsSound(t)

\* The broker only takes away: a lease once issued is never revived, whoever
\* issues, prunes, revokes or waits.
LEMMA LeasesOnlyDie ==
    ASSUME LeaseTypeOK, LeaseNext, NEW t \in Tasks, task[t] # "waiting"
    PROVE  /\ Authorizes(t)' => Authorizes(t)
           /\ t \in DOMAIN leases' =>
                 t \in DOMAIN leases /\ (leases[t].revoked => leases'[t].revoked)
<1> USE DEF LeaseTypeOK
<1>1. CASE LeaseTick
  BY <1>1, LeaseAssumption DEF LeaseTick, Authorizes, IsExpired
<1>2. ASSUME NEW u \in Tasks, Issue(u)
      PROVE  /\ Authorizes(t)' => Authorizes(t)
             /\ t \in DOMAIN leases' =>
                   t \in DOMAIN leases /\ leases'[t] = leases[t]
  <2>1. t # u /\ clock' = clock
    BY <1>2 DEF Issue
  <2>2. CASE leases' = Keep(Live)
    BY <2>1, <2>2 DEF Keep, Live, Authorizes, IsExpired
  <2>3. CASE leases' = [v \in Live \cup {u} |-> IF v = u
                 THEN [expiresAt |-> clock + Ttl, revoked |-> FALSE]
                 ELSE leases[v]]
    BY <2>1, <2>3 DEF Live, Authorizes, IsExpired
  <2> QED
    BY <1>2, <2>2, <2>3 DEF Issue
<1>3. ASSUME NEW u \in Tasks, Revoke(u), clock' = clock
      PROVE  /\ Authorizes(t)' => Authorizes(t)
             /\ t \in DOMAIN leases' =>
                   t \in DOMAIN leases /\ (leases[t].revoked => leases'[t].revoked)
  BY <1>3 DEF Revoke, Authorizes, IsExpired
<1>4. CASE UNCHANGED <<clock, leases>>
  BY <1>4 DEF Authorizes, IsExpired
<1> QED
  BY <1>1, <1>2, <1>3, <1>4
     DEF LeaseNext, RefuseRepo, Provision, PushContext, Exec, DestroySandbox, Release, Deny

LEMMA LeaseTypeStep ==
    ASSUME LeaseTypeOK, LeaseNext
    PROVE  LeaseTypeOK'
<1> USE LeaseAssumption DEF LeaseTypeOK, TaskStates
<1>1. CASE LeaseTick
  BY <1>1 DEF LeaseTick
<1>2. ASSUME NEW t \in Tasks, Issue(t)
      PROVE  LeaseTypeOK'
  <2>1. clock + Ttl \in 0 .. MaxClock + Ttl
    OBVIOUS
  <2>2. CASE leases' = Keep(Live)
    BY <1>2, <2>2 DEF Issue, Keep, Live
  <2>3. CASE leases' = [u \in Live \cup {t} |-> IF u = t
                 THEN [expiresAt |-> clock + Ttl, revoked |-> FALSE]
                 ELSE leases[u]]
    <3>1. \A u \in DOMAIN leases' :
              leases'[u] \in [expiresAt : 0 .. MaxClock + Ttl, revoked : BOOLEAN]
      BY <2>1, <2>3 DEF Live
    <3> QED
      BY <1>2, <2>3, <3>1 DEF Issue, Live
  <2> QED
    BY <1>2, <2>2, <2>3 DEF Issue
<1>3. ASSUME NEW t \in Tasks, Revoke(t)
      PROVE  /\ DOMAIN leases' = DOMAIN leases
             /\ \A u \in DOMAIN leases' :
                  leases'[u] \in [expiresAt : 0 .. MaxClock + Ttl, revoked : BOOLEAN]
  BY <1>3 DEF Revoke
<1>4. ASSUME NEW t \in Tasks, RefuseRepo(t) \/ PushContext(t) \/ Exec(t)
                              \/ DestroySandbox(t) \/ Deny(t)
      PROVE  LeaseTypeOK'
  BY <1>4 DEF RefuseRepo, PushContext, Exec, DestroySandbox, Deny
<1>5. ASSUME NEW t \in Tasks, Provision(t)
      PROVE  LeaseTypeOK'
  <2>1. CASE Revoke(t) /\ task' = [task EXCEPT ![t] = "done"] /\ UNCHANGED sandbox
    BY <1>5, <2>1, <1>3 DEF Provision
  <2>2. CASE UNCHANGED leases
    BY <1>5, <2>2 DEF Provision
  <2> QED
    BY <1>5, <2>1, <2>2 DEF Provision
<1>6. ASSUME NEW t \in Tasks, Release(t)
      PROVE  LeaseTypeOK'
  BY <1>6, <1>3 DEF Release
<1> QED
  BY <1>1, <1>2, <1>4, <1>5, <1>6 DEF LeaseNext

LEMMA LeaseStep ==
    ASSUME LeaseInv, LeaseNext
    PROVE  LeaseInv'
<1> USE DEF LeaseInv
<1>1. LeaseTypeOK'
  BY LeaseTypeStep
<1>2. ASSUME NEW t \in Tasks
      PROVE  LeaseIsSound(t)'
  <2> USE DEF LeaseTypeOK
  <2>1. CASE task[t] = "waiting" /\ task'[t] = "waiting"
    <3>1. t \notin DOMAIN leases /\ sandbox[t] = "none" /\ t \notin denied
      BY <2>1 DEF LeaseIsSound
    <3>2. t \notin DOMAIN leases'
      <4>1. ASSUME NEW u \in Tasks, Issue(u)
            PROVE  t \notin DOMAIN leases'
        BY <2>1, <3>1, <4>1 DEF Issue, Keep, Live
      <4> QED
        BY <3>1, <4>1 DEF LeaseNext, LeaseTick, RefuseRepo, Provision, PushContext, Exec,
                          DestroySandbox, Release, Deny, Revoke
    <3>3. sandbox'[t] = "none" /\ t \notin denied'
      BY <2>1, <3>1 DEF LeaseNext, LeaseTick, Issue, RefuseRepo, Provision, PushContext,
                        Exec, DestroySandbox, Release, Deny
    <3> QED
      BY <2>1, <3>2, <3>3 DEF LeaseIsSound
  <2>2. CASE task[t] = "waiting" /\ task'[t] # "waiting"
    <3>1. t \notin DOMAIN leases /\ t \notin denied
      BY <2>2 DEF LeaseIsSound
    <3>2. Issue(t) \/ RefuseRepo(t)
      <4>1. task \in [Tasks -> TaskStates] /\ task' # task
        BY <2>2
      <4>2. PICK u \in Tasks : \/ Issue(u) \/ RefuseRepo(u) \/ Provision(u) \/ PushContext(u)
                               \/ Exec(u) \/ DestroySandbox(u) \/ Release(u) \/ Deny(u)
        BY <4>1 DEF LeaseNext, LeaseTick
      <4>3. u = t
        BY <2>2, <4>1, <4>2 DEF Issue, RefuseRepo, Provision, PushContext, Exec,
                                DestroySandbox, Release, Deny
      <4> QED
        BY <2>2, <4>1, <4>2, <4>3 DEF Provision, PushContext, Exec, DestroySandbox, Release, Deny
    <3>3. denied' = denied /\ (task'[t] = "done" => t \notin DOMAIN leases')
      BY <3>1, <3>2 DEF Issue, RefuseRepo, Keep, Live
    <3> QED
      BY <2>2, <3>1, <3>3 DEF LeaseIsSound
  <2>3. CASE task[t] # "waiting"
    <3>1. task'[t] # "waiting"
      BY <2>3 DEF LeaseNext, LeaseTick, Issue, RefuseRepo, Provision, PushContext, Exec,
                  DestroySandbox, Release, Deny
    <3>2. task'[t] = "done" /\ t \in DOMAIN leases' => leases'[t].revoked
      <4>1. CASE task[t] = "done"
        BY <4>1, <2>3, LeasesOnlyDie DEF LeaseIsSound
      <4>2. CASE task[t] # "done" /\ task'[t] = "done"
        <5>1. Revoke(t)
          BY <2>3, <4>2 DEF LeaseNext, LeaseTick, Issue, RefuseRepo, Provision,
                            PushContext, Exec, DestroySandbox, Release, Deny
        <5> QED
          BY <5>1 DEF Revoke
      <4> QED
        BY <4>1, <4>2
    <3>3. t \in denied' => t \in denied \/ (~Authorizes(t) /\ UNCHANGED <<clock, leases>>)
      BY DEF LeaseNext, LeaseTick, Issue, RefuseRepo, Provision, PushContext, Exec,
             DestroySandbox, Release, Deny
    <3>4. t \in denied' => ~Authorizes(t)'
      BY <2>3, <3>3, LeasesOnlyDie DEF LeaseIsSound
    <3> QED
      BY <3>1, <3>2, <3>4 DEF LeaseIsSound
  <2> QED
    BY <2>1, <2>2, <2>3
<1> QED
  BY <1>1, <1>2

LEMMA LeaseIsGood ==
    ASSUME LeaseInv
    PROVE  LeaseEndsWithItsTask
BY DEF LeaseInv, LeaseIsSound, LeaseEndsWithItsTask, Authorizes

-----------------------------------------------------------------------------
(* Sandboxes                                                               *)

\* What a coder has of its sandbox, and what the server has, hang together:
\* before the first use there is neither; a handle means the server built one;
\* whatever was lost is on record; and a reaper has on its list only sandboxes
\* of other coders of its run.
SandboxIsSound(c) ==
    /\ coder[c] = "waiting" => listed[c] = {}
    /\ coder[c] \in {"waiting", "reaping"} => handle[c] = "none"
    /\ coder[c] \in {"waiting", "reaping", "phase", "disposing"} /\ handle[c] = "none"
           => server[c] = "none"
    /\ coder[c] = "disposing" => handle[c] \in {"none", "ready", "rejected"}
    /\ handle[c] \in {"vault", "ready"} => server[c] \notin {"none", "building"}
    /\ handle[c] = "rejected" => c \in leaks
    /\ coder[c] = "over" /\ c \notin leaks => server[c] \notin {"building", "alive"}
    /\ \A s \in listed[c] : s # c /\ RunOf[s] = RunOf[c]
    /\ server[c] = "reaped" =>
          \E d \in Coders \ {c} : RunOf[d] = RunOf[c] /\ coder[d] # "waiting"

SandboxInv == SandboxTypeOK /\ \A c \in Coders : SandboxIsSound(c)

LEMMA SandboxTypeStep ==
    ASSUME SandboxTypeOK, SandboxNext
    PROVE  SandboxTypeOK'
<1> PICK c \in Coders :
        \/ ListSandboxes(c) \/ (\E s \in Coders : KillListed(c, s)) \/ BeginPhase(c)
        \/ CreateSandbox(c) \/ BuildSandbox(c) \/ CreateReturns(c) \/ SeedVault(c)
        \/ EndPhase(c) \/ Dispose(c) \/ ExpireSandbox(c) \/ CrashCoder(c)
  BY DEF SandboxNext
<1> USE DEF SandboxTypeOK, MoveCoder
<1>1. CASE ListSandboxes(c)
  BY <1>1 DEF ListSandboxes, SandboxesOf
<1>2. ASSUME NEW s \in Coders, KillListed(c, s)
      PROVE  SandboxTypeOK'
  BY <1>2 DEF KillListed
<1>3. CASE BeginPhase(c) \/ CreateSandbox(c) \/ BuildSandbox(c) \/ EndPhase(c)
           \/ ExpireSandbox(c)
  BY <1>3 DEF BeginPhase, CreateSandbox, BuildSandbox, EndPhase, ExpireSandbox
<1>4. CASE CreateReturns(c) \/ SeedVault(c)
  BY <1>4 DEF CreateReturns, SeedVault
<1>5. CASE Dispose(c)
  BY <1>5 DEF Dispose
<1>6. CASE CrashCoder(c)
  BY <1>6 DEF CrashCoder
<1> QED
  BY <1>1, <1>2, <1>3, <1>4, <1>5, <1>6

\* Only a reaper ends a sandbox that is not its own, and a coder that has left
\* "waiting" never returns to it.
LEMMA OthersSandboxStep ==
    ASSUME SandboxInv, NEW c \in Coders, NEW b \in Coders, b # c,
           \/ ListSandboxes(b) \/ (\E s \in Coders : KillListed(b, s)) \/ BeginPhase(b)
           \/ CreateSandbox(b) \/ BuildSandbox(b) \/ CreateReturns(b) \/ SeedVault(b)
           \/ EndPhase(b) \/ Dispose(b) \/ ExpireSandbox(b) \/ CrashCoder(b)
    PROVE  /\ coder'[c] = coder[c] /\ handle'[c] = handle[c] /\ listed'[c] = listed[c]
           /\ c \in leaks => c \in leaks'
           /\ \/ server'[c] = server[c]
              \/ /\ server[c] = "alive" /\ server'[c] = "reaped"
                 /\ RunOf[b] = RunOf[c] /\ coder'[b] # "waiting"
<1> USE DEF SandboxInv, SandboxTypeOK, MoveCoder
<1>1. ASSUME NEW s \in Coders, KillListed(b, s), s = c
      PROVE  /\ RunOf[b] = RunOf[c] /\ coder'[b] # "waiting"
             /\ server'[c] \in {server[c], "reaped"}
             /\ server'[c] # server[c] => server[c] = "alive"
  BY <1>1 DEF KillListed, SandboxIsSound
<1>2. ASSUME NEW s \in Coders, KillListed(b, s)
      PROVE  /\ coder' = coder /\ handle' = handle /\ listed'[c] = listed[c]
             /\ c \in leaks => c \in leaks'
             /\ s # c => server'[c] = server[c]
  BY <1>2 DEF KillListed
<1> QED
  BY <1>1, <1>2 DEF ListSandboxes, BeginPhase, CreateSandbox, BuildSandbox, CreateReturns,
                    SeedVault, EndPhase, Dispose, ExpireSandbox, CrashCoder

LEMMA OwnSandboxStep ==
    ASSUME SandboxInv, NEW c \in Coders,
           \/ ListSandboxes(c) \/ (\E s \in Coders : KillListed(c, s)) \/ BeginPhase(c)
           \/ CreateSandbox(c) \/ BuildSandbox(c) \/ CreateReturns(c) \/ SeedVault(c)
           \/ EndPhase(c) \/ Dispose(c) \/ ExpireSandbox(c) \/ CrashCoder(c)
    PROVE  /\ SandboxIsSound(c)'
           /\ \A d \in Coders : coder[d] # "waiting" => coder'[d] # "waiting"
<1> USE DEF SandboxInv, SandboxTypeOK, MoveCoder
<1>1. \A d \in Coders : coder[d] # "waiting" => coder'[d] # "waiting"
  BY DEF ListSandboxes, KillListed, BeginPhase, CreateSandbox, BuildSandbox, CreateReturns,
         SeedVault, EndPhase, Dispose, ExpireSandbox, CrashCoder
<1>2. ASSUME server'[c] = "reaped"
      PROVE  \E d \in Coders \ {c} : RunOf[d] = RunOf[c] /\ coder'[d] # "waiting"
  <2>1. server[c] = "reaped"
    <3>1. ASSUME NEW s \in Coders, KillListed(c, s)
          PROVE  s # c /\ server'[c] = server[c]
      BY <3>1 DEF KillListed, SandboxIsSound
    <3> QED
      BY <1>2, <3>1 DEF ListSandboxes, BeginPhase, CreateSandbox, BuildSandbox,
                        CreateReturns, SeedVault, EndPhase, Dispose, ExpireSandbox,
                        CrashCoder
  <2> QED
    BY <1>1, <2>1 DEF SandboxIsSound
<1>3. \A s \in listed'[c] : s # c /\ RunOf[s] = RunOf[c]
  <2>1. CASE ListSandboxes(c)
    BY <2>1 DEF ListSandboxes, SandboxesOf, SandboxIsSound
  <2>2. CASE ~ListSandboxes(c)
    BY <2>2 DEF KillListed, BeginPhase, CreateSandbox, BuildSandbox, CreateReturns,
           SeedVault, EndPhase, Dispose, ExpireSandbox, CrashCoder, SandboxIsSound
  <2> QED
    BY <2>1, <2>2
<1> DEFINE Rest(w, h, s, l) ==
        /\ w # "waiting"
        /\ w = "reaping" => h = "none"
        /\ w \in {"reaping", "phase", "disposing"} /\ h = "none" => s = "none"
        /\ w = "disposing" => h \in {"none", "ready", "rejected"}
        /\ h \in {"vault", "ready"} => s \notin {"none", "building"}
        /\ h = "rejected" => l
        /\ w = "over" /\ ~l => s \notin {"building", "alive"}
<1>4. coder'[c] # "waiting" => Rest(coder'[c], handle'[c], server'[c], c \in leaks')
  <2>1. CASE ListSandboxes(c) \/ BeginPhase(c) \/ CreateSandbox(c) \/ EndPhase(c)
    BY <2>1 DEF ListSandboxes, BeginPhase, CreateSandbox, EndPhase, SandboxIsSound
  <2>2. ASSUME NEW s \in Coders, KillListed(c, s)
        PROVE  coder'[c] # "waiting" => Rest(coder'[c], handle'[c], server'[c], c \in leaks')
    BY <2>2 DEF KillListed, SandboxIsSound
  <2>3. CASE BuildSandbox(c) \/ ExpireSandbox(c)
    BY <2>3 DEF BuildSandbox, ExpireSandbox, SandboxIsSound
  <2>4. CASE CreateReturns(c) \/ SeedVault(c)
    BY <2>4 DEF CreateReturns, SeedVault, SandboxIsSound
  <2>5. CASE Dispose(c)
    BY <2>5 DEF Dispose, SandboxIsSound
  <2>6. CASE CrashCoder(c)
    BY <2>6 DEF CrashCoder, SandboxIsSound
  <2> QED
    BY <2>1, <2>2, <2>3, <2>4, <2>5, <2>6
<1>5. coder'[c] = "waiting" => FALSE
  <2>1. ASSUME coder[c] = "waiting"
        PROVE  coder'[c] # "waiting"
    BY <2>1 DEF ListSandboxes, KillListed, BeginPhase, CreateSandbox, BuildSandbox,
                CreateReturns, SeedVault, EndPhase, Dispose, ExpireSandbox, CrashCoder,
                SandboxIsSound
  <2> QED
    BY <1>1, <2>1
<1> QED
  BY <1>1, <1>2, <1>3, <1>4, <1>5 DEF SandboxIsSound

LEMMA SandboxStep ==
    ASSUME SandboxInv, SandboxNext
    PROVE  SandboxInv'
<1>1. SandboxTypeOK'
  BY SandboxTypeStep DEF SandboxInv
<1>2. PICK b \in Coders :
        \/ ListSandboxes(b) \/ (\E s \in Coders : KillListed(b, s)) \/ BeginPhase(b)
        \/ CreateSandbox(b) \/ BuildSandbox(b) \/ CreateReturns(b) \/ SeedVault(b)
        \/ EndPhase(b) \/ Dispose(b) \/ ExpireSandbox(b) \/ CrashCoder(b)
  BY DEF SandboxNext
<1>3. /\ SandboxIsSound(b)'
      /\ \A d \in Coders : coder[d] # "waiting" => coder'[d] # "waiting"
  BY <1>2, OwnSandboxStep
<1>4. ASSUME NEW c \in Coders, c # b
      PROVE  SandboxIsSound(c)'
  <2>1. /\ coder'[c] = coder[c] /\ handle'[c] = handle[c] /\ listed'[c] = listed[c]
        /\ c \in leaks => c \in leaks'
        /\ \/ server'[c] = server[c]
           \/ /\ server[c] = "alive" /\ server'[c] = "reaped"
              /\ RunOf[b] = RunOf[c] /\ coder'[b] # "waiting"
    BY <1>2, <1>4, OthersSandboxStep
  <2> QED
    BY <1>3, <1>4, <2>1 DEF SandboxInv, SandboxIsSound
<1> QED
  BY <1>1, <1>3, <1>4 DEF SandboxInv

LEMMA SandboxIsGood ==
    ASSUME SandboxInv
    PROVE  SandboxIsDisposed
BY DEF SandboxInv, SandboxIsSound, SandboxIsDisposed

-----------------------------------------------------------------------------
(* Tenants                                                                 *)

SeedRecord ==
    [at : {"idle", "owners", "upsert", "rename", "insert", "assign", "move", "done"},
     slug : Slugs \cup {Nobody}, repos : SUBSET Repos,
     row : Statuses \cup {"none"}, todo : SUBSET Repos,
     moving : Repos \cup {Nobody}]

\* Where a seed is says what it holds.
SeedIsFormed(x) ==
    /\ x.at \in {"idle", "done"} => x.todo = {}
    /\ x.at \notin {"idle", "done"} => x.slug \in Slugs
    /\ x.at = "move" => x.moving \in x.todo

\* What a seed that has the registry to itself knows still stands: the status
\* it read is the tenant's, and what it has left to assign is nobody's.
SeedIsSound(x) ==
    /\ x.at = "rename" => x.row = tenants[x.slug]
    /\ \A r \in x.todo : tenantOf[r] = Nobody

OneSeed == \A s, o \in Seeds : Seeding(s) /\ Seeding(o) => s = o

RegistryStands ==
    /\ \A r \in Repos : attributed[r] \subseteq {tenantOf[r]}
    /\ \A t \in Slugs : tenants[t] \in {word[t], "none"}
    /\ \A t \in Slugs : tenants[t] = "none" => word[t] = "active"

\* The inductive invariant: past its first line but one it speaks of what no
\* race has disturbed.
TenantInv ==
    /\ TenantsTypeOK
    /\ \A s \in Seeds : SeedIsFormed(seed[s])
    /\ ~raced => OneSeed /\ RegistryStands /\ \A s \in Seeds : SeedIsSound(seed[s])

\* What a step of a seed leaves: its own record is all that matters.
LEMMA SeedTurn ==
    ASSUME TenantsTypeOK, NEW s \in Seeds, NEW x \in SeedRecord,
           seed' = [seed EXCEPT ![s] = x], SeedIsFormed(x),
           \A o \in Seeds : SeedIsFormed(seed[o])
    PROVE  /\ seed' \in [Seeds -> SeedRecord]
           /\ \A o \in Seeds : SeedIsFormed(seed'[o])
           /\ SeedIsSound(x)' /\ (\A o \in Seeds \ {s} : ~Seeding(o)) =>
                 OneSeed' /\ \A o \in Seeds : SeedIsSound(seed[o])'
<1>1. seed \in [Seeds -> SeedRecord]
  BY DEF TenantsTypeOK, SeedRecord
<1>2. seed'[s] = x /\ \A o \in Seeds \ {s} : seed'[o] = seed[o]
  BY <1>1
<1>3. seed' \in [Seeds -> SeedRecord] /\ \A o \in Seeds : SeedIsFormed(seed'[o])
  BY <1>1, <1>2
<1>4. ASSUME SeedIsSound(x)', \A o \in Seeds \ {s} : ~Seeding(o)
      PROVE  OneSeed' /\ \A o \in Seeds : SeedIsSound(seed[o])'
  <2>1. \A o \in Seeds \ {s} : ~Seeding(o)'
    BY <1>2, <1>4 DEF Seeding
  <2>2. OneSeed'
    BY <2>1 DEF OneSeed
  <2>3. SeedIsSound(seed[s])'
    BY <1>2, <1>4 DEF SeedIsSound
  <2>4. ASSUME NEW o \in Seeds \ {s}
        PROVE  SeedIsSound(seed[o])'
    BY <1>2, <1>4 DEF SeedIsSound, Seeding, SeedIsFormed
  <2> QED
    BY <2>2, <2>3, <2>4
<1> QED
  BY <1>3, <1>4

\* Every step of a seed under way, by the record x it leaves.
SeedLeaves(s, x) ==
    /\ seed' = [seed EXCEPT ![s] = x]
    /\ SeedIsFormed(x)
    /\ SeedIsSound(seed[s]) => SeedIsSound(x)'

LEMMA EndLeaves ==
    ASSUME NEW s \in Seeds, EndSeed(s)
    PROVE  \E x \in SeedRecord : SeedLeaves(s, x)
<1> DEFINE e == [IdleSeed EXCEPT !.at = "done"]
<1>1. PICK x \in SeedRecord : x = e
  BY DEF IdleSeed, SeedRecord
<1>2. x.at = "done" /\ x.todo = {}
  BY <1>1 DEF IdleSeed
<1>3. seed' = [seed EXCEPT ![s] = x]
  BY <1>1 DEF EndSeed
<1> QED
  BY <1>2, <1>3 DEF SeedLeaves, SeedIsFormed, SeedIsSound

LEMMA SeedReadsLeave ==
    ASSUME TenantsTypeOK, NEW s \in Seeds, SeedIsFormed(seed[s]),
           \/ ListAssignments(s) \/ ReadTenant(s) \/ StopSeed(s)
           \/ \E r \in Repos : ReadAssignment(s, r)
    PROVE  /\ UNCHANGED <<tenants, tenantOf, attributed, word, turns, raced>>
           /\ \E x \in SeedRecord : SeedLeaves(s, x)
<1> DEFINE y == seed[s]
<1>1. seed \in [Seeds -> SeedRecord] /\ y \in SeedRecord
  BY DEF TenantsTypeOK, SeedRecord
<1>2. UNCHANGED <<tenants, tenantOf, attributed, word, turns, raced>>
  BY DEF ListAssignments, ReadTenant, StopSeed, ReadAssignment
<1>3. CASE ListAssignments(s)
  <2>1. CASE EndSeed(s)
    BY <1>2, <2>1, EndLeaves
  <2>2. CASE seed' = [seed EXCEPT ![s].at = "upsert",
                        ![s].todo = {r \in seed[s].repos : tenantOf[r] = Nobody}]
    <3>1. PICK open \in SUBSET Repos : open = {r \in y.repos : tenantOf[r] = Nobody}
      BY <1>1 DEF SeedRecord
    <3>2. PICK x \in SeedRecord : x = [y EXCEPT !.at = "upsert", !.todo = open]
      BY <1>1 DEF SeedRecord
    <3>3. seed' = [seed EXCEPT ![s] = x]
      BY <1>1, <2>2, <3>1, <3>2 DEF SeedRecord
    <3>4. x.at = "upsert" /\ x.todo = open /\ x.slug = y.slug /\ y.at = "owners"
      BY <1>1, <1>3, <3>2 DEF SeedRecord, ListAssignments
    <3> QED
      BY <1>2, <3>1, <3>3, <3>4 DEF SeedLeaves, SeedIsFormed, SeedIsSound
  <2> QED
    BY <1>3, <2>1, <2>2 DEF ListAssignments
<1>4. CASE ReadTenant(s)
  <2>1. y.at = "upsert" /\ y.slug \in Slugs
    BY <1>4 DEF ReadTenant, SeedIsFormed
  <2>2. PICK found \in Statuses \cup {"none"} : found = tenants[y.slug]
    BY <2>1 DEF TenantsTypeOK
  <2>3. PICK at \in {"insert", "rename"} : at = IF found = "none" THEN "insert" ELSE "rename"
    OBVIOUS
  <2>4. PICK x \in SeedRecord : x = [y EXCEPT !.row = found, !.at = at]
    BY <1>1, <2>2, <2>3 DEF SeedRecord
  <2>5. seed' = [seed EXCEPT ![s] = x]
    BY <1>1, <1>4, <2>2, <2>3, <2>4 DEF SeedRecord, ReadTenant
  <2>6. x.at = at /\ x.row = found /\ x.slug = y.slug /\ x.todo = y.todo
    BY <1>1, <2>4 DEF SeedRecord
  <2> QED
    BY <1>2, <2>1, <2>2, <2>3, <2>5, <2>6 DEF SeedLeaves, SeedIsFormed, SeedIsSound
<1>5. CASE StopSeed(s)
  BY <1>2, <1>5, EndLeaves DEF StopSeed
<1>6. ASSUME NEW r \in Repos, ReadAssignment(s, r)
      PROVE  \E x \in SeedRecord : SeedLeaves(s, x)
  <2>1. y.at = "assign" /\ r \in y.todo
    BY <1>6 DEF ReadAssignment
  <2>2. \/ EndSeed(s)
        \/ seed' = [seed EXCEPT ![s].todo = @ \ {r}]
        \/ seed' = [seed EXCEPT ![s].at = "move", ![s].moving = r]
    BY <1>6 DEF ReadAssignment
  <2>3. CASE seed' = [seed EXCEPT ![s].todo = @ \ {r}]
    <3>1. PICK x \in SeedRecord : x = [y EXCEPT !.todo = y.todo \ {r}]
      BY <1>1 DEF SeedRecord
    <3>2. seed' = [seed EXCEPT ![s] = x]
      BY <1>1, <2>3, <3>1 DEF SeedRecord
    <3>3. x.at = y.at /\ x.slug = y.slug /\ x.todo = y.todo \ {r}
      BY <1>1, <3>1 DEF SeedRecord
    <3> QED
      BY <1>2, <2>1, <3>2, <3>3 DEF SeedLeaves, SeedIsFormed, SeedIsSound
  <2>4. CASE seed' = [seed EXCEPT ![s].at = "move", ![s].moving = r]
    <3>1. PICK x \in SeedRecord : x = [y EXCEPT !.at = "move", !.moving = r]
      BY <1>1 DEF SeedRecord
    <3>2. seed' = [seed EXCEPT ![s] = x]
      BY <1>1, <2>4, <3>1 DEF SeedRecord
    <3>3. x.at = "move" /\ x.slug = y.slug /\ x.todo = y.todo /\ x.moving = r
      BY <1>1, <3>1 DEF SeedRecord
    <3> QED
      BY <1>2, <2>1, <3>2, <3>3 DEF SeedLeaves, SeedIsFormed, SeedIsSound
  <2> QED
    BY <2>2, <2>3, <2>4, EndLeaves
<1> QED
  BY <1>2, <1>3, <1>4, <1>5, <1>6

\* The three writes of a seed, each by the record it leaves and the row it
\* writes.
LEMMA RenameLeaves ==
    ASSUME TenantsTypeOK, NEW s \in Seeds, SeedIsFormed(seed[s]), RenameTenant(s)
    PROVE  /\ UNCHANGED <<tenantOf, attributed, word, turns, raced>>
           /\ seed[s].slug \in Slugs /\ seed[s].at = "rename"
           /\ tenants' \in [Slugs -> Statuses \cup {"none"}]
           /\ tenants' = [tenants EXCEPT ![seed[s].slug] = seed[s].row]
           /\ \E x \in SeedRecord : SeedLeaves(s, x)
<1> DEFINE y == seed[s]
<1>1. seed \in [Seeds -> SeedRecord] /\ y \in SeedRecord
  BY DEF TenantsTypeOK, SeedRecord
<1>2. y.slug \in Slugs /\ y.at = "rename" /\ y.row \in Statuses \cup {"none"}
  BY <1>1 DEF RenameTenant, SeedIsFormed, SeedRecord
<1>3. /\ tenants' = [tenants EXCEPT ![y.slug] = y.row]
      /\ UNCHANGED <<tenantOf, attributed, word, turns, raced>>
  BY DEF RenameTenant, StatusKept
<1>4. PICK x \in SeedRecord : x = [y EXCEPT !.at = "assign"]
  BY <1>1 DEF SeedRecord
<1>5. seed' = [seed EXCEPT ![s] = x]
  BY <1>1, <1>4 DEF SeedRecord, RenameTenant, MoveSeed
<1>6. x.at = "assign" /\ x.slug = y.slug /\ x.todo = y.todo
  BY <1>1, <1>4 DEF SeedRecord
<1>7. SeedLeaves(s, x)
  BY <1>2, <1>3, <1>5, <1>6 DEF SeedLeaves, SeedIsFormed, SeedIsSound
<1> QED
  BY <1>2, <1>3, <1>7 DEF TenantsTypeOK

LEMMA InsertLeaves ==
    ASSUME TenantsTypeOK, NEW s \in Seeds, SeedIsFormed(seed[s]), InsertTenant(s)
    PROVE  /\ UNCHANGED <<tenantOf, attributed, word, turns, raced>>
           /\ seed[s].slug \in Slugs /\ Seeding(s)
           /\ tenants' \in [Slugs -> Statuses \cup {"none"}]
           /\ \/ tenants' = tenants
              \/ /\ tenants[seed[s].slug] = "none"
                 /\ tenants' = [tenants EXCEPT ![seed[s].slug] = "active"]
           /\ \E x \in SeedRecord : SeedLeaves(s, x)
<1> DEFINE y == seed[s]
<1>1. seed \in [Seeds -> SeedRecord] /\ y \in SeedRecord
  BY DEF TenantsTypeOK, SeedRecord
<1>2. y.slug \in Slugs /\ y.at = "insert" /\ Seeding(s)
  BY DEF InsertTenant, SeedIsFormed, Seeding
<1>3. UNCHANGED <<tenantOf, attributed, word, turns, raced>>
  BY DEF InsertTenant
<1>4. \/ tenants' = tenants
      \/ tenants[y.slug] = "none" /\ tenants' = [tenants EXCEPT ![y.slug] = "active"]
  BY DEF InsertTenant
<1>5. \E x \in SeedRecord : SeedLeaves(s, x)
  <2>1. CASE MoveSeed(s, "assign")
    <3>1. PICK x \in SeedRecord : x = [y EXCEPT !.at = "assign"]
      BY <1>1 DEF SeedRecord
    <3>2. seed' = [seed EXCEPT ![s] = x]
      BY <1>1, <2>1, <3>1 DEF SeedRecord, MoveSeed
    <3>3. x.at = "assign" /\ x.slug = y.slug /\ x.todo = y.todo
      BY <1>1, <3>1 DEF SeedRecord
    <3> QED
      BY <1>2, <1>3, <3>2, <3>3 DEF SeedLeaves, SeedIsFormed, SeedIsSound
  <2> QED
    BY <2>1, EndLeaves DEF InsertTenant
<1> QED
  BY <1>2, <1>3, <1>4, <1>5 DEF TenantsTypeOK, Statuses

LEMMA WriteLeaves ==
    ASSUME TenantsTypeOK, NEW s \in Seeds, SeedIsFormed(seed[s]), WriteAssignment(s)
    PROVE  /\ UNCHANGED <<tenants, attributed, word, turns, raced>>
           /\ seed[s].moving \in seed[s].todo /\ seed[s].moving \in Repos /\ Seeding(s)
           /\ tenantOf' \in [Repos -> Slugs \cup {Nobody}]
           /\ \A r \in Repos \ {seed[s].moving} : tenantOf'[r] = tenantOf[r]
           /\ \E x \in SeedRecord : SeedLeaves(s, x)
<1> DEFINE y == seed[s]
<1>1. seed \in [Seeds -> SeedRecord] /\ y \in SeedRecord
  BY DEF TenantsTypeOK, SeedRecord
<1>2. /\ y.slug \in Slugs /\ y.at = "move" /\ y.moving \in y.todo /\ Seeding(s)
      /\ y.moving \in Repos
  BY <1>1 DEF WriteAssignment, SeedIsFormed, Seeding, SeedRecord
<1>3. /\ UNCHANGED <<tenants, attributed, word, turns, raced>>
      /\ tenantOf' = [tenantOf EXCEPT ![y.moving] = y.slug]
  BY DEF WriteAssignment
<1>4. PICK x \in SeedRecord :
          x = [y EXCEPT !.at = "assign", !.todo = y.todo \ {y.moving}, !.moving = Nobody]
  BY <1>1 DEF SeedRecord
<1>5. seed' = [seed EXCEPT ![s] = x]
  BY <1>1, <1>4 DEF SeedRecord, WriteAssignment
<1>6. x.at = "assign" /\ x.slug = y.slug /\ x.todo = y.todo \ {y.moving}
  BY <1>1, <1>4 DEF SeedRecord
<1>7. \A r \in Repos \ {y.moving} : tenantOf'[r] = tenantOf[r]
  BY <1>3 DEF TenantsTypeOK
<1>8. x.todo \subseteq Repos \ {y.moving}
  BY <1>1, <1>6 DEF SeedRecord
<1>9. SeedLeaves(s, x)
  BY <1>2, <1>5, <1>6, <1>7, <1>8 DEF SeedLeaves, SeedIsFormed, SeedIsSound
<1> QED
  BY <1>2, <1>3, <1>7, <1>9 DEF TenantsTypeOK

\* A step of a seed under way that leaves the registry standing keeps the
\* invariant: no other seed was under way, unless two had raced.
LEMMA SeedKeepsInv ==
    ASSUME TenantInv, NEW s \in Seeds, Seeding(s), UNCHANGED <<word, turns, raced>>,
           tenants' \in [Slugs -> Statuses \cup {"none"}],
           tenantOf' \in [Repos -> Slugs \cup {Nobody}],
           attributed' = attributed,
           \E x \in SeedRecord : SeedLeaves(s, x),
           ~raced => RegistryStands'
    PROVE  TenantInv'
<1>1. PICK x \in SeedRecord : SeedLeaves(s, x)
  OBVIOUS
<1>2. /\ seed' \in [Seeds -> SeedRecord]
      /\ \A o \in Seeds : SeedIsFormed(seed'[o])
      /\ SeedIsSound(x)' /\ (\A o \in Seeds \ {s} : ~Seeding(o)) =>
            OneSeed' /\ \A o \in Seeds : SeedIsSound(seed[o])'
  BY <1>1, SeedTurn DEF TenantInv, SeedLeaves
<1>3. TenantsTypeOK'
  BY <1>2 DEF TenantInv, TenantsTypeOK, SeedRecord
<1>4. (\A o \in Seeds : SeedIsFormed(seed[o]))'
  BY <1>2 DEF SeedIsFormed
<1>5. ASSUME ~raced
      PROVE  OneSeed' /\ \A o \in Seeds : SeedIsSound(seed[o])'
  <2>1. \A o \in Seeds \ {s} : ~Seeding(o)
    BY <1>5 DEF TenantInv, OneSeed
  <2>2. SeedIsSound(x)'
    BY <1>1, <1>5 DEF SeedLeaves, TenantInv
  <2> QED
    BY <1>2, <2>1, <2>2
<1> QED
  BY <1>3, <1>4, <1>5 DEF TenantInv

LEMMA TenantStep ==
    ASSUME TenantInv, TenantsNext
    PROVE  TenantInv'
<1> USE DEF TenantInv
<1>1. ASSUME NEW s \in Seeds,
             \/ ListAssignments(s) \/ ReadTenant(s) \/ StopSeed(s)
             \/ \E r \in Repos : ReadAssignment(s, r)
      PROVE  TenantInv'
  <2>1. /\ UNCHANGED <<tenants, tenantOf, attributed, word, turns, raced>>
        /\ \E x \in SeedRecord : SeedLeaves(s, x)
    BY <1>1, SeedReadsLeave
  <2>2. Seeding(s)
    BY <1>1 DEF Seeding, ListAssignments, ReadTenant, StopSeed, ReadAssignment
  <2>3. ~raced => RegistryStands'
    BY <2>1 DEF RegistryStands
  <2> QED
    BY <2>1, <2>2, <2>3, SeedKeepsInv DEF TenantsTypeOK
<1>2. ASSUME NEW s \in Seeds, RenameTenant(s)
      PROVE  TenantInv'
  <2>1. /\ UNCHANGED <<tenantOf, attributed, word, turns, raced>>
        /\ seed[s].slug \in Slugs /\ seed[s].at = "rename"
        /\ tenants' \in [Slugs -> Statuses \cup {"none"}]
        /\ tenants' = [tenants EXCEPT ![seed[s].slug] = seed[s].row]
        /\ \E x \in SeedRecord : SeedLeaves(s, x)
    BY <1>2, RenameLeaves
  <2>2. ASSUME ~raced
        PROVE  tenants' = tenants
    <3>1. seed[s].row = tenants[seed[s].slug]
      BY <2>1, <2>2 DEF SeedIsSound
    <3> QED
      BY <2>1, <3>1 DEF TenantsTypeOK
  <2>3. ~raced => RegistryStands'
    BY <2>1, <2>2 DEF RegistryStands
  <2>4. Seeding(s)
    BY <2>1 DEF Seeding
  <2> QED
    BY <2>1, <2>3, <2>4, SeedKeepsInv DEF TenantsTypeOK
<1>3. ASSUME NEW s \in Seeds, InsertTenant(s)
      PROVE  TenantInv'
  <2>1. /\ UNCHANGED <<tenantOf, attributed, word, turns, raced>>
        /\ seed[s].slug \in Slugs /\ Seeding(s)
        /\ tenants' \in [Slugs -> Statuses \cup {"none"}]
        /\ \/ tenants' = tenants
           \/ /\ tenants[seed[s].slug] = "none"
              /\ tenants' = [tenants EXCEPT ![seed[s].slug] = "active"]
        /\ \E x \in SeedRecord : SeedLeaves(s, x)
    BY <1>3, InsertLeaves
  <2>2. ~raced => RegistryStands'
    BY <2>1 DEF RegistryStands, TenantsTypeOK
  <2> QED
    BY <2>1, <2>2, SeedKeepsInv DEF TenantsTypeOK
<1>4. ASSUME NEW s \in Seeds, WriteAssignment(s)
      PROVE  TenantInv'
  <2>1. /\ UNCHANGED <<tenants, attributed, word, turns, raced>>
        /\ seed[s].moving \in seed[s].todo /\ seed[s].moving \in Repos /\ Seeding(s)
        /\ tenantOf' \in [Repos -> Slugs \cup {Nobody}]
        /\ \A r \in Repos \ {seed[s].moving} : tenantOf'[r] = tenantOf[r]
        /\ \E x \in SeedRecord : SeedLeaves(s, x)
    BY <1>4, WriteLeaves
  <2>2. ASSUME ~raced
        PROVE  attributed[seed[s].moving] = {}
    <3>1. tenantOf[seed[s].moving] = Nobody
      BY <2>1, <2>2 DEF SeedIsSound
    <3> QED
      BY <2>1, <2>2, <3>1, TenantAssumption DEF RegistryStands, TenantsTypeOK
  <2>3. ~raced => RegistryStands'
    BY <2>1, <2>2 DEF RegistryStands
  <2> QED
    BY <2>1, <2>3, SeedKeepsInv DEF TenantsTypeOK
<1>5. ASSUME NEW s \in Seeds, NEW t \in Slugs, NEW rs \in SUBSET Repos, ListTenants(s, t, rs)
      PROVE  TenantInv'
  <2>1. seed \in [Seeds -> SeedRecord] /\ seed[s] \in SeedRecord
    BY DEF TenantsTypeOK, SeedRecord
  <2>2. PICK found \in Statuses \cup {"none"} : found = tenants[t]
    BY DEF TenantsTypeOK
  <2>3. PICK x \in SeedRecord :
            x = [seed[s] EXCEPT !.at = "owners", !.row = found, !.slug = t, !.repos = rs]
    BY <2>1, <2>2 DEF SeedRecord
  <2>4. /\ seed' = [seed EXCEPT ![s] = x] /\ seed[s].at = "idle"
        /\ UNCHANGED <<tenants, tenantOf, attributed, word, turns>>
        /\ raced' = (raced \/ \E other \in Seeds : Seeding(other))
    BY <1>5, <2>1, <2>2, <2>3 DEF SeedRecord, ListTenants
  <2>5. x.at = "owners" /\ x.slug = t /\ x.todo = seed[s].todo
    BY <2>1, <2>3 DEF SeedRecord
  <2>6. x.todo = {}
    BY <2>4, <2>5 DEF SeedIsFormed
  <2>7. SeedIsFormed(x) /\ SeedIsSound(x)'
    BY <2>5, <2>6 DEF SeedIsFormed, SeedIsSound
  <2>8. /\ seed' \in [Seeds -> SeedRecord]
        /\ \A o \in Seeds : SeedIsFormed(seed'[o])
        /\ (\A o \in Seeds \ {s} : ~Seeding(o)) =>
              OneSeed' /\ \A o \in Seeds : SeedIsSound(seed[o])'
    BY <2>4, <2>7, SeedTurn
  <2>9. TenantsTypeOK'
    BY <2>4, <2>8 DEF TenantsTypeOK, SeedRecord
  <2>10. ~raced' => RegistryStands'
    BY <2>4 DEF RegistryStands
  <2>11. ~raced' => \A o \in Seeds \ {s} : ~Seeding(o)
    BY <2>4
  <2> QED
    BY <2>8, <2>9, <2>10, <2>11 DEF SeedIsFormed
<1>6. ASSUME NEW t \in Slugs, NEW status \in Statuses, SetTenantStatus(t, status)
      PROVE  TenantInv'
  <2>1. /\ tenants' = [tenants EXCEPT ![t] = status] /\ word' = [word EXCEPT ![t] = status]
        /\ turns' = turns + 1 /\ turns < MaxTurns
        /\ raced' = (raced \/ \E s \in Seeds : seed[s].slug = t /\ seed[s].at = "rename")
        /\ UNCHANGED <<tenantOf, seed, attributed>>
    BY <1>6 DEF SetTenantStatus
  <2>2. TenantsTypeOK'
    BY <2>1, TenantAssumption DEF TenantsTypeOK
  <2>3. ~raced' => RegistryStands'
    BY <2>1 DEF RegistryStands, TenantsTypeOK, Statuses
  <2>4. ASSUME NEW s \in Seeds, ~raced'
        PROVE  SeedIsSound(seed[s])'
    BY <2>1, <2>4 DEF SeedIsSound, SeedIsFormed, TenantsTypeOK
  <2>5. ~raced' => OneSeed'
    BY <2>1 DEF OneSeed, Seeding
  <2>6. (\A s \in Seeds : SeedIsFormed(seed[s]))'
    BY <2>1 DEF SeedIsFormed
  <2> QED
    BY <2>2, <2>3, <2>4, <2>5, <2>6
<1>7. ASSUME NEW r \in Repos, AttributeRun(r)
      PROVE  TenantInv'
  <2>1. /\ tenantOf[r] # Nobody
        /\ attributed' = [attributed EXCEPT ![r] = @ \cup {tenantOf[r]}]
        /\ UNCHANGED <<tenants, tenantOf, seed, word, turns, raced>>
    BY <1>7 DEF AttributeRun, TenantForRepo
  <2>2. TenantsTypeOK'
    BY <2>1 DEF TenantsTypeOK
  <2>3. ~raced' => RegistryStands'
    BY <2>1 DEF RegistryStands, TenantsTypeOK
  <2>4. (\A s \in Seeds : SeedIsFormed(seed[s]) /\ (~raced => SeedIsSound(seed[s])))'
    BY <2>1 DEF SeedIsFormed, SeedIsSound
  <2>5. ~raced' => OneSeed'
    BY <2>1 DEF OneSeed, Seeding
  <2> QED
    BY <2>2, <2>3, <2>4, <2>5
<1> QED
  BY <1>1, <1>2, <1>3, <1>4, <1>5, <1>6, <1>7 DEF TenantsNext

LEMMA TenantIsGood ==
    ASSUME TenantInv
    PROVE  AttributionStands
BY DEF TenantInv, RegistryStands, AttributionStands

-----------------------------------------------------------------------------
(* The coding phase                                                        *)

Counts == [minutes : Nat, failed : Nat, tripped : BOOLEAN, trips : Nat]

\* What the breaker has of the one PBI of the phase: it is tripped for good,
\* or it is below both limits and never tripped.
Untripped(e) ==
    /\ e \in Counts
    /\ e.failed < MaxFailed /\ e.minutes < MaxMinutes
    /\ e.trips = 0 /\ e.tripped = FALSE

BudgetIsSound ==
    /\ recent \in Seq(Pbis)
    /\ ~IsTripped(Pbi) => Untripped(Entry(Pbi)) /\ trips = <<>>

\* What the phase knows of the tests holds from the pass to the push.
PhaseIsSound ==
    /\ coding \in [pc : {"loop", "author", "test", "finish", "commit", "pushed", "failed"},
                   iteration : 0 .. MaxIterations, passed : BOOLEAN,
                   written : SUBSET Files, vault : BOOLEAN]
    /\ workspace \in [Files -> Version]
    /\ coding.pc = "author" => coding.iteration > 0
    /\ coding.pc \in {"loop", "author", "test"} => ~coding.passed
    /\ coding.passed => tested = workspace
    /\ \A f \in coding.written : workspace[f] # 0
    /\ coding.pc \in {"commit", "pushed"} => coding.passed /\ ~IsTripped(Pbi)
    /\ coding.pc = "pushed" => \A f \in coding.written : branch[f] = workspace[f]

CodingInv == BudgetIsSound /\ PhaseIsSound

LEMMA WithoutIsSeq ==
    ASSUME NEW idle \in Seq(Pbis), NEW p \in Pbis
    PROVE  Without(idle, p) \in Seq(Pbis)
<1>1. CASE p \in ToSet(idle)
  <2>1. PICK n \in DOMAIN idle : n = CHOOSE i \in DOMAIN idle : idle[i] = p
    BY <1>1 DEF ToSet
  <2>2. n \in 1..Len(idle) /\ Len(idle) \in Nat
    OBVIOUS
  <2>3. SubSeq(idle, 1, n - 1) \in Seq(Pbis) /\ SubSeq(idle, n + 1, Len(idle)) \in Seq(Pbis)
    BY <2>2, SubSeqProperties
  <2>4. RemoveAt(idle, n) \in Seq(Pbis)
    BY <2>3, ConcatProperties DEF RemoveAt
  <2> QED
    BY <1>1, <2>1, <2>4 DEF Without
<1> QED
  BY <1>1 DEF Without

\* The PBI an activity was recorded on is tracked, whatever was evicted for it.
LEMMA TouchedIsKept ==
    ASSUME NEW idle \in Seq(Pbis), NEW p \in Pbis
    PROVE  /\ Kept(Append(idle, p)) \in Seq(Pbis)
           /\ p \in ToSet(Kept(Append(idle, p)))
           /\ ToSet(Kept(Append(idle, p))) \subseteq Pbis
<1> DEFINE s == Append(idle, p)
           from == IF Len(s) > MaxEntries THEN Len(s) - MaxEntries + 1 ELSE 1
           k == SubSeq(s, from, Len(s))
<1>1. s \in Seq(Pbis) /\ Len(s) = Len(idle) + 1 /\ s[Len(s)] = p /\ Len(idle) \in Nat
  OBVIOUS
<1>2. MaxEntries \in Nat /\ MaxEntries > 0
  BY BreakerAssumption
<1>3. from \in 1..Len(s) /\ Len(s) \in Nat
  BY <1>1, <1>2
<1>4. \A i \in from..Len(s) : s[i] \in Pbis
  BY <1>1, <1>3
<1> HIDE DEF s, from
<1>5. k \in Seq(Pbis) /\ Len(k) = Len(s) - from + 1 /\ k[Len(k)] = s[Len(s)]
  BY <1>3, <1>4, SubSeqProperties
<1>6. Len(k) \in DOMAIN k
  BY <1>3, <1>5
<1>7. p \in ToSet(k) /\ ToSet(k) \subseteq Pbis
  BY <1>1, <1>5, <1>6 DEF ToSet
<1> QED
  BY <1>5, <1>7 DEF Kept, s, from

\* What the parts of recordWorkerActivity work on.
Charged == [entry : Counts,
            events : Seq([pbi : Pbis, minutes : Nat, reason : {"minutes", "failed"}])]

LEMMA TripTrips ==
    ASSUME NEW b \in Charged, NEW p \in Pbis, NEW reason \in {"minutes", "failed"},
           b.entry.tripped \/ (b.entry.trips = 0 /\ b.events = <<>>)
    PROVE  Trip(b, p, reason) \in Charged /\ Trip(b, p, reason).entry.tripped
<1> USE DEF Counts
<1> DEFINE full == Len(b.events) >= MaxEvents \/ b.entry.trips >= MaxTrips
           event == [pbi |-> p, minutes |-> b.entry.minutes, reason |-> reason]
           entry == [b.entry EXCEPT !.tripped = TRUE, !.trips = @ + 1]
           more == Append(b.events, event)
<1>1. CASE full
  <2>1. Trip(b, p, reason) = b
    BY <1>1 DEF Trip
  <2>2. b.entry.tripped
    BY <1>1, BreakerAssumption DEF Charged
  <2> QED
    BY <2>1, <2>2
<1>2. CASE ~full
  <2>1. Trip(b, p, reason) = [entry |-> entry, events |-> more]
    BY <1>2 DEF Trip
  <2>2. b.entry \in Counts
    BY DEF Charged
  <2>3. entry \in Counts
        /\ entry.tripped
    <3>1. PICK n \in Nat : n = b.entry.trips + 1
      BY <2>2
    <3>2. entry = [b.entry EXCEPT !.tripped = TRUE, !.trips = n]
      BY <2>2, <3>1
    <3> HIDE DEF entry
    <3> QED
      BY <2>2, <3>2
  <2>4. more \in Seq([pbi : Pbis, minutes : Nat, reason : {"minutes", "failed"}])
    BY <2>2 DEF Charged
  <2> HIDE DEF entry, more
  <2> QED
    BY <2>1, <2>3, <2>4 DEF Charged
<1> QED
  BY <1>1, <1>2

\* One activity on a PBI below its limits leaves it below them, or trips it.
LEMMA ChargeTripsOrNot ==
    ASSUME NEW b \in Charged, Untripped(b.entry), b.events = <<>>,
           NEW m \in Nat, NEW ok \in BOOLEAN, NEW p \in Pbis
    PROVE  LET c == ChargeWork(b, p, m, ok)
           IN  /\ c \in Charged
               /\ c.entry.tripped \/ (Untripped(c.entry) /\ c.events = <<>>)
<1> USE DEF Counts
<1> DEFINE added == AddMinutes(b, p, m)
           Good(c) == c \in Charged /\ (c.entry.tripped
                                         \/ (Untripped(c.entry) /\ c.events = <<>>))
<1>0. b.entry \in Counts
  BY DEF Charged
<1>1. /\ added \in Charged
      /\ \/ added.entry.tripped
         \/ /\ added.entry.trips = 0 /\ added.events = <<>> /\ added.entry.tripped = FALSE
            /\ added.entry.failed < MaxFailed
  <2>1. CASE b.entry.minutes + m > MaxSafe
    BY <2>1, TripTrips DEF AddMinutes, Untripped
  <2>2. CASE ~(b.entry.minutes + m > MaxSafe)
    <3>0. PICK n \in Nat : n = b.entry.minutes + m
      BY <1>0
    <3>1. PICK e \in Counts : e = [b.entry EXCEPT !.minutes = n]
      BY <1>0
    <3>2. added = [b EXCEPT !.entry = e]
      BY <2>2, <3>0, <3>1 DEF AddMinutes, Charged
    <3>3. e.trips = 0 /\ e.tripped = FALSE /\ e.failed = b.entry.failed
      BY <1>0, <3>1 DEF Untripped
    <3> QED
      BY <3>2, <3>3 DEF Charged, Untripped
  <2> QED
    BY <2>1, <2>2
<1> HIDE DEF added
<1>2. CASE added.entry.minutes >= MaxMinutes
  BY <1>1, <1>2, TripTrips DEF ChargeWork, added
<1>3. CASE ~(added.entry.minutes >= MaxMinutes)
  <2>1. added.entry.tripped \/ (Untripped(added.entry) /\ added.events = <<>>)
    BY <1>1, <1>3, BreakerAssumption DEF Untripped, Charged
  <2>2. CASE ok
    BY <1>1, <1>3, <2>1, <2>2 DEF ChargeWork, added
  <2>3. CASE ~ok
    <3> DEFINE failed == [added EXCEPT !.entry.failed = IF @ < MaxFailed THEN @ + 1 ELSE @]
    <3>1. added.entry \in Counts
      BY <1>1 DEF Charged
    <3> DEFINE was == added.entry.failed
    <3>0. PICK n \in Nat : n = IF was < MaxFailed THEN was + 1 ELSE was
      BY <3>1
    <3>2. PICK e \in Counts : e = [added.entry EXCEPT !.failed = n]
      BY <3>1
    <3>3. failed = [added EXCEPT !.entry = e]
      BY <1>1, <3>0, <3>2 DEF Charged
    <3>4. e.trips = added.entry.trips /\ e.tripped = added.entry.tripped
          /\ e.minutes = added.entry.minutes
      BY <3>1, <3>2
    <3>5. failed \in Charged /\ failed.entry = e /\ failed.events = added.events
      BY <1>1, <3>3 DEF Charged
    <3>6. ChargeWork(b, p, m, ok) =
              IF failed.entry.failed >= MaxFailed THEN Trip(failed, p, "failed") ELSE failed
      BY <1>3, <2>3 DEF ChargeWork, AddFailure, added
    <3> HIDE DEF failed
    <3>7. CASE failed.entry.failed >= MaxFailed
      BY <1>1, <3>4, <3>5, <3>6, <3>7, TripTrips
    <3>8. CASE ~(failed.entry.failed >= MaxFailed)
      <4>1. failed.entry.failed < MaxFailed
        BY <3>5, <3>8, BreakerAssumption DEF Charged
      <4> QED
        BY <1>1, <2>1, <3>4, <3>5, <3>6, <3>8, <4>1 DEF Untripped
    <3> QED
      BY <3>7, <3>8
  <2> QED
    BY <2>2, <2>3
<1> QED
  BY <1>2, <1>3

LEMMA ActivityStep ==
    ASSUME BudgetIsSound, NEW m \in Minutes, NEW ok \in BOOLEAN, RecordActivity(m, ok)
    PROVE  BudgetIsSound'
<1>1. CASE IsTripped(Pbi) /\ UNCHANGED breakerVars
  BY <1>1 DEF BudgetIsSound, breakerVars, IsTripped, Entry
<1>2. CASE RecordWorkerActivity(Pbi, m, ok)
  <2> DEFINE b == [entry |-> Entry(Pbi), events |-> trips]
             c == ChargeWork(b, Pbi, m, ok)
             idle == Kept(Append(Without(recent, Pbi), Pbi))
             counts == [q \in Pbis |-> IF q = Pbi THEN c.entry ELSE Entry(q)]
  <2>1. Pbi \in Pbis /\ m \in Nat
    BY CodingAssumption, BreakerAssumption
  <2>2. Untripped(Entry(Pbi)) /\ trips = <<>>
    BY <1>2 DEF BudgetIsSound, RecordWorkerActivity
  <2>3. b \in Charged /\ Untripped(b.entry) /\ b.events = <<>>
    BY <2>2 DEF Charged, Untripped
  <2> HIDE DEF b
  <2>4. c \in Charged /\ (c.entry.tripped \/ (Untripped(c.entry) /\ c.events = <<>>))
    BY <2>1, <2>3, ChargeTripsOrNot
  <2>5. Without(recent, Pbi) \in Seq(Pbis)
    BY <2>1, WithoutIsSeq DEF BudgetIsSound
  <2>6. idle \in Seq(Pbis) /\ Pbi \in ToSet(idle) /\ ToSet(idle) \subseteq Pbis
    BY <2>1, <2>5, TouchedIsKept
  <2>7. recent' = idle /\ pbiState' = [q \in ToSet(idle) |-> counts[q]] /\ trips' = c.events
    BY <1>2 DEF RecordWorkerActivity, Track, b
  <2> HIDE DEF c, idle
  <2>8. Pbi \in DOMAIN pbiState' /\ pbiState'[Pbi] = c.entry
    BY <2>1, <2>6, <2>7
  <2>9. Entry(Pbi)' = c.entry /\ (IsTripped(Pbi)' <=> c.entry.tripped)
    BY <2>8 DEF Entry, IsTripped
  <2> QED
    BY <2>4, <2>6, <2>7, <2>9 DEF BudgetIsSound
<1> QED
  BY <1>1, <1>2 DEF RecordActivity

\* Any step of the phase that leaves the breaker and the workspace alone, or
\* writes to it only what the author of this iteration may.
LEMMA CodingStep ==
    ASSUME CodingInv, CodingNext
    PROVE  CodingInv'
<1> USE DEF PhaseIsSound, CodingInv
<1>1. CASE NextIteration
  <2>1. BudgetIsSound' /\ (IsTripped(Pbi)' <=> IsTripped(Pbi))
    BY <1>1 DEF NextIteration, BudgetIsSound, breakerVars, IsTripped, Entry
  <2>2. CASE /\ coding.iteration < MaxIterations
             /\ coding' = [coding EXCEPT !.pc = "author", !.iteration = @ + 1]
    <3>1. PICK n \in 0 .. MaxIterations : n = coding.iteration + 1 /\ n > 0
      BY <2>2, CodingAssumption
    <3>2. coding' = [coding EXCEPT !.pc = "author", !.iteration = n]
      BY <2>2, <3>1
    <3> QED
      BY <1>1, <2>1, <3>1, <3>2 DEF NextIteration
  <2>3. CASE Proceed("failed") \/ Proceed("finish")
    BY <1>1, <2>1, <2>3 DEF NextIteration, Proceed
  <2> QED
    BY <1>1, <2>2, <2>3 DEF NextIteration
<1>2. ASSUME NEW authored \in SUBSET Files \ {{}}, NEW m \in Minutes, Author(authored, m)
      PROVE  CodingInv'
  <2>0. coding.pc = "author" /\ UNCHANGED <<tested, branch>>
    BY <1>2 DEF Author
  <2>1. coding.iteration \in Version /\ coding.iteration # 0 /\ ~coding.passed
    BY <2>0 DEF Version
  <2>2. ASSUME NEW done \in SUBSET Files, workspace' = Wrote(done)
        PROVE  /\ workspace' \in [Files -> Version]
               /\ \A f \in Files : f \in done \/ workspace[f] # 0 => workspace'[f] # 0
    BY <2>1, <2>2 DEF Wrote
  <2>3. ASSUME AuthoringFails(m), workspace' \in [Files -> Version],
               \A f \in coding.written : workspace'[f] # 0
        PROVE  CodingInv'
    <3>1. BudgetIsSound'
      BY <2>3, ActivityStep DEF AuthoringFails
    <3>2. coding' = [coding EXCEPT !.pc = "loop"]
      BY <2>3 DEF AuthoringFails, Proceed
    <3> QED
      BY <2>0, <2>1, <2>3, <3>1, <3>2
  <2>4. CASE AuthoringFails(m) /\ UNCHANGED workspace
    BY <2>3, <2>4
  <2>5. ASSUME NEW done \in SUBSET Files, AuthoringFails(m), workspace' = Wrote(done)
        PROVE  CodingInv'
    BY <2>2, <2>3, <2>5
  <2>6. ASSUME NEW skipped \in SUBSET (authored \cap Targets),
               workspace' = Wrote(authored \ skipped),
               coding' = [coding EXCEPT !.pc = "test", !.written = authored \ skipped],
               UNCHANGED breakerVars
        PROVE  CodingInv'
    <3>1. authored \ skipped \in SUBSET Files
      OBVIOUS
    <3>2. BudgetIsSound'
      BY <2>6 DEF BudgetIsSound, breakerVars, IsTripped, Entry
    <3>3. /\ workspace' \in [Files -> Version]
          /\ \A f \in authored \ skipped : workspace'[f] # 0
      BY <2>2, <2>6, <3>1
    <3> QED
      BY <2>0, <2>1, <2>6, <3>1, <3>2, <3>3
  <2> QED
    BY <1>2, <2>4, <2>5, <2>6 DEF Author
<1>3. ASSUME NEW m \in Minutes, Test(m)
      PROVE  CodingInv'
  <2>1. coding.pc = "test" /\ UNCHANGED <<workspace, branch>> /\ ~coding.passed
    BY <1>3 DEF Test
  <2>2. CASE /\ RecordActivity(m, TRUE)
             /\ tested' = workspace
             /\ coding' = [coding EXCEPT !.pc = "finish", !.passed = TRUE]
    BY <2>1, <2>2, ActivityStep
  <2>3. CASE RecordActivity(m, FALSE) /\ Proceed("loop") /\ UNCHANGED tested
    BY <2>1, <2>3, ActivityStep DEF Proceed
  <2>4. CASE UNCHANGED <<breakerVars, tested>> /\ Proceed("loop")
    <3>1. BudgetIsSound'
      BY <2>4 DEF BudgetIsSound, breakerVars, IsTripped, Entry
    <3> QED
      BY <2>1, <2>4, <3>1 DEF Proceed
  <2> QED
    BY <1>3, <2>2, <2>3, <2>4 DEF Test
<1>4. CASE Finish
  <2>1. BudgetIsSound' /\ (IsTripped(Pbi)' <=> IsTripped(Pbi))
    BY <1>4 DEF Finish, BudgetIsSound, breakerVars, IsTripped, Entry
  <2>2. CASE Proceed("failed")
    BY <1>4, <2>1, <2>2 DEF Finish, Proceed
  <2>3. ASSUME coding.passed, ~IsTripped(Pbi), NEW v \in BOOLEAN,
               coding' = [coding EXCEPT !.pc = "commit", !.vault = v]
        PROVE  CodingInv'
    BY <1>4, <2>1, <2>3 DEF Finish
  <2> QED
    BY <1>4, <2>2, <2>3 DEF Finish
<1>5. CASE CommitAndPush
  <2>1. BudgetIsSound' /\ (IsTripped(Pbi)' <=> IsTripped(Pbi))
    BY <1>5 DEF CommitAndPush, BudgetIsSound, breakerVars, IsTripped, Entry
  <2>2. CASE Proceed("failed") /\ UNCHANGED branch
    BY <1>5, <2>1, <2>2 DEF CommitAndPush, Proceed
  <2>3. ASSUME NEW base, branch' = Committed(base), Proceed("pushed")
        PROVE  CodingInv'
    <3>1. \A f \in coding.written : branch'[f] = workspace[f]
      BY <2>3 DEF Committed, Staged
    <3> QED
      BY <1>5, <2>1, <2>3, <3>1 DEF CommitAndPush, Proceed
  <2> QED
    BY <1>5, <2>2, <2>3 DEF CommitAndPush
<1> QED
  BY <1>1, <1>2, <1>3, <1>4, <1>5 DEF CodingNext

LEMMA CodingBegins ==
    ASSUME CodingInit
    PROVE  CodingInv
<1>1. ~IsTripped(Pbi) /\ Entry(Pbi) = Fresh /\ trips = <<>> /\ recent = <<>>
  BY DEF CodingInit, BreakerInit, IsTripped, Entry
<1>2. Untripped(Fresh)
  BY BreakerAssumption DEF Untripped, Fresh, Counts
<1>3. BudgetIsSound
  BY <1>1, <1>2 DEF BudgetIsSound
<1>4. PhaseIsSound
  BY CodingAssumption DEF PhaseIsSound, CodingInit, Version
<1> QED
  BY <1>3, <1>4 DEF CodingInv

LEMMA CodingIsGood ==
    ASSUME CodingInv
    PROVE  GreenIsPushed
BY DEF CodingInv, BudgetIsSound, PhaseIsSound, Untripped, GreenIsPushed

-----------------------------------------------------------------------------
(* The webhook                                                             *)

\* What an answer tells of a delivery that asks for something.
AnswerIsHonest(what, status, came, begun) ==
    /\ status = 200 => (what \in SessionKinds <=> came = "begun")
    /\ status = 200 => what \notin FactoryKinds
    /\ status = 202 => what \in FactoryKinds /\ came # "none"
    /\ came \in {"held", "paused"} => status = 202
    /\ came = "paused" => what # "abort"
    /\ came = "begun" => begun > 0

\* A delivery keeps its payload, so what it is refused for or asks for is
\* settled; and what was begun or answered for it agrees with that.
HookIsSound(d) ==
    /\ payloadOf[d] = Unsent => starts[d] = 0 /\ answerTo[d] = 0 /\ cameTo[d] = "none"
    /\ starts[d] > 0 => /\ Refusal(payloadOf[d]) = 0
                        /\ Asks(payloadOf[d]) \in SessionKinds \cup FactoryKinds
    /\ answerTo[d] = 401 => Refusal(payloadOf[d]) # 0
    /\ AnswerIsHonest(Asks(payloadOf[d]), answerTo[d], cameTo[d], starts[d])

WebhookInv ==
    /\ WebhookTypeOK
    /\ payloadOf \in [Hooks -> Payloads \cup {Unsent}]
    /\ \A d \in Hooks : HookIsSound(d)

\* The strictness of the policy is a fact about resolveSignaturePolicy.
LEMMA PolicyHolds == PolicyIsStrict
<1> SUFFICES ASSUME NEW e \in Environments, resolveSignaturePolicy(e) = "permissive"
             PROVE  \/ e.allowUnsigned
                    \/ e.node # "production" /\ StageOf(e) = "development"
                    \/ StageOf(e) = "preview" /\ e.provider = "vercel"
  BY DEF PolicyIsStrict
<1>1. StageOf(e) \in {"development", "preview", "production", "invalid"}
  BY DEF Environments, StageOf
<1>2. ~Misconfigured(e)
  BY DEF resolveSignaturePolicy
<1> QED
  BY <1>1, <1>2 DEF resolveSignaturePolicy, Misconfigured

LEMMA RefusalIs ==
    ASSUME NEW p
    PROVE  /\ Refusal(p) \in {0, 401, 500}
           /\ Refusal(p) = 0 => Verified(p)
BY DEF Refusal

\* Only an event of the factory asks for one of the factory's.
LEMMA AskingIsWarranted ==
    ASSUME NEW p
    PROVE  /\ Asks(p) \in FactoryKinds =>
                 p.allowed /\ p.labels \cap {"df:done", "df:failed"} = {}
           /\ IsComment(p) /\ Asks(p) \in SessionKinds \cup FactoryKinds => Asks(p) = "resume"
           /\ Asks(p) = "story" => "user-story-added" \notin p.labels
<1>1. FactoryDecision(p) \in {"not-a-trigger", "refused"} \cup FactoryKinds
  BY DEF FactoryDecision, FactoryKinds
<1>2. FactoryDecision(p) \in FactoryKinds =>
          p.allowed /\ p.labels \cap {"df:done", "df:failed"} = {}
  BY DEF FactoryDecision, FactoryKinds, IsFactoryEvent
<1>3. IsComment(p) =>
          FactoryDecision(p) \in {"not-a-trigger", "refused", "resume"}
  BY DEF FactoryDecision
<1>4. Asks(p) \in FactoryKinds => Asks(p) = FactoryDecision(p)
  BY DEF Asks, FactoryKinds
<1>5. IsComment(p) => Asks(p) \in {"nothing", FactoryDecision(p)}
  BY DEF Asks, IsComment
<1>6. Asks(p) = "story" => isStoryTrigger(p)
  BY <1>1 DEF Asks, FactoryKinds
<1> QED
  BY <1>1, <1>2, <1>3, <1>4, <1>5, <1>6 DEF FactoryKinds, SessionKinds, isStoryTrigger

\* GitHub sends a delivery once, with a payload it keeps.
LEMMA SendStep ==
    ASSUME WebhookInv, NEW d \in Hooks, IssueEvent(d)
    PROVE  WebhookInv'
<1>1. /\ payloadOf[d] = Unsent /\ UNCHANGED <<deployment, answerTo, starts, cameTo>>
      /\ \E q \in Payloads : payloadOf' = [payloadOf EXCEPT ![d] = q]
  <2>1. ASSUME NEW event \in {"issues", "issue_comment", "pull_request", "other"},
               NEW action \in {"opened", "labeled", "unlabeled", "created", "edited", "closed"},
               NEW label \in Labels0, Send(d, event, action, label)
        PROVE  /\ payloadOf[d] = Unsent /\ UNCHANGED <<deployment, answerTo, starts, cameTo>>
               /\ \E q \in Payloads : payloadOf' = [payloadOf EXCEPT ![d] = q]
    <3>1. PICK labels \in SUBSET IssueLabels,
               allowed, signed, merged, mention \in BOOLEAN :
          /\ merged => event = "pull_request" /\ action = "closed"
          /\ action = "labeled" => {label} \cap IssueLabels \subseteq labels
          /\ action = "unlabeled" => label \notin labels
          /\ payloadOf' = [payloadOf EXCEPT
                ![d] = [event |-> event, action |-> action, label |-> label,
                        labels |-> labels, mention |-> mention, merged |-> merged,
                        allowed |-> allowed, signed |-> signed]]
      BY <2>1, Zenon DEF Send
    <3>2. PICK q \in Payloads :
              q = [event |-> event, action |-> action, label |-> label,
                   labels |-> labels, mention |-> mention, merged |-> merged,
                   allowed |-> allowed, signed |-> signed]
      BY DEF Payloads
    <3> QED
      BY <2>1, <3>1, <3>2 DEF Send
  <2> QED
    BY <2>1 DEF IssueEvent, Labels0, EventLabels, IssueLabels
<1>2. PICK q \in Payloads : payloadOf' = [payloadOf EXCEPT ![d] = q]
  BY <1>1
<1>3. payloadOf' \in [Hooks -> Payloads \cup {Unsent}]
  BY <1>2 DEF WebhookInv
<1>4. starts[d] = 0 /\ answerTo[d] = 0 /\ cameTo[d] = "none"
  BY <1>1 DEF WebhookInv, HookIsSound
<1>5. HookIsSound(d)'
  BY <1>1, <1>4 DEF HookIsSound, AnswerIsHonest
<1>6. ASSUME NEW h \in Hooks, h # d
      PROVE  HookIsSound(h)'
  <2>1. payloadOf'[h] = payloadOf[h]
    BY <1>2, <1>6 DEF WebhookInv
  <2> QED
    BY <1>1, <2>1 DEF WebhookInv, HookIsSound, Refusal, Verified
<1>7. WebhookTypeOK'
  BY <1>1, <1>3 DEF WebhookInv, WebhookTypeOK
<1> QED
  BY <1>3, <1>5, <1>6, <1>7 DEF WebhookInv

LEMMA HandleStep ==
    ASSUME WebhookInv, NEW d \in Hooks, HandleHook(d)
    PROVE  WebhookInv'
<1> DEFINE p == payloadOf[d]
<1>1. UNCHANGED <<deployment, payloadOf>> /\ p # Unsent
  BY DEF HandleHook
<1>2. \A h \in Hooks : Refusal(payloadOf[h])' = Refusal(payloadOf[h])
  BY <1>1 DEF Refusal, Verified
<1>3. /\ answerTo \in [Hooks -> {0, 200, 202, 401, 500, 502, 503}]
      /\ starts \in [Hooks -> 0..MaxStarts]
  BY DEF WebhookInv, WebhookTypeOK
<1>4. ASSUME Start(d)
      PROVE  /\ starts' \in [Hooks -> 0..MaxStarts] /\ starts'[d] > 0
             /\ \A h \in Hooks \ {d} : starts'[h] = starts[h]
  BY <1>3, <1>4, WebhookAssumption DEF Start
<1>5. cameTo \in [Hooks -> HookOutcomes]
  BY DEF WebhookInv, WebhookTypeOK
<1>6. ASSUME NEW status \in {200, 202, 401, 500, 502, 503}, NEW came \in HookOutcomes,
             Reply(d, status, came)
      PROVE  /\ answerTo' \in [Hooks -> {0, 200, 202, 401, 500, 502, 503}]
             /\ cameTo' \in [Hooks -> HookOutcomes]
             /\ answerTo'[d] = status /\ cameTo'[d] = came
             /\ \A h \in Hooks \ {d} : answerTo'[h] = answerTo[h] /\ cameTo'[h] = cameTo[h]
  BY <1>3, <1>5, <1>6 DEF Reply
<1> DEFINE Good ==
        /\ answerTo' \in [Hooks -> {0, 200, 202, 401, 500, 502, 503}]
        /\ starts' \in [Hooks -> 0..MaxStarts]
        /\ cameTo' \in [Hooks -> HookOutcomes]
        /\ \A h \in Hooks \ {d} : /\ answerTo'[h] = answerTo[h] /\ starts'[h] = starts[h]
                                  /\ cameTo'[h] = cameTo[h]
        /\ starts'[d] > 0 => Refusal(p) = 0 /\ Asks(p) \in SessionKinds \cup FactoryKinds
        /\ answerTo'[d] = 401 => Refusal(p) # 0
        /\ AnswerIsHonest(Asks(p), answerTo'[d], cameTo'[d], starts'[d])
<1>7. HookIsSound(d)
  BY DEF WebhookInv
<1>8. {"none", "begun", "held", "paused"} = HookOutcomes
  BY DEF HookOutcomes
\* Begun, with an answer that may be given to one that began.
<1>9. ASSUME NEW status \in {200, 202, 500, 502, 503}, Begin(d, status), Refusal(p) = 0,
             Asks(p) \in SessionKinds \cup FactoryKinds,
             status = 200 => Asks(p) \in SessionKinds, status = 202 => Asks(p) \in FactoryKinds,
             Asks(p) \in SessionKinds => Asks(p) \notin FactoryKinds
      PROVE  Good
  <2>1. Start(d) /\ Reply(d, status, "begun")
    BY <1>9 DEF Begin
  <2>2. /\ answerTo' \in [Hooks -> {0, 200, 202, 401, 500, 502, 503}]
        /\ cameTo' \in [Hooks -> HookOutcomes]
        /\ answerTo'[d] = status /\ cameTo'[d] = "begun"
        /\ \A h \in Hooks \ {d} : answerTo'[h] = answerTo[h] /\ cameTo'[h] = cameTo[h]
    BY <1>6, <1>8, <2>1
  <2>3. AnswerIsHonest(Asks(p), answerTo'[d], cameTo'[d], starts'[d])
    BY <1>4, <1>9, <2>1, <2>2 DEF AnswerIsHonest
  <2> QED
    BY <1>4, <1>9, <2>1, <2>2, <2>3
\* Nothing begun, with an answer that says so.
<1>10. ASSUME NEW status \in {200, 202, 401, 500, 502, 503},
              NEW came \in {"none", "held", "paused"}, JustReply(d, status, came),
              status = 200 => Asks(p) \notin SessionKinds \cup FactoryKinds,
              status = 202 => Asks(p) \in FactoryKinds, status = 401 => Refusal(p) # 0,
              came = "none" <=> status # 202, came = "paused" => Asks(p) # "abort"
       PROVE  Good
  <2>1. starts' = starts /\ Reply(d, status, came)
    BY <1>10 DEF JustReply
  <2>2. /\ answerTo' \in [Hooks -> {0, 200, 202, 401, 500, 502, 503}]
        /\ cameTo' \in [Hooks -> HookOutcomes]
        /\ answerTo'[d] = status /\ cameTo'[d] = came
        /\ \A h \in Hooks \ {d} : answerTo'[h] = answerTo[h] /\ cameTo'[h] = cameTo[h]
    BY <1>6, <1>8, <2>1
  <2>3. AnswerIsHonest(Asks(p), answerTo'[d], cameTo'[d], starts'[d])
    BY <1>10, <2>2 DEF AnswerIsHonest
  <2> QED
    BY <1>3, <1>7, <1>10, <2>1, <2>2, <2>3 DEF HookIsSound
<1>11. ASSUME RefuseHook(d)
       PROVE  Good
  <2>1. PICK status \in {401, 500} : status = Refusal(p)
    BY <1>11, RefusalIs DEF RefuseHook
  <2>2. JustReply(d, status, "none") /\ Refusal(p) # 0
    BY <1>11, <2>1 DEF RefuseHook
  <2> QED
    BY <1>10, <2>1, <2>2
<1>12. ASSUME AcknowledgeHook(d)
       PROVE  Good
  BY <1>10, <1>12 DEF AcknowledgeHook, SessionKinds, FactoryKinds
<1>13. ASSUME StartSession(d)
       PROVE  Good
  <2>1. /\ Refusal(p) = 0 /\ Asks(p) \in SessionKinds /\ Asks(p) \notin FactoryKinds
        /\ Begin(d, 200) \/ JustReply(d, 502, "none") \/ Begin(d, 502)
    BY <1>13 DEF StartSession, SessionKinds, FactoryKinds
  <2>2. CASE Begin(d, 200)
    BY <1>9, <2>1, <2>2
  <2>3. CASE JustReply(d, 502, "none")
    BY <1>10, <2>1, <2>3
  <2>4. CASE Begin(d, 502)
    BY <1>9, <2>1, <2>4
  <2> QED
    BY <2>1, <2>2, <2>3, <2>4
<1>14. ASSUME DispatchHook(d)
       PROVE  Good
  <2>1. /\ Refusal(p) = 0 /\ Asks(p) \in FactoryKinds /\ Asks(p) \notin SessionKinds
        /\ \/ Begin(d, 202) \/ HoldDispatch(d)
           \/ \E status \in {500, 503} : Begin(d, status) \/ JustReply(d, status, "none")
    BY <1>14 DEF DispatchHook, SessionKinds, FactoryKinds
  <2>2. CASE Begin(d, 202)
    BY <1>9, <2>1, <2>2
  <2>3. CASE HoldDispatch(d)
    <3>1. \/ JustReply(d, 202, "held")
          \/ Asks(p) # "abort" /\ JustReply(d, 202, "paused")
      BY <2>3 DEF HoldDispatch, HeldByPause
    <3> QED
      BY <1>10, <2>1, <3>1
  <2>4. ASSUME NEW status \in {500, 503}, Begin(d, status)
        PROVE  Good
    BY <1>9, <2>1, <2>4
  <2>5. ASSUME NEW status \in {500, 503}, JustReply(d, status, "none")
        PROVE  Good
    BY <1>10, <2>1, <2>5
  <2> QED
    BY <2>1, <2>2, <2>3, <2>4, <2>5
<1>15. ASSUME RefuseDispatch(d)
       PROVE  Good
  <2>1. PICK status \in {200, 500} : JustReply(d, status, "none")
    BY <1>15 DEF RefuseDispatch
  <2>2. Asks(p) \notin SessionKinds \cup FactoryKinds
    BY <1>15 DEF RefuseDispatch, SessionKinds, FactoryKinds
  <2> QED
    BY <1>10, <2>1, <2>2
<1>16. Good
  BY <1>11, <1>12, <1>13, <1>14, <1>15 DEF HandleHook
<1>17. HookIsSound(d)'
  BY <1>1, <1>2, <1>16 DEF HookIsSound
<1>18. ASSUME NEW h \in Hooks, h # d
       PROVE  HookIsSound(h)'
  <2>1. /\ HookIsSound(h) /\ answerTo'[h] = answerTo[h] /\ starts'[h] = starts[h]
        /\ cameTo'[h] = cameTo[h]
    BY <1>16, <1>18 DEF WebhookInv
  <2> QED
    BY <1>1, <1>2, <2>1 DEF HookIsSound
<1>19. WebhookTypeOK'
  BY <1>1, <1>16 DEF WebhookInv, WebhookTypeOK
<1> QED
  BY <1>1, <1>17, <1>18, <1>19 DEF WebhookInv

LEMMA WebhookStep ==
    ASSUME WebhookInv, [WebhookNext]_webhookVars
    PROVE  WebhookInv'
<1>1. CASE WebhookNext
  BY <1>1, SendStep, HandleStep DEF WebhookNext
<1>2. CASE UNCHANGED webhookVars
  BY <1>2 DEF webhookVars, WebhookInv, WebhookTypeOK, HookIsSound, Refusal, Verified
<1> QED
  BY <1>1, <1>2

LEMMA WebhookBegins ==
    ASSUME WebhookInit
    PROVE  WebhookInv
<1>1. \A e \in Environments :
         resolveSignaturePolicy(e) \in {"misconfigured", "required", "permissive"}
  BY DEF resolveSignaturePolicy
<1>2. deployment \in [policy : {"misconfigured", "required", "permissive"}, secret : BOOLEAN]
  BY <1>1 DEF WebhookInit
<1> QED
  BY <1>2, WebhookAssumption DEF WebhookInit, WebhookInv, WebhookTypeOK, HookIsSound,
     AnswerIsHonest, HookOutcomes

LEMMA WebhookIsGood ==
    ASSUME WebhookInv
    PROVE  WebhookIsTrue
<1>1. StartsAreWarranted
  BY RefusalIs, AskingIsWarranted DEF StartsAreWarranted, WebhookInv, HookIsSound, Verified
<1>2. AnswersAreHonest
  <2> SUFFICES ASSUME NEW d \in Hooks
               PROVE  /\ AnswerIsHonest(Asks(payloadOf[d]), answerTo[d], cameTo[d], starts[d])
                      /\ answerTo[d] = 401 => starts[d] = 0
    BY DEF AnswersAreHonest, AnswerIsHonest
  <2>1. HookIsSound(d) /\ starts[d] \in Nat
    BY WebhookAssumption DEF WebhookInv, WebhookTypeOK
  <2> QED
    BY <2>1 DEF HookIsSound
<1> QED
  BY <1>1, <1>2, PolicyHolds DEF WebhookIsTrue

-----------------------------------------------------------------------------
(* The provisioned sandbox                                                 *)

Up == [pc : Stages \cup {"idle", "check", "teardown"}, runs : 0 .. MaxUps,
       digest : Digests \cup {Absent}, context : Contexts \cup {Absent},
       port : Ports \cup {Absent}, current : Contexts \cup {Absent},
       state : Recorded, forwarding : BOOLEAN, refused : BOOLEAN,
       disturbed : BOOLEAN]

\* A state file tells the truth: a deployment on record is the one that is
\* there, and a proof on record is of the deployment on record.
TellsTheTruth(state) ==
    \A d \in Digests, c \in Contexts :
        state["deploy"] = <<d, c>> =>
            cluster[c] = d /\ (state["proof"] # Absent => <<c, d>> \in proven)

\* What a run has done so far is what it will record.
UpIsSound ==
    /\ up.pc # "idle" => up.current = up.context /\ TellsTheTruth(up.state)
    /\ up.pc = "idle" => TellsTheTruth(saved)
    /\ up.pc \in {"forward", "proof"} => up.state["deploy"] = <<up.digest, up.context>>
    /\ up.pc = "teardown" /\ ~up.refused =>
          /\ up.state["deploy"] = <<up.digest, up.context>>
          /\ up.state["proof"] # Absent
    /\ up.pc \in Stages \cup {"check"} => ~up.refused
    /\ \A p \in Ports : forwards[p] # Absent =>
          up.forwarding /\ p = up.port /\ forwards[p] = up.context
    /\ up.forwarding => up.pc \in {"proof", "teardown"}

ProvisionInv ==
    /\ ProvisionTypeOK
    /\ up.pc # "idle" =>
          up.digest \in Digests /\ up.context \in Contexts /\ up.port \in Ports
    /\ ~astray => UpIsSound
    /\ ProvisionIsReal

LEMMA StagesAre ==
    /\ Stages = {"vendor", "cluster", "deploy", "forward", "proof"}
    /\ \A s \in Stages : After(s) \in Stages \cup {"teardown"}
    /\ After("vendor") = "cluster" /\ After("cluster") = "deploy"
    /\ After("deploy") = "forward" /\ After("forward") = "proof"
    /\ After("proof") = "teardown"
    /\ InvalidatedBy("vendor") = {"deploy", "forward", "proof"}
    /\ InvalidatedBy("cluster") = {"deploy", "forward", "proof"}
    /\ InvalidatedBy("deploy") = {"forward", "proof"}
    /\ InvalidatedBy("forward") = {"proof"}
    /\ InvalidatedBy("proof") = {}
<1>1. /\ Dependents("vendor") = {"deploy"}
      /\ Dependents("cluster") = {"deploy", "forward", "proof"}
      /\ Dependents("deploy") = {"forward", "proof"}
      /\ Dependents("forward") = {"proof"}
      /\ Dependents("proof") = {}
  BY DEF Dependents
<1>2. InvalidatedBy("vendor") = {"deploy", "forward", "proof"}
  <2>1. \A t : t \in Dependents("vendor") <=> t = "deploy"
    BY <1>1
  <2>2. UNION {Dependents(t) : t \in Dependents("vendor")} = {"forward", "proof"}
    BY <1>1, <2>1
  <2> QED
    BY <1>1, <2>2 DEF InvalidatedBy
<1>3. InvalidatedBy("cluster") = {"deploy", "forward", "proof"}
  <2>2. \A x : x \in UNION {Dependents(t) : t \in Dependents("cluster")}
                  <=> \E t \in {"deploy", "forward", "proof"} : x \in Dependents(t)
    BY <1>1
  <2>3. \A x : x \in UNION {Dependents(t) : t \in Dependents("cluster")}
                  <=> x \in {"forward", "proof"}
    BY <1>1, <2>2
  <2> QED
    BY <1>1, <2>3 DEF InvalidatedBy
<1>4. InvalidatedBy("deploy") = {"forward", "proof"}
  <2>2. \A x : x \in UNION {Dependents(t) : t \in Dependents("deploy")}
                  <=> \E t \in {"forward", "proof"} : x \in Dependents(t)
    BY <1>1
  <2>3. \A x : x \in UNION {Dependents(t) : t \in Dependents("deploy")} <=> x = "proof"
    BY <1>1, <2>2
  <2> QED
    BY <1>1, <2>3 DEF InvalidatedBy
<1>5. InvalidatedBy("forward") = {"proof"}
  <2>1. \A t : t \in Dependents("forward") <=> t = "proof"
    BY <1>1
  <2>2. \A x : x \notin UNION {Dependents(t) : t \in Dependents("forward")}
    BY <1>1, <2>1
  <2> QED
    BY <1>1, <2>2 DEF InvalidatedBy
<1>6. InvalidatedBy("proof") = {}
  <2>1. \A x : x \notin UNION {Dependents(t) : t \in Dependents("proof")}
    BY <1>1
  <2> QED
    BY <1>1, <2>1 DEF InvalidatedBy
<1>7. /\ After("vendor") = "cluster" /\ After("cluster") = "deploy"
      /\ After("deploy") = "forward" /\ After("forward") = "proof"
      /\ After("proof") = "teardown"
  BY DEF After
<1> QED
  BY <1>2, <1>3, <1>4, <1>5, <1>6, <1>7 DEF Stages

\* What the inputs of the stages are, and that they are inputs.
LEMMA InputsAre ==
    ASSUME up.digest \in Digests, up.context \in Contexts, up.port \in Ports
    PROVE  /\ \A s \in Stages : InputsOf(s) \in Inputs
           /\ InputsOf("deploy") = <<up.digest, up.context>>
           /\ InputsOf("proof") # Absent
<1>1. /\ InputsOf("vendor") = <<up.digest>> /\ InputsOf("cluster") = <<up.context>>
      /\ InputsOf("deploy") = <<up.digest, up.context>>
      /\ InputsOf("forward") = <<up.port, up.context>>
      /\ InputsOf("proof") = <<up.port>>
  BY DEF InputsOf
<1>2. /\ <<up.digest>> \in Inputs /\ <<up.context>> \in Inputs
      /\ <<up.digest, up.context>> \in Inputs /\ <<up.port, up.context>> \in Inputs
      /\ <<up.port>> \in Inputs
  BY DEF Inputs
<1> QED
  BY <1>1, <1>2, InputsAssumption DEF Stages

\* A stage that is recorded or invalidated: what becomes of the others.
LEMMA RecordIs ==
    ASSUME ProvisionTypeOK, up.digest \in Digests, up.context \in Contexts, up.port \in Ports,
           NEW s \in Stages
    PROVE  /\ RecordStageSuccess(s) \in Recorded /\ InvalidateStage(s) \in Recorded
           /\ RecordStageSuccess(s)[s] = InputsOf(s)
           /\ s \in {"vendor", "cluster"} => /\ RecordStageSuccess(s)["deploy"] = Absent
                                             /\ RecordStageSuccess(s)["proof"] = Absent
           /\ s = "deploy" => RecordStageSuccess(s)["proof"] = Absent
           /\ s \in {"forward", "proof"} =>
                 RecordStageSuccess(s)["deploy"] = up.state["deploy"]
           /\ s = "forward" => RecordStageSuccess(s)["proof"] = Absent
           /\ s \in {"vendor", "cluster", "deploy"} => InvalidateStage(s)["deploy"] = Absent
           /\ s \in {"forward", "proof"} => InvalidateStage(s)["deploy"] = up.state["deploy"]
           /\ InvalidateStage(s)["proof"] = Absent
<1>1. up.state \in Recorded
  BY DEF ProvisionTypeOK
<1>2. InputsOf(s) \in Inputs
  BY InputsAre
<1>3. RecordStageSuccess(s) \in Recorded /\ InvalidateStage(s) \in Recorded
  BY <1>1, <1>2 DEF RecordStageSuccess, InvalidateStage, Recorded
<1>4. {"deploy", "forward", "proof"} \subseteq Stages
  BY DEF Stages
<1>5. \A t \in Stages :
        /\ RecordStageSuccess(s)[t] = IF t = s THEN InputsOf(s)
                                      ELSE IF t \in InvalidatedBy(s) THEN Absent
                                      ELSE up.state[t]
        /\ InvalidateStage(s)[t] = IF t = s \/ t \in InvalidatedBy(s) THEN Absent
                                   ELSE up.state[t]
  BY DEF RecordStageSuccess, InvalidateStage
<1> QED
  BY <1>3, <1>4, <1>5, StagesAre

\* A step of a run that keeps the outside as it is, from the check to the
\* teardown: x is what the run becomes.
LEMMA UpTurn ==
    ASSUME ProvisionInv, NEW x \in Up, up' = x,
           x.digest = up.digest, x.context = up.context, x.port = up.port,
           x.current = up.current, x.pc # "idle", up.pc # "idle",
           UNCHANGED <<saved, astray>>,
           ProvisionTypeOK',
           ~astray =>
             /\ TellsTheTruth(x.state)'
             /\ x.pc \in {"forward", "proof"} =>
                   x.state["deploy"] = <<up.digest, up.context>>
             /\ x.pc = "teardown" /\ ~x.refused =>
                   /\ x.state["deploy"] = <<up.digest, up.context>>
                   /\ x.state["proof"] # Absent
             /\ x.pc \in Stages \cup {"check"} => ~x.refused
             /\ \A p \in Ports : forwards'[p] # Absent =>
                   x.forwarding /\ p = up.port /\ forwards'[p] = up.context
             /\ x.forwarding => x.pc \in {"proof", "teardown"}
    PROVE  ProvisionInv'
<1>1. ASSUME ~astray
      PROVE  UpIsSound'
  BY <1>1 DEF ProvisionInv, UpIsSound, TellsTheTruth
<1>2. ProvisionIsReal'
  BY DEF ProvisionIsReal
<1> QED
  BY <1>1, <1>2 DEF ProvisionInv

\* The types of what a run becomes, when the rest is as it was.
LEMMA UpTypes ==
    ASSUME ProvisionTypeOK, NEW x \in Up, up' = x, UNCHANGED saved,
           cluster' \in [Contexts -> Digests \cup {Absent}],
           forwards' \in [Ports -> Contexts \cup {Absent}],
           proven' \subseteq Contexts \X Digests, astray' \in BOOLEAN
    PROVE  ProvisionTypeOK'
BY DEF ProvisionTypeOK, Up

\* A stage that refuses, whatever it had done of the deployment.
LEMMA RefuseStep ==
    ASSUME ProvisionInv, NEW s \in Stages, up.pc = s, UNCHANGED <<saved, astray, forwards, proven>>,
           \/ Refuse(s)
           \/ /\ s = "proof"
              /\ up' = [up EXCEPT !.pc = "teardown", !.refused = TRUE,
                                  !.state = InvalidateStage("proof")],
           \/ UNCHANGED cluster
           \/ s = "deploy" /\ cluster' = [cluster EXCEPT ![up.context] = up.digest]
    PROVE  ProvisionInv'
<1>0. /\ ProvisionTypeOK /\ up \in Up /\ up.state \in Recorded /\ up.pc # "idle"
      /\ up.digest \in Digests /\ up.context \in Contexts /\ up.port \in Ports
      /\ s \in {"vendor", "cluster", "deploy", "forward", "proof"}
  BY DEF ProvisionInv, ProvisionTypeOK, Up, Stages
<1>1. /\ InvalidateStage(s) \in Recorded /\ InvalidateStage(s)["proof"] = Absent
      /\ \/ InvalidateStage(s)["deploy"] = Absent
         \/ InvalidateStage(s)["deploy"] = up.state["deploy"] /\ UNCHANGED cluster
  BY <1>0, RecordIs
<1>2. PICK x \in Up : /\ up' = x /\ x.pc = "teardown" /\ x.refused = TRUE
                      /\ x.state = InvalidateStage(s) /\ x.forwarding = up.forwarding
                      /\ x.digest = up.digest /\ x.context = up.context
                      /\ x.port = up.port /\ x.current = up.current
  <2>1. PICK e \in BOOLEAN : up' = [up EXCEPT !.pc = "teardown", !.refused = TRUE,
                                              !.disturbed = e, !.state = InvalidateStage(s)]
    BY <1>0 DEF Refuse, Up
  <2>2. [up EXCEPT !.pc = "teardown", !.refused = TRUE,
                   !.disturbed = e, !.state = InvalidateStage(s)] \in Up
    BY <1>0, <1>1 DEF Up
  <2> QED
    BY <1>0, <2>1, <2>2 DEF Up
<1>3. cluster' \in [Contexts -> Digests \cup {Absent}]
  BY <1>0 DEF ProvisionTypeOK
<1>4. ProvisionTypeOK'
  BY <1>0, <1>2, <1>3, UpTypes DEF ProvisionTypeOK
<1>5. ASSUME ~astray
      PROVE  TellsTheTruth(x.state)'
  <2>1. TellsTheTruth(up.state)
    BY <1>0, <1>5 DEF ProvisionInv, UpIsSound
  <2>2. \A d \in Digests, c \in Contexts : <<d, c>> # Absent
    BY InputsAssumption DEF Inputs
  <2> QED
    BY <1>1, <1>2, <2>1, <2>2 DEF TellsTheTruth
<1>6. ASSUME ~astray
      PROVE  \A p \in Ports : forwards'[p] # Absent =>
                 x.forwarding /\ p = up.port /\ forwards'[p] = up.context
  BY <1>2, <1>6 DEF ProvisionInv, UpIsSound
<1> QED
  BY <1>0, <1>2, <1>4, <1>5, <1>6, UpTurn DEF Stages

\* A stage that is skipped for what an earlier run recorded.
LEMMA SkipStep ==
    ASSUME ProvisionInv, NEW s \in Stages, Skip(s),
           UNCHANGED <<saved, astray, forwards, proven, cluster>>
    PROVE  ProvisionInv'
<1>0. /\ ProvisionTypeOK /\ up \in Up /\ up.state \in Recorded
      /\ up.pc = s /\ s # "idle" /\ s # "check" /\ s # "teardown"
      /\ s \in {"vendor", "cluster", "deploy", "forward", "proof"}
  BY DEF ProvisionInv, ProvisionTypeOK, Up, Skip, Stages
<1>1. up.digest \in Digests /\ up.context \in Contexts /\ up.port \in Ports
  BY <1>0 DEF ProvisionInv
<1>2. After(s) \in Stages \cup {"teardown"}
  BY StagesAre
<1>3. PICK x \in Up : up' = x /\ x = [up EXCEPT !.pc = After(s)]
  BY <1>0, <1>2 DEF Up, Skip
<1>4. /\ x.pc = After(s) /\ x.refused = up.refused /\ x.state = up.state
      /\ x.forwarding = up.forwarding /\ x.digest = up.digest /\ x.context = up.context
      /\ x.port = up.port /\ x.current = up.current
  BY <1>0, <1>2, <1>3 DEF Up
<1>5. ProvisionTypeOK'
  BY <1>0, <1>3, UpTypes DEF ProvisionTypeOK
<1>6. up.state[s] = InputsOf(s) /\ InputsOf("deploy") = <<up.digest, up.context>>
      /\ InputsOf("proof") # Absent
  BY <1>0, <1>1, InputsAre DEF Skip, CanSkipStage
<1>7. ASSUME ~astray
      PROVE  /\ TellsTheTruth(x.state)'
             /\ x.pc \in {"forward", "proof"} =>
                   x.state["deploy"] = <<up.digest, up.context>>
             /\ x.pc = "teardown" /\ ~x.refused =>
                   /\ x.state["deploy"] = <<up.digest, up.context>>
                   /\ x.state["proof"] # Absent
             /\ ~x.refused
             /\ \A p \in Ports : forwards'[p] # Absent =>
                   x.forwarding /\ p = up.port /\ forwards'[p] = up.context
             /\ x.forwarding => x.pc \in {"proof", "teardown"}
  <2>1. UpIsSound
    BY <1>7 DEF ProvisionInv
  <2>2. TellsTheTruth(up.state) /\ ~up.refused /\ (up.forwarding => s = "proof")
        /\ (s \in {"forward", "proof"} => up.state["deploy"] = <<up.digest, up.context>>)
    BY <1>0, <2>1 DEF UpIsSound
  <2>3. TellsTheTruth(x.state)'
    BY <1>4, <2>2 DEF TellsTheTruth
  <2>4. \A p \in Ports : forwards'[p] # Absent =>
                   x.forwarding /\ p = up.port /\ forwards'[p] = up.context
    BY <1>4, <2>1 DEF UpIsSound
  <2> QED
    BY <1>0, <1>4, <1>6, <2>2, <2>3, <2>4, StagesAre
<1> QED
  BY <1>0, <1>1, <1>2, <1>3, <1>4, <1>5, <1>7, UpTurn DEF Stages

\* A stage that did what it is for: x is what the run becomes.
LEMMA SucceedStep ==
    ASSUME ProvisionInv, NEW s \in Stages, up.pc = s, NEW x \in Up, up' = x,
           x.digest = up.digest, x.context = up.context, x.port = up.port,
           x.current = up.current, x.pc = After(s), x.refused = up.refused,
           x.state = RecordStageSuccess(s), UNCHANGED <<saved, astray>>,
           s \in {"vendor", "cluster"} =>
                UNCHANGED <<cluster, forwards, proven>> /\ x.forwarding = up.forwarding,
           s = "deploy" => /\ cluster' = [cluster EXCEPT ![up.context] = up.digest]
                           /\ UNCHANGED <<forwards, proven>> /\ x.forwarding = up.forwarding,
           s = "forward" =>
                /\ UNCHANGED <<cluster, proven>>
                /\ \/ UNCHANGED forwards /\ x.forwarding = up.forwarding
                   \/ /\ forwards' = [forwards EXCEPT ![up.port] =
                                    IF @ = Absent THEN up.current ELSE @]
                      /\ x.forwarding <=> forwards[up.port] = Absent,
           s = "proof" =>
                /\ UNCHANGED <<cluster, forwards>> /\ x.forwarding = up.forwarding
                /\ Answering
                /\ proven' = proven \cup {<<forwards[up.port], cluster[forwards[up.port]]>>}
    PROVE  ProvisionInv'
<1>0. /\ ProvisionTypeOK /\ up \in Up /\ up.state \in Recorded
      /\ up.pc = s /\ s # "idle" /\ s # "check" /\ s # "teardown"
      /\ s \in {"vendor", "cluster", "deploy", "forward", "proof"}
  BY DEF ProvisionInv, ProvisionTypeOK, Up, Stages
<1>1. /\ up.digest \in Digests /\ up.context \in Contexts /\ up.port \in Ports
      /\ up.current \in Contexts \cup {Absent}
  BY <1>0 DEF ProvisionInv, Up
<1>2. After(s) \in Stages \cup {"teardown"}
  BY StagesAre
<1>3. ProvisionTypeOK'
  <2>1. cluster' \in [Contexts -> Digests \cup {Absent}]
    BY <1>0, <1>1 DEF ProvisionTypeOK
  <2>2. forwards' \in [Ports -> Contexts \cup {Absent}]
    BY <1>0, <1>1 DEF ProvisionTypeOK
  <2>3. proven' \subseteq Contexts \X Digests
    <3>1. s = "proof" => /\ forwards[up.port] \in Contexts
                         /\ cluster[forwards[up.port]] \in Digests
      BY <1>0, <1>1 DEF ProvisionTypeOK, Answering
    <3> QED
      BY <1>0, <3>1 DEF ProvisionTypeOK
  <2> QED
    BY <1>0, <2>1, <2>2, <2>3, UpTypes DEF ProvisionTypeOK
<1>4. ASSUME ~astray
      PROVE  /\ TellsTheTruth(x.state)'
             /\ x.pc \in {"forward", "proof"} =>
                   x.state["deploy"] = <<up.digest, up.context>>
             /\ x.pc = "teardown" /\ ~x.refused =>
                   /\ x.state["deploy"] = <<up.digest, up.context>>
                   /\ x.state["proof"] # Absent
             /\ ~x.refused
             /\ \A p \in Ports : forwards'[p] # Absent =>
                   x.forwarding /\ p = up.port /\ forwards'[p] = up.context
             /\ x.forwarding => x.pc \in {"proof", "teardown"}
  <2>1. UpIsSound
    BY <1>4 DEF ProvisionInv
  <2>2. /\ TellsTheTruth(up.state) /\ ~up.refused /\ (up.forwarding => s = "proof")
        /\ s \in {"forward", "proof"} => up.state["deploy"] = <<up.digest, up.context>>
        /\ up.current = up.context
        /\ \A p \in Ports : forwards[p] # Absent =>
                   up.forwarding /\ p = up.port /\ forwards[p] = up.context
    BY <1>0, <2>1 DEF UpIsSound
  <2>3. \A d \in Digests, c \in Contexts : <<d, c>> # Absent
    BY InputsAssumption DEF Inputs
  <2>4. InputsOf("deploy") = <<up.digest, up.context>> /\ InputsOf("proof") # Absent
    BY <1>1, InputsAre
  <2>5. \A p \in Ports : forwards'[p] # Absent =>
                   x.forwarding /\ p = up.port /\ forwards'[p] = up.context
    BY <1>0, <1>1, <2>2 DEF ProvisionTypeOK
  <2>6. TellsTheTruth(x.state)'
    <3>1. CASE s \in {"vendor", "cluster"}
      BY <1>0, <1>1, <2>3, <3>1, RecordIs DEF TellsTheTruth
    <3>2. CASE s = "deploy"
      <4>1. cluster'[up.context] = up.digest
        BY <1>0, <1>1, <3>2 DEF ProvisionTypeOK
      <4>2. x.state["deploy"] = <<up.digest, up.context>> /\ x.state["proof"] = Absent
        BY <1>0, <1>1, <2>4, <3>2, RecordIs
      <4> QED
        BY <4>1, <4>2 DEF TellsTheTruth
    <3>3. CASE s = "forward"
      <4>1. x.state["deploy"] = up.state["deploy"] /\ x.state["proof"] = Absent
        BY <1>0, <1>1, <3>3, RecordIs
      <4> QED
        BY <2>2, <3>3, <4>1 DEF TellsTheTruth
    <3>4. CASE s = "proof"
      <4>1. x.state["deploy"] = <<up.digest, up.context>>
        BY <1>0, <1>1, <2>2, <3>4, RecordIs
      <4>2. cluster[up.context] = up.digest
        BY <1>1, <2>2, <3>4 DEF TellsTheTruth
      <4>3. forwards[up.port] = up.context
        BY <1>1, <2>2, <3>4 DEF Answering
      <4> QED
        BY <3>4, <4>1, <4>2, <4>3 DEF TellsTheTruth
    <3> QED
      BY <1>0, <3>1, <3>2, <3>3, <3>4
  <2>7. /\ s \in {"deploy", "forward", "proof"} =>
                x.state["deploy"] = <<up.digest, up.context>>
        /\ s = "proof" => x.state["proof"] # Absent
    BY <1>0, <1>1, <2>2, <2>4, RecordIs
  <2>8. x.forwarding => s \in {"forward", "proof"}
    BY <1>0, <2>2
  <2> QED
    BY <1>0, <2>2, <2>5, <2>6, <2>7, <2>8, StagesAre
<1> QED
  BY <1>0, <1>1, <1>2, <1>3, <1>4, UpTurn DEF Stages

LEMMA StageStep ==
    ASSUME ProvisionInv,
           \/ CheckPrerequisites \/ (\E s \in {"vendor", "cluster"} : PrepareStage(s))
           \/ Deploy \/ Forward \/ Proof
    PROVE  ProvisionInv'
<1>0. /\ ProvisionTypeOK /\ up \in Up /\ up.state \in Recorded /\ up.pc # "idle"
      /\ UNCHANGED <<saved, astray>>
  BY DEF ProvisionInv, ProvisionTypeOK, Up, Stages,
         CheckPrerequisites, PrepareStage, Deploy, Forward, Proof
<1>1. up.digest \in Digests /\ up.context \in Contexts /\ up.port \in Ports
  BY <1>0 DEF ProvisionInv
<1> DEFINE Done(s) == [up EXCEPT !.pc = After(s), !.state = RecordStageSuccess(s)]
<1>2. ASSUME NEW s \in Stages
      PROVE  /\ Done(s) \in Up
             /\ Done(s).digest = up.digest /\ Done(s).context = up.context
             /\ Done(s).port = up.port /\ Done(s).current = up.current
             /\ Done(s).pc = After(s) /\ Done(s).refused = up.refused
             /\ Done(s).state = RecordStageSuccess(s)
             /\ Done(s).forwarding = up.forwarding
  <2>1. RecordStageSuccess(s) \in Recorded /\ After(s) \in Stages \cup {"teardown"}
    BY <1>0, <1>1, RecordIs, StagesAre
  <2> QED
    BY <1>0, <2>1 DEF Up
<1>3. CASE CheckPrerequisites
  <2>1. PICK r \in BOOLEAN, b \in BOOLEAN, p \in {"vendor", "teardown"} :
            /\ up' = [up EXCEPT !.pc = p, !.refused = r, !.disturbed = b]
            /\ up.refused = FALSE => r = (p = "teardown")
    <3>1. CASE up' = [up EXCEPT !.pc = "vendor"]
      <4>1. up' = [up EXCEPT !.pc = "vendor", !.refused = up.refused,
                             !.disturbed = up.disturbed]
        BY <1>0, <3>1 DEF Up
      <4> QED
        BY <1>0, <4>1 DEF Up
    <3>2. CASE Refuse("check")
      <4>1. up' = [up EXCEPT !.pc = "teardown", !.refused = TRUE, !.disturbed = TRUE]
        BY <1>0, <3>2 DEF Refuse, Up, Stages
      <4> QED
        BY <4>1
    <3> QED
      BY <1>3, <3>1, <3>2 DEF CheckPrerequisites
  <2>2. PICK x \in Up : x = [up EXCEPT !.pc = p, !.refused = r, !.disturbed = b]
    BY <1>0, <2>1 DEF Up, Stages
  <2>3. /\ up' = x /\ x.pc = p /\ x.refused = r /\ x.state = up.state
        /\ x.forwarding = up.forwarding /\ x.digest = up.digest /\ x.context = up.context
        /\ x.port = up.port /\ x.current = up.current
    BY <1>0, <2>1, <2>2 DEF Up
  <2>4. UNCHANGED <<cluster, forwards, proven>> /\ up.pc = "check"
    BY <1>3 DEF CheckPrerequisites
  <2>5. ProvisionTypeOK'
    BY <1>0, <2>3, <2>4, UpTypes DEF ProvisionTypeOK
  <2>6. ASSUME ~astray
        PROVE  /\ TellsTheTruth(x.state)' /\ ~x.forwarding
               /\ \A q \in Ports : forwards'[q] = Absent
               /\ ~up.refused
    BY <1>0, <2>3, <2>4, <2>6 DEF ProvisionInv, UpIsSound, TellsTheTruth
  <2>7. ASSUME ~astray
        PROVE  x.refused <=> p = "teardown"
    BY <1>0, <2>1, <2>3, <2>6, <2>7 DEF Up
  <2> QED
    BY <1>0, <2>3, <2>4, <2>5, <2>6, <2>7, UpTurn DEF Stages
<1>4. ASSUME NEW s \in {"vendor", "cluster"}, PrepareStage(s)
      PROVE  ProvisionInv'
  <2>1. s \in Stages /\ up.pc = s /\ UNCHANGED <<cluster, forwards, proven>>
    BY <1>4 DEF PrepareStage, Stages
  <2>2. CASE Succeed(s)
    <3>1. up' = Done(s)
      BY <2>2 DEF Succeed
    <3> QED
      BY <1>0, <1>2, <1>4, <2>1, <3>1, SucceedStep
  <2> QED
    BY <1>0, <1>4, <2>1, <2>2, SkipStep, RefuseStep DEF PrepareStage
<1>5. CASE Deploy
  <2>1. up.pc = "deploy" /\ "deploy" \in Stages /\ UNCHANGED <<forwards, proven>>
    BY <1>5 DEF Deploy, Stages
  <2>2. CASE Succeed("deploy") /\ cluster' = [cluster EXCEPT ![up.context] = up.digest]
    <3>1. up' = Done("deploy")
      BY <2>2 DEF Succeed
    <3> QED
      BY <1>0, <1>2, <2>1, <2>2, <3>1, SucceedStep
  <2> QED
    BY <1>0, <1>5, <2>1, <2>2, SkipStep, RefuseStep DEF Deploy
<1>6. CASE Forward
  <2>1. up.pc = "forward" /\ "forward" \in Stages /\ UNCHANGED <<cluster, proven>>
    BY <1>6 DEF Forward, Stages
  <2>2. PICK f \in BOOLEAN : f <=> forwards[up.port] = Absent
    OBVIOUS
  <2>3. ASSUME NEW g \in BOOLEAN, NEW b \in BOOLEAN,
               up' = [up EXCEPT !.pc = "proof", !.state = RecordStageSuccess("forward"),
                                !.forwarding = g, !.disturbed = b],
               \/ UNCHANGED forwards /\ g = up.forwarding
               \/ /\ forwards' = [forwards EXCEPT ![up.port] =
                                    IF @ = Absent THEN up.current ELSE @]
                  /\ g <=> forwards[up.port] = Absent
        PROVE  ProvisionInv'
    <3>1. RecordStageSuccess("forward") \in Recorded /\ After("forward") = "proof"
      BY <1>0, <1>1, <2>1, RecordIs, StagesAre
    <3>2. PICK x \in Up : x = [up EXCEPT !.pc = "proof", !.forwarding = g, !.disturbed = b,
                                         !.state = RecordStageSuccess("forward")]
      BY <1>0, <3>1 DEF Up, Stages
    <3>3. /\ up' = x /\ x.pc = "proof" /\ x.refused = up.refused
          /\ x.state = RecordStageSuccess("forward") /\ x.forwarding = g
          /\ x.digest = up.digest /\ x.context = up.context
          /\ x.port = up.port /\ x.current = up.current
      BY <1>0, <2>3, <3>2 DEF Up
    <3> QED
      BY <1>0, <2>1, <2>3, <3>1, <3>3, SucceedStep
  <2>4. CASE /\ up' = [up EXCEPT !.pc = "proof", !.state = RecordStageSuccess("forward"),
                                 !.forwarding = forwards[up.port] = Absent]
             /\ forwards' = [forwards EXCEPT ![up.port] =
                                    IF @ = Absent THEN up.current ELSE @]
    <3>1. up' = [up EXCEPT !.pc = "proof", !.state = RecordStageSuccess("forward"),
                           !.forwarding = f, !.disturbed = up.disturbed]
      BY <1>0, <2>2, <2>4 DEF Up
    <3> QED
      BY <1>0, <2>2, <2>3, <2>4, <3>1 DEF Up
  <2>5. CASE /\ up' = [up EXCEPT !.pc = "proof", !.disturbed = TRUE,
                                 !.state = RecordStageSuccess("forward")]
             /\ UNCHANGED forwards
    <3>1. up' = [up EXCEPT !.pc = "proof", !.state = RecordStageSuccess("forward"),
                           !.forwarding = up.forwarding, !.disturbed = TRUE]
      BY <1>0, <2>5 DEF Up
    <3> QED
      BY <1>0, <2>3, <2>5, <3>1 DEF Up
  <2> QED
    BY <1>0, <1>6, <2>1, <2>4, <2>5, SkipStep, RefuseStep DEF Forward
<1>7. CASE Proof
  <2>1. up.pc = "proof" /\ "proof" \in Stages /\ UNCHANGED <<cluster, forwards>>
    BY <1>7 DEF Proof, Stages
  <2>2. CASE /\ Answering /\ Succeed("proof")
             /\ proven' = proven \cup {<<forwards[up.port], cluster[forwards[up.port]]>>}
    <3>1. up' = Done("proof")
      BY <2>2 DEF Succeed
    <3> QED
      BY <1>0, <1>2, <2>1, <2>2, <3>1, SucceedStep
  <2>3. CASE /\ up' = [up EXCEPT !.pc = "teardown", !.refused = TRUE,
                                 !.state = InvalidateStage("proof")]
             /\ UNCHANGED proven
    BY <1>0, <2>1, <2>3, RefuseStep
  <2>4. CASE Refuse("proof") /\ UNCHANGED proven
    BY <1>0, <2>1, <2>4, RefuseStep
  <2>5. CASE Skip("proof") /\ UNCHANGED proven
    BY <1>0, <2>1, <2>5, SkipStep
  <2> QED
    BY <1>7, <2>2, <2>3, <2>4, <2>5 DEF Proof
<1> QED
  BY <1>3, <1>4, <1>5, <1>6, <1>7

LEMMA NothingTellsNoLie ==
    /\ Nothing \in Recorded
    /\ TellsTheTruth(Nothing)
<1>1. \A d \in Digests, c \in Contexts : <<d, c>> # Absent
  BY InputsAssumption DEF Inputs
<1>2. Nothing \in Recorded /\ Nothing["deploy"] = Absent
  BY DEF Nothing, Recorded, Stages
<1> QED
  BY <1>1, <1>2 DEF TellsTheTruth

LEMMA ProvisionBegins ==
    ASSUME ProvisionInit
    PROVE  ProvisionInv
<1>1. up \in Up /\ up.pc = "idle" /\ up.runs = 0 /\ up.forwarding = FALSE
  BY NothingTellsNoLie, ProvisionAssumption DEF ProvisionInit, Up
<1>2. ProvisionTypeOK
  BY <1>1, NothingTellsNoLie DEF ProvisionInit, ProvisionTypeOK, Up
<1>3. UpIsSound
  BY <1>1, NothingTellsNoLie DEF ProvisionInit, UpIsSound, Stages
<1> QED
  BY <1>1, <1>2, <1>3 DEF ProvisionInv, ProvisionIsReal

LEMMA ProvisionStep ==
    ASSUME ProvisionInv, ProvisionNext
    PROVE  ProvisionInv'
<1>0. ProvisionTypeOK /\ up \in Up
  BY DEF ProvisionInv, ProvisionTypeOK, Up
<1>1. ASSUME NEW d \in Digests, NEW c \in Contexts, NEW current \in Contexts,
             NEW p \in Ports, StartUp(d, c, p, current)
      PROVE  ProvisionInv'
  <2>1. PICK loaded \in {saved, Nothing} :
          up' = [pc |-> "check", runs |-> up.runs + 1, digest |-> d, context |-> c,
                 port |-> p, current |-> current, state |-> loaded,
                 forwarding |-> FALSE, refused |-> FALSE, disturbed |-> FALSE]
    BY <1>1 DEF StartUp
  <2>2. loaded \in Recorded /\ up.runs + 1 \in 0..MaxUps
    <3>1. loaded \in Recorded
      BY <1>0, NothingTellsNoLie DEF ProvisionTypeOK
    <3>2. up.runs \in 0..MaxUps /\ up.runs < MaxUps
      BY <1>0, <1>1 DEF Up, StartUp
    <3> QED
      BY <3>1, <3>2, ProvisionAssumption
  <2>3. PICK n \in 0..MaxUps : n = up.runs + 1
    BY <2>2
  <2>4. /\ up' \in Up /\ up'.pc = "check" /\ up'.digest = d /\ up'.context = c
        /\ up'.port = p /\ up'.current = current /\ up'.state = loaded
        /\ up'.forwarding = FALSE /\ up'.refused = FALSE
    BY <2>1, <2>2, <2>3 DEF Up
  <2>5. /\ UNCHANGED <<saved, cluster, forwards, proven>> /\ up.pc = "idle"
        /\ astray' = (astray \/ current # c)
    BY <1>1 DEF StartUp
  <2>6. ProvisionTypeOK'
    BY <1>0, <2>4, <2>5 DEF ProvisionTypeOK, Up
  <2>7. ASSUME ~astray'
        PROVE  UpIsSound'
    <3>1. UpIsSound /\ current = c
      BY <2>5, <2>7 DEF ProvisionInv
    <3>2. TellsTheTruth(loaded)
      BY <2>5, <3>1, NothingTellsNoLie DEF UpIsSound
    <3>3. TellsTheTruth(up.state)'
      BY <2>4, <2>5, <3>2 DEF TellsTheTruth
    <3> QED
      BY <2>4, <2>5, <3>1, <3>3 DEF UpIsSound
  <2>8. ProvisionIsReal'
    BY <2>4 DEF ProvisionIsReal
  <2> QED
    BY <2>4, <2>6, <2>7, <2>8 DEF ProvisionInv
<1>2. CASE Teardown
  <2>1. /\ up.pc = "teardown" /\ UNCHANGED <<cluster, proven>>
        /\ \/ saved' = up.state /\ UNCHANGED astray
           \/ astray' = TRUE /\ UNCHANGED saved
    BY <1>2 DEF Teardown
  <2>2. PICK x \in Up : /\ up' = x /\ x.pc = "idle" /\ x.forwarding = FALSE
                        /\ x.refused = up.refused /\ x.digest = up.digest
                        /\ x.context = up.context /\ x.port = up.port
    <3>1. PICK x \in Up : x = [up EXCEPT !.pc = "idle", !.forwarding = FALSE]
      BY <1>0 DEF Up
    <3> QED
      BY <1>0, <1>2, <3>1 DEF Teardown, Up
  <2>3. forwards' \in [Ports -> Contexts \cup {Absent}] /\ saved' \in Recorded
        /\ astray' \in BOOLEAN
    BY <1>0, <1>2 DEF Teardown, ProvisionTypeOK, Up
  <2>4. ProvisionTypeOK'
    BY <1>0, <2>1, <2>2, <2>3 DEF ProvisionTypeOK, Up
  <2>5. ASSUME ~astray'
        PROVE  /\ UpIsSound /\ saved' = up.state
               /\ \A q \in Ports : forwards'[q] = Absent
    <3>1. UpIsSound
      BY <2>1, <2>5 DEF ProvisionInv
    <3> QED
      BY <1>0, <1>2, <2>1, <2>5, <3>1 DEF UpIsSound, Teardown, ProvisionTypeOK
  <2>6. ASSUME ~astray'
        PROVE  UpIsSound'
    <3>1. TellsTheTruth(up.state)
      BY <2>1, <2>5, <2>6 DEF UpIsSound
    <3>2. TellsTheTruth(saved)'
      BY <2>1, <2>5, <2>6, <3>1 DEF TellsTheTruth
    <3> QED
      BY <2>2, <2>5, <2>6, <3>2 DEF UpIsSound, Stages
  <2>7. ProvisionIsReal'
    <3>1. ASSUME ~up.refused, ~astray'
          PROVE  /\ cluster[up.context] = up.digest
                 /\ <<up.context, up.digest>> \in proven
      BY <2>1, <2>5, <3>1 DEF ProvisionInv, UpIsSound, TellsTheTruth
    <3> QED
      BY <2>1, <2>2, <3>1 DEF ProvisionIsReal
  <2> QED
    BY <2>2, <2>4, <2>6, <2>7 DEF ProvisionInv
<1>3. CASE KillUp
  <2>1. PICK x \in Up : up' = x /\ x.pc = "idle" /\ x.refused = TRUE
    <3>1. PICK x \in Up : x = [up EXCEPT !.pc = "idle", !.forwarding = FALSE,
                                         !.refused = TRUE, !.disturbed = TRUE]
      BY <1>0 DEF Up
    <3> QED
      BY <1>0, <1>3, <3>1 DEF KillUp, Up
  <2>2. ProvisionTypeOK' /\ astray' = TRUE
    BY <1>0, <1>3, <2>1 DEF KillUp, ProvisionTypeOK, Up
  <2> QED
    BY <2>1, <2>2 DEF ProvisionInv, ProvisionIsReal
<1> QED
  BY <1>1, <1>2, <1>3, StageStep DEF ProvisionNext

-----------------------------------------------------------------------------
(* Sets of numbers                                                         *)

\* A set of naturals that is not empty has its least element.
LEMMA LeastIsMember ==
    ASSUME NEW S \in SUBSET Nat, S # {}
    PROVE  Min(S) \in S /\ \A y \in S : Min(S) <= y
<1>1. IsWellFoundedOn(OpToRel(<, Nat), Nat)
  BY NatLessThanWellFounded
<1>2. PICK x \in S : \A y \in S : ~(<<y, x>> \in OpToRel(<, Nat))
  BY <1>1, WFMin
<1>3. ASSUME NEW y \in S, y < x
      PROVE  <<y, x>> \in OpToRel(<, Nat)
  <2>1. y \in Nat /\ x \in Nat
    OBVIOUS
  <2> QED
    BY <1>3, <2>1 DEF OpToRel
<1>4. \A y \in S : ~(y < x)
  BY <1>2, <1>3
<1>5. \A y \in S : x <= y
  BY <1>4
<1> QED
  BY <1>5 DEF Min

-----------------------------------------------------------------------------
(* The migrations                                                          *)

LEMMA FileSetIs ==
    ASSUME NEW f
    PROVE  f \in FileSet <=> \E s \in SUBSET Versions : f \in [s -> Texts]
BY DEF FileSet

LEMMA FileSetHas ==
    ASSUME NEW f \in FileSet
    PROVE  DOMAIN f \subseteq Versions /\ \A v \in DOMAIN f : f[v] \in Texts
BY FileSetIs

\* A process that is past the lock holds it alone, what it is about to apply is
\* what its checkout has and the table has not, and a checkout reported as
\* applied still is.
MigratorIsSound(m) ==
    LET x == migrator[m]
    IN  /\ x.at \in {"ensure", "replan", "apply", "unlock"} => holders = {m}
        /\ x.at \in {"replan", "apply"} => table # NoTable
        /\ x.at = "apply" => ~HasDrift(x.files) /\ x.pending = Pending(x.files)
        /\ x.upToDate => \A v \in DOMAIN x.files :
                              v \in DOMAIN Applied /\ Applied[v] = x.files[v]

\* What ran, each version once, is what is recorded, and all of it is in the
\* checkout of the last that ran.
SchemaIsRecorded ==
    /\ \A i, j \in DOMAIN ran : ran[i].version = ran[j].version => i = j
    /\ \A i \in DOMAIN ran : /\ ran[i].version \in DOMAIN Applied
                             /\ Applied[ran[i].version] = ran[i].text
    /\ \A v \in DOMAIN Applied : \E i \in DOMAIN ran : ran[i].version = v
    /\ \A v \in DOMAIN Applied : v \in DOMAIN lastFrom /\ lastFrom[v] = Applied[v]

RanFile == [version : Versions, text : Texts]

MigrateInv ==
    /\ migrator \in [Migrators -> Migrator]
    /\ table \in FileSet \cup {NoTable}
    /\ ran \in Seq(RanFile)
    /\ SchemaIsRecorded
    /\ \A m \in Migrators : MigratorIsSound(m)

LEMMA NoFilesIs == NoFiles \in FileSet /\ DOMAIN NoFiles = {} /\ NoFiles # NoTable
<1>1. NoFiles \in [{} -> Texts]
  BY DEF NoFiles
<1> QED
  BY <1>1, FileSetIs, NoTableAssumption

LEMMA AppliedIs ==
    ASSUME table \in FileSet \cup {NoTable}
    PROVE  Applied \in FileSet /\ (table # NoTable => Applied = table)
BY NoFilesIs DEF Applied

\* Every step but two is of one process's locals and of the lock.
LEMMA MigratorTurn ==
    ASSUME MigrateInv, NEW m \in Migrators, NEW x \in Migrator,
           migrator' = [migrator EXCEPT ![m] = x],
           UNCHANGED <<ran, lastFrom>>, Applied' = Applied,
           table' \in FileSet \cup {NoTable},
           table # NoTable => table' # NoTable,
           x.at \in {"ensure", "replan", "apply", "unlock"} => holders' = {m},
           x.at \in {"replan", "apply"} => table' # NoTable,
           x.at = "apply" => ~HasDrift(x.files) /\ x.pending = Pending(x.files),
           x.upToDate => \A v \in DOMAIN x.files :
                            v \in DOMAIN Applied /\ Applied[v] = x.files[v],
           \A o \in Migrators \ {m} : holders = {o} => holders' = {o}
    PROVE  MigrateInv'
<1>1. migrator' \in [Migrators -> Migrator]
  BY DEF MigrateInv
<1>2. migrator'[m] = x /\ \A o \in Migrators \ {m} : migrator'[o] = migrator[o]
  BY DEF MigrateInv
<1>3. \A files : (HasDrift(files)' <=> HasDrift(files)) /\ Pending(files)' = Pending(files)
  BY DEF HasDrift, Pending
<1>4. SchemaIsRecorded'
  BY DEF MigrateInv, SchemaIsRecorded
<1>5. MigratorIsSound(m)'
  BY <1>2 DEF MigratorIsSound, HasDrift, Pending
<1>6. ASSUME NEW o \in Migrators \ {m}
      PROVE  MigratorIsSound(o)'
  <2>1. MigratorIsSound(o) /\ migrator'[o] = migrator[o]
    BY <1>2 DEF MigrateInv
  <2> QED
    BY <2>1 DEF MigratorIsSound, HasDrift, Pending
<1> QED
  BY <1>1, <1>4, <1>5, <1>6 DEF MigrateInv

LEMMA UnstartedIs ==
    /\ Unstarted \in Migrator /\ Unstarted.at = "idle" /\ ~Unstarted.upToDate
    /\ \A files \in FileSet :
          LET told == [Unstarted EXCEPT !.files = files, !.upToDate = TRUE]
          IN  /\ told \in Migrator /\ told.at = "idle" /\ told.upToDate
              /\ told.files = files
<1>1. Unstarted \in Migrator
  BY NoFilesIs DEF Unstarted, Migrator
<1> QED
  BY <1>1 DEF Unstarted, Migrator

\* A report ends the process, and tells of success only what was applied.
LEMMA ReportStep ==
    ASSUME MigrateInv, NEW m \in Migrators, NEW ok \in BOOLEAN, Reports(m, ok),
           UNCHANGED <<table, ran, lastFrom>>,
           ok => \A v \in DOMAIN migrator[m].files :
                    v \in DOMAIN Applied /\ Applied[v] = migrator[m].files[v],
           \A o \in Migrators \ {m} : holders = {o} => holders' = {o}
    PROVE  MigrateInv'
<1>1. migrator[m] \in Migrator /\ migrator[m].files \in FileSet
  BY DEF MigrateInv, Migrator
<1>2. PICK x \in Migrator :
          /\ migrator' = [migrator EXCEPT ![m] = x]
          /\ x.at = "idle" /\ (x.upToDate => ok /\ x.files = migrator[m].files)
  <2>1. CASE ok
    BY <1>1, <2>1, UnstartedIs DEF Reports
  <2>2. CASE ~ok
    BY <1>1, <2>2, UnstartedIs DEF Reports
  <2> QED
    BY <2>1, <2>2
<1>3. Applied' = Applied /\ table' \in FileSet \cup {NoTable}
  BY DEF Applied, MigrateInv
<1> QED
  BY <1>2, <1>3, MigratorTurn

\* A file that ran leaves the record, the checkout and the plan of the process
\* that ran it agreeing: it holds the lock, so nobody else was about to run one.
LEMMA FileStep ==
    ASSUME MigrateInv, NEW m \in Migrators, ApplyFile(m)
    PROVE  MigrateInv'
<1> DEFINE y == migrator[m]
           next == Min(y.pending)
           text == y.files[next]
<1>1. /\ y \in Migrator /\ y.files \in FileSet /\ y.at = "apply" /\ y.pending # {}
      /\ holders = {m} /\ holders' = holders /\ table # NoTable /\ table \in FileSet
      /\ ~HasDrift(y.files) /\ y.pending = Pending(y.files)
  BY DEF MigrateInv, Migrator, ApplyFile, MigratorAt, MigratorIsSound
<1>2. Applied = table
  BY <1>1, AppliedIs
<1>3. next \in y.pending
  BY <1>1, LeastIsMember, MigrateAssumption, FileSetHas DEF Pending
<1>4. /\ next \in DOMAIN y.files /\ next \notin DOMAIN table
      /\ next \in Versions /\ text \in Texts
  BY <1>1, <1>2, <1>3, FileSetHas DEF Pending
<1> HIDE DEF next
<1>5. ASSUME migrator' = [migrator EXCEPT ![m] = [@ EXCEPT !.at = "unlock", !.pending = {}]],
             UNCHANGED <<table, ran, lastFrom>>
      PROVE  MigrateInv'
  <2>1. PICK x \in Migrator : x = [y EXCEPT !.at = "unlock", !.pending = {}]
    BY <1>1 DEF Migrator
  <2>2. x.at = "unlock" /\ x.upToDate = y.upToDate /\ x.files = y.files
    BY <1>1, <2>1 DEF Migrator
  <2>3. migrator' = [migrator EXCEPT ![m] = x]
    BY <1>5, <2>1 DEF MigrateInv
  <2>4. Applied' = Applied /\ table' \in FileSet \cup {NoTable}
    BY <1>5 DEF Applied, MigrateInv
  <2>5. x.upToDate => \A v \in DOMAIN x.files :
                        v \in DOMAIN Applied /\ Applied[v] = x.files[v]
    BY <2>2 DEF MigrateInv, MigratorIsSound
  <2> QED
    BY <1>1, <1>5, <2>2, <2>3, <2>4, <2>5, MigratorTurn
<1>6. ASSUME table' = [v \in DOMAIN table \cup {next} |->
                             IF v = next THEN text ELSE table[v]],
             ran' = Append(ran, [version |-> next, text |-> text]),
             lastFrom' = y.files,
             migrator' = [migrator EXCEPT ![m].pending = @ \ {next}]
      PROVE  MigrateInv'
  <2>1. /\ DOMAIN table' = DOMAIN table \cup {next} /\ table'[next] = text
        /\ \A v \in DOMAIN table : table'[v] = table[v]
    BY <1>4, <1>6
  <2>2. table' \in FileSet
    <3>1. DOMAIN table \subseteq Versions /\ \A v \in DOMAIN table : table[v] \in Texts
      BY <1>1, FileSetHas
    <3>2. table' \in [DOMAIN table \cup {next} -> Texts]
      BY <1>4, <1>6, <3>1
    <3> QED
      BY <1>4, <3>1, <3>2, FileSetIs
  <2>3. Applied' = table' /\ table' # NoTable
    BY <2>2, NoTableAssumption DEF Applied
  <2>4. PICK x \in Migrator : x = [y EXCEPT !.pending = y.pending \ {next}]
    BY <1>1 DEF Migrator
  <2>5. /\ migrator' \in [Migrators -> Migrator] /\ migrator'[m] = x
        /\ \A o \in Migrators \ {m} : migrator'[o] = migrator[o]
    BY <1>6, <2>4 DEF MigrateInv, Migrator
  <2>6. /\ x.at = "apply" /\ x.files = y.files /\ x.upToDate = y.upToDate
        /\ x.pending = y.pending \ {next}
    BY <1>1, <2>4 DEF Migrator
  <2>7. (~HasDrift(x.files) /\ x.pending = Pending(x.files))'
    BY <1>1, <1>2, <1>4, <2>1, <2>3, <2>6 DEF HasDrift, Pending
  <2>8. ran' \in Seq(RanFile)
    BY <1>4, <1>6 DEF MigrateInv, RanFile
  <2>9. SchemaIsRecorded'
    <3>1. /\ Len(ran) \in Nat /\ DOMAIN ran' = 1..(Len(ran) + 1)
          /\ ran'[Len(ran) + 1] = [version |-> next, text |-> text]
          /\ DOMAIN ran = 1..Len(ran)
          /\ \A i \in DOMAIN ran : ran'[i] = ran[i]
      BY <1>6 DEF MigrateInv
    <3>2. \A i \in DOMAIN ran : /\ ran[i].version \in DOMAIN table
                                /\ table[ran[i].version] = ran[i].text
      BY <1>2 DEF MigrateInv, SchemaIsRecorded
    <3>3. \A i \in DOMAIN ran' : i \in DOMAIN ran \/ i = Len(ran) + 1
      BY <3>1
    <3>4. \A i \in DOMAIN ran' : /\ ran'[i].version \in DOMAIN table'
                                 /\ table'[ran'[i].version] = ran'[i].text
      BY <2>1, <3>1, <3>2, <3>3
    <3>5. \A i, j \in DOMAIN ran' : ran'[i].version = ran'[j].version => i = j
      BY <1>4, <3>1, <3>2, <3>3 DEF MigrateInv, SchemaIsRecorded
    <3>6. \A v \in DOMAIN table' : \E i \in DOMAIN ran' : ran'[i].version = v
      <4>1. ASSUME NEW v \in DOMAIN table
            PROVE  \E i \in DOMAIN ran' : ran'[i].version = v
        <5>1. PICK i \in DOMAIN ran : ran[i].version = v
          BY <1>2, <4>1 DEF MigrateInv, SchemaIsRecorded
        <5> QED
          BY <3>1, <5>1
      <4>2. \E i \in DOMAIN ran' : ran'[i].version = next
        BY <3>1
      <4> QED
        BY <2>1, <4>1, <4>2
    <3>7. \A v \in DOMAIN table' : v \in DOMAIN lastFrom' /\ lastFrom'[v] = table'[v]
      BY <1>1, <1>2, <1>4, <1>6, <2>1 DEF HasDrift
    <3> QED
      BY <2>3, <3>4, <3>5, <3>6, <3>7 DEF SchemaIsRecorded
  <2>10. MigratorIsSound(m)'
    <3>0. y.upToDate => \A v \in DOMAIN y.files :
                          v \in DOMAIN Applied /\ Applied[v] = y.files[v]
      BY DEF MigrateInv, MigratorIsSound
    <3>1. x.upToDate => \A v \in DOMAIN x.files :
                          v \in DOMAIN table' /\ table'[v] = x.files[v]
      <4>1. \A v \in DOMAIN table : v \in DOMAIN table' /\ table'[v] = table[v]
        BY <2>1
      <4> QED
        BY <1>2, <2>6, <3>0, <4>1
    <3> QED
      BY <1>1, <2>3, <2>5, <2>6, <2>7, <3>1 DEF MigratorIsSound
  <2>11. ASSUME NEW o \in Migrators \ {m}
         PROVE  MigratorIsSound(o)'
    <3>1. migrator'[o] = migrator[o] /\ MigratorIsSound(o)
      BY <2>5 DEF MigrateInv
    <3>2. migrator[o].at \notin {"ensure", "replan", "apply", "unlock"}
      BY <1>1, <3>1 DEF MigratorIsSound
    <3>3. migrator[o].upToDate => \A v \in DOMAIN migrator[o].files :
              v \in DOMAIN table' /\ table'[v] = migrator[o].files[v]
      BY <1>2, <2>1, <3>1 DEF MigratorIsSound
    <3> QED
      BY <2>3, <3>1, <3>2, <3>3 DEF MigratorIsSound
  <2> QED
    BY <2>2, <2>5, <2>8, <2>9, <2>10, <2>11 DEF MigrateInv
<1> QED
  BY <1>1, <1>5, <1>6 DEF ApplyFile, next

LEMMA MigrateStep ==
    ASSUME MigrateInv, MigrateNext
    PROVE  MigrateInv'
<1>1. PICK m \in Migrators :
        \/ StartMigrate(m) \/ PlanMigrate(m) \/ TakeLock(m) \/ EnsureTable(m)
        \/ Replan(m) \/ ApplyFile(m) \/ ApplyEnds(m) \/ Unlock(m) \/ LoseSession(m)
  BY DEF MigrateNext
<1> DEFINE y == migrator[m]
<1>2. y \in Migrator /\ y.files \in FileSet /\ MigratorIsSound(m)
  BY DEF MigrateInv, Migrator
<1>3. table \in FileSet \cup {NoTable} /\ (table' = table => Applied' = Applied)
  BY DEF MigrateInv, Applied
<1>4. y.upToDate => \A v \in DOMAIN y.files :
                      v \in DOMAIN Applied /\ Applied[v] = y.files[v]
  BY <1>2 DEF MigratorIsSound
<1>5. ASSUME ~HasDrift(y.files), Pending(y.files) = {}
      PROVE  \A v \in DOMAIN y.files : v \in DOMAIN Applied /\ Applied[v] = y.files[v]
  BY <1>5 DEF HasDrift, Pending
<1>6. CASE StartMigrate(m)
  <2>1. PICK files \in FileSet, action \in {"status", "apply"} :
            migrator' = [migrator EXCEPT ![m] =
              [Unstarted EXCEPT !.at = "plan", !.action = action, !.files = files]]
    BY <1>6 DEF StartMigrate
  <2>2. PICK x \in Migrator :
            x = [Unstarted EXCEPT !.at = "plan", !.action = action, !.files = files]
    BY UnstartedIs DEF Migrator
  <2>3. x.at = "plan" /\ ~x.upToDate
    BY <2>2, UnstartedIs DEF Unstarted
  <2> QED
    BY <1>3, <1>6, <2>1, <2>2, <2>3, MigratorTurn DEF StartMigrate
<1>7. CASE PlanMigrate(m)
  <2>1. UNCHANGED <<table, ran, lastFrom, holders>>
    BY <1>7 DEF PlanMigrate
  <2>2. CASE HasDrift(y.files) /\ Reports(m, FALSE)
    BY <2>1, <2>2, ReportStep
  <2>3. CASE ~HasDrift(y.files) /\ Reports(m, Pending(y.files) = {})
    <3>1. PICK ok \in BOOLEAN : ok <=> Pending(y.files) = {}
      OBVIOUS
    <3>2. CASE Pending(y.files) = {}
      <4>1. Reports(m, TRUE)
        BY <2>3, <3>2 DEF Reports
      <4> QED
        BY <1>5, <2>1, <2>3, <3>2, <4>1, ReportStep
    <3>3. CASE Pending(y.files) # {}
      <4>1. Reports(m, FALSE)
        BY <2>3, <3>3 DEF Reports
      <4> QED
        BY <2>1, <4>1, ReportStep
    <3> QED
      BY <3>2, <3>3
  <2>4. CASE migrator' = [migrator EXCEPT ![m].at = "lock", ![m].pending = Pending(y.files)]
    <3>1. PICK todo \in SUBSET Versions : todo = Pending(y.files)
      BY <1>2, FileSetHas DEF Pending
    <3>2. PICK x \in Migrator : x = [y EXCEPT !.at = "lock", !.pending = todo]
      BY <1>2 DEF Migrator
    <3>3. migrator' = [migrator EXCEPT ![m] = x]
      BY <2>4, <3>1, <3>2 DEF MigrateInv, Migrator
    <3>4. x.at = "lock" /\ x.upToDate = y.upToDate /\ x.files = y.files
      BY <1>2, <3>2 DEF Migrator
    <3> QED
      BY <1>3, <1>4, <2>1, <3>3, <3>4, MigratorTurn
  <2> QED
    BY <1>7, <2>2, <2>3, <2>4 DEF PlanMigrate
<1>8. CASE TakeLock(m)
  <2>1. PICK x \in Migrator : x = [y EXCEPT !.at = "ensure"]
    BY <1>2 DEF Migrator
  <2>2. migrator' = [migrator EXCEPT ![m] = x]
    BY <1>8, <2>1 DEF TakeLock, MigrateInv, Migrator
  <2>3. x.at = "ensure" /\ x.upToDate = y.upToDate /\ x.files = y.files
    BY <1>2, <2>1 DEF Migrator
  <2>4. holders = {} /\ holders' = {m} /\ UNCHANGED <<table, ran, lastFrom>>
    BY <1>8 DEF TakeLock
  <2> QED
    BY <1>3, <1>4, <2>2, <2>3, <2>4, MigratorTurn
<1>9. CASE EnsureTable(m)
  <2>1. PICK x \in Migrator : x = [y EXCEPT !.at = "replan"]
    BY <1>2 DEF Migrator
  <2>2. migrator' = [migrator EXCEPT ![m] = x]
    BY <1>9, <2>1 DEF EnsureTable, MigrateInv, Migrator
  <2>3. x.at = "replan" /\ x.upToDate = y.upToDate /\ x.files = y.files
    BY <1>2, <2>1 DEF Migrator
  <2>4. /\ y.at = "ensure" /\ holders' = {m} /\ UNCHANGED <<ran, lastFrom>>
        /\ table' = Applied /\ holders' = holders
    BY <1>2, <1>9 DEF EnsureTable, MigratorAt, MigratorIsSound
  <2>5. table' \in FileSet /\ table' # NoTable /\ Applied' = Applied
    BY <1>3, <2>4, AppliedIs, NoTableAssumption DEF Applied
  <2> QED
    BY <1>3, <1>4, <2>2, <2>3, <2>4, <2>5, MigratorTurn
<1>10. CASE Replan(m)
  <2>1. /\ y.at = "replan" /\ holders' = {m} /\ table # NoTable
        /\ UNCHANGED <<table, ran, lastFrom, holders>>
    BY <1>2, <1>10 DEF Replan, MigratorAt, MigratorIsSound
  <2>2. PICK todo \in SUBSET Versions : todo = Pending(y.files)
    BY <1>2, FileSetHas DEF Pending
  <2>3. PICK x \in Migrator :
            x = IF HasDrift(y.files) THEN [y EXCEPT !.at = "unlock", !.pending = {}]
                ELSE [y EXCEPT !.at = "apply", !.pending = todo]
    BY <1>2 DEF Migrator
  <2>4. migrator' = [migrator EXCEPT ![m] = x]
    BY <1>10, <2>2, <2>3 DEF Replan, MigrateInv
  <2>5. /\ x.upToDate = y.upToDate /\ x.files = y.files /\ x.at \in {"unlock", "apply"}
        /\ x.at = "apply" => ~HasDrift(y.files) /\ x.pending = Pending(y.files)
    BY <1>2, <2>2, <2>3 DEF Migrator
  <2> QED
    BY <1>3, <1>4, <2>1, <2>4, <2>5, MigratorTurn
<1>11. CASE ApplyEnds(m)
  <2>1. /\ y.at = "apply" /\ holders' = {m} /\ table # NoTable /\ y.pending = {}
        /\ ~HasDrift(y.files) /\ Pending(y.files) = {}
        /\ UNCHANGED <<table, ran, lastFrom, holders>>
    BY <1>2, <1>11 DEF ApplyEnds, MigratorAt, MigratorIsSound
  <2>2. PICK x \in Migrator : x = [y EXCEPT !.at = "unlock", !.upToDate = TRUE]
    BY <1>2 DEF Migrator
  <2>3. migrator' = [migrator EXCEPT ![m] = x]
    BY <1>11, <2>2 DEF ApplyEnds, MigrateInv, Migrator
  <2>4. x.at = "unlock" /\ x.files = y.files
    BY <1>2, <2>2 DEF Migrator
  <2> QED
    BY <1>3, <1>5, <2>1, <2>3, <2>4, MigratorTurn
<1>12. CASE Unlock(m)
  <2>1. /\ holders' = holders \ {m} /\ UNCHANGED <<table, ran, lastFrom>>
        /\ Reports(m, y.upToDate) /\ y.upToDate \in BOOLEAN
    BY <1>2, <1>12 DEF Unlock, Migrator
  <2> QED
    BY <1>4, <2>1, ReportStep
<1>13. CASE LoseSession(m)
  <2>1. /\ holders' = holders \ {m} /\ UNCHANGED <<table, ran, lastFrom>>
        /\ Reports(m, FALSE)
    BY <1>13 DEF LoseSession
  <2> QED
    BY <2>1, ReportStep
<1> QED
  BY <1>1, <1>6, <1>7, <1>8, <1>9, <1>10, <1>11, <1>12, <1>13, FileStep

LEMMA MigrateBegins ==
    ASSUME MigrateInit
    PROVE  MigrateInv
<1>1. Applied = NoFiles
  BY DEF MigrateInit, Applied
<1>2. SchemaIsRecorded
  BY <1>1, NoFilesIs DEF SchemaIsRecorded, MigrateInit
<1>3. migrator \in [Migrators -> Migrator] /\ \A m \in Migrators : migrator[m] = Unstarted
  BY UnstartedIs DEF MigrateInit
<1>4. \A m \in Migrators : MigratorIsSound(m)
  BY <1>3, UnstartedIs DEF MigratorIsSound
<1> QED
  BY <1>2, <1>3, <1>4 DEF MigrateInit, MigrateInv

LEMMA MigrateIsGood ==
    ASSUME MigrateInv
    PROVE  SchemaIsOneCheckout
<1> DEFINE files == {<<ran[i].version, ran[i].text>> : i \in DOMAIN ran}
           rows == {<<v, Applied[v]>> : v \in DOMAIN Applied}
<1>1. files \subseteq rows
  BY DEF MigrateInv, SchemaIsRecorded
<1>2. rows \subseteq files
  <2>1. ASSUME NEW v \in DOMAIN Applied
        PROVE  <<v, Applied[v]>> \in files
    <3>1. PICK i \in DOMAIN ran : ran[i].version = v
      BY DEF MigrateInv, SchemaIsRecorded
    <3>2. Applied[v] = ran[i].text
      BY <3>1 DEF MigrateInv, SchemaIsRecorded
    <3> QED
      BY <3>1, <3>2
  <2> QED
    BY <2>1
<1>3. files = rows
  BY <1>1, <1>2
<1>4. \A i \in DOMAIN ran : /\ ran[i].version \in DOMAIN lastFrom
                            /\ lastFrom[ran[i].version] = ran[i].text
  BY DEF MigrateInv, SchemaIsRecorded
<1>5. \A i, j \in DOMAIN ran : ran[i].version = ran[j].version => i = j
  BY DEF MigrateInv, SchemaIsRecorded
<1>6. \A m \in Migrators : migrator[m].upToDate =>
          \A v \in DOMAIN migrator[m].files :
              v \in DOMAIN Applied /\ Applied[v] = migrator[m].files[v]
  BY DEF MigrateInv, MigratorIsSound
<1> QED
  BY <1>3, <1>4, <1>5, <1>6 DEF SchemaIsOneCheckout

-----------------------------------------------------------------------------
(* The opening of the run history                                          *)

Opener == [at : {"closed", "select", "repair", "index", "upgrade", "open", "stuck"},
           todo : SUBSET OldRuns, half : BOOLEAN, group : 1 .. 3,
           left : {<<>>, <<"tenant_id", "git_diff">>, <<"git_diff">>, <<"trace">>}]

\* The loser an opener is at, or all of them, is updated and not yet recorded.
Unrecorded(p, n) ==
    /\ opener[p].half /\ n \in opener[p].todo
    /\ history = "sqlite" => n = Max(opener[p].todo)

\* What a process that opens the store knows of it.
OpenerIsSound(p) ==
    LET x == opener[p]
    IN  /\ x.at = "repair" <=> x.todo # {}
        /\ x.half => x.at = "repair"
        /\ x.left # <<>> => x.at = "upgrade"
        /\ x.at \in {"upgrade", "open"} => claimed
        /\ history = "postgres" => x.at # "upgrade"
        /\ x.at # "upgrade" => x.left = <<>>
        /\ x.at \notin {"upgrade", "open"} => x.group = 1
        /\ x.left = <<"tenant_id", "git_diff">> => x.group = 2
        /\ x.at \in {"upgrade", "open"} /\ history = "sqlite" /\ x.group > 1
              => "tenant_id" \in columns \/ x.left = <<"tenant_id", "git_diff">>
        /\ x.at \in {"upgrade", "open"} /\ history = "sqlite" /\ x.group > 2
              => "trace" \in columns \/ x.left = <<"trace">>
        /\ x.at = "open" /\ history = "sqlite" => x.group = 3
        /\ \A n \in x.todo : \E m \in OldRuns : m > n /\ runAt[m] # "none"
        /\ \A n \in OldRuns : Unrecorded(p, n) => runAt[n] = "repaired"
        /\ x.todo \cap settled = {}

\* What was repaired is recorded, about to be, or an opening was cut off.
RepairsAreSound ==
    /\ \A n \in OldRuns : runAt[n] = "repaired" =>
          /\ \E m \in OldRuns : m > n /\ runAt[m] # "none"
          /\ n \in recordedEnds \/ cutOff \/ \E p \in Openers : Unrecorded(p, n)
    /\ \A n \in recordedEnds : runAt[n] = "repaired"
    /\ \A n \in settled : runAt[n] = "ended"

ColumnsAreSound ==
    /\ history = "postgres" => columns = Columns
    /\ "tenant_id" \in columns => \/ "git_diff" \in columns \/ cutOff
                                  \/ \E q \in Openers : opener[q].left = <<"git_diff">>

StartInv ==
    /\ history \in {"sqlite", "postgres"}
    /\ runAt \in [OldRuns -> {"none", "active", "ended", "repaired"}]
    /\ recordedEnds \subseteq OldRuns /\ settled \subseteq OldRuns
    /\ claimed \in BOOLEAN /\ cutOff \in BOOLEAN /\ columns \subseteq Columns
    /\ opener \in [Openers -> Opener]
    /\ claimed => \A m, n \in Active : m = n
    /\ \A p \in Openers : OpenerIsSound(p)
    /\ RepairsAreSound
    /\ ColumnsAreSound

\* A set of these runs that is not empty has a greatest.
LEMMA GreatestIsMember ==
    ASSUME NEW S \in SUBSET OldRuns, S # {}
    PROVE  Max(S) \in S
<1>1. PICK top \in OldRuns : OldRuns \subseteq 0..top
  BY StartAssumption
<1>2. OldRuns \subseteq Nat /\ top \in Nat
  BY StartAssumption
<1> DEFINE bounds == {b \in Nat : \A s \in S : s <= b}
<1>3. top \in bounds /\ bounds \in SUBSET Nat
  BY <1>1, <1>2
<1>4. PICK b \in bounds : \A y \in bounds : b <= y
  BY <1>3, LeastIsMember
<1>5. b \in S
  <2>1. ASSUME b \notin S
        PROVE  FALSE
    <3>1. \A s \in S : s \in Nat /\ s < b
      BY <1>2, <1>4, <2>1
    <3>2. b - 1 \in bounds
      BY <3>1
    <3> QED
      BY <1>4, <3>2
  <2> QED
    BY <2>1
<1> QED
  BY <1>2, <1>4, <1>5 DEF Max

LEMMA AtMostOne ==
    ASSUME NEW S \in SUBSET OldRuns
    PROVE  Cardinality(S) <= 1 <=> \A m, n \in S : m = n
<1>1. PICK top \in OldRuns : OldRuns \subseteq 0..top
  BY StartAssumption
<1>2. IsFiniteSet(S)
  <2>1. top \in Int /\ 0 \in Int
    BY <1>1, StartAssumption
  <2>2. IsFiniteSet(0..top)
    BY <2>1, FS_Interval
  <2> QED
    BY <1>1, <2>2, FS_Subset
<1>3. Cardinality(S) \in Nat /\ (Cardinality(S) = 0 <=> S = {})
  BY <1>2, FS_CardinalityType, FS_EmptySet
<1>4. ASSUME NEW m \in S
      PROVE  /\ IsFiniteSet(S \ {m})
             /\ Cardinality(S \ {m}) = Cardinality(S) - 1
             /\ Cardinality(S \ {m}) = 0 <=> S \ {m} = {}
  BY <1>2, <1>4, FS_RemoveElement, FS_EmptySet
<1>5. CASE S = {}
  BY <1>3, <1>5
<1>6. CASE S # {}
  <2>1. PICK m \in S : TRUE
    BY <1>6
  <2>2. Cardinality(S) <= 1 <=> S \ {m} = {}
    <3>1. /\ Cardinality(S \ {m}) = Cardinality(S) - 1
          /\ Cardinality(S \ {m}) = 0 <=> S \ {m} = {}
      BY <1>4
    <3>2. Cardinality(S) \in Nat /\ Cardinality(S) # 0
      BY <1>3, <1>6
    <3> QED
      BY <3>1, <3>2
  <2> QED
    BY <2>2
<1> QED
  BY <1>5, <1>6

\* What a step does not undo: the index and the columns stay, a run that was
\* created stays created, one that was repaired stays so, and none that some
\* opener selected is settled.
StartMoves ==
    /\ UNCHANGED history
    /\ claimed => claimed'
    /\ columns \subseteq columns'
    /\ cutOff => cutOff'
    /\ recordedEnds \subseteq recordedEnds'
    /\ \A n \in OldRuns : runAt[n] # "none" => runAt'[n] # "none"
    /\ \A n \in OldRuns : runAt[n] = "repaired" => runAt'[n] = "repaired"
    /\ \A n \in settled' : n \in settled \/ \A q \in Openers : n \notin opener[q].todo

StartTypes ==
    /\ history \in {"sqlite", "postgres"}
    /\ runAt \in [OldRuns -> {"none", "active", "ended", "repaired"}]
    /\ recordedEnds \subseteq OldRuns /\ settled \subseteq OldRuns
    /\ claimed \in BOOLEAN /\ cutOff \in BOOLEAN /\ columns \subseteq Columns

LEMMA OpenerStays ==
    ASSUME StartInv, StartMoves, NEW q \in Openers, opener'[q] = opener[q]
    PROVE  /\ OpenerIsSound(q)'
           /\ \A n \in OldRuns : Unrecorded(q, n) => Unrecorded(q, n)'
<1>1. OpenerIsSound(q) /\ opener[q].todo \subseteq OldRuns
  BY DEF StartInv, Opener
<1>2. \A n \in OldRuns : Unrecorded(q, n) <=> Unrecorded(q, n)'
  BY DEF StartMoves, Unrecorded
<1>3. \A n \in opener'[q].todo : \E m \in OldRuns : m > n /\ runAt'[m] # "none"
  BY <1>1 DEF StartMoves, OpenerIsSound
<1>4. \A n \in OldRuns : Unrecorded(q, n)' => runAt'[n] = "repaired"
  BY <1>1, <1>2 DEF StartMoves, OpenerIsSound
<1>5. opener'[q].todo \cap settled' = {}
  BY <1>1 DEF StartMoves, OpenerIsSound
<1> QED
  BY <1>1, <1>2, <1>3, <1>4, <1>5 DEF StartMoves, OpenerIsSound

LEMMA OpenerTurn ==
    ASSUME StartInv, StartMoves, StartTypes', NEW p \in Openers, NEW x \in Opener,
           opener' = [opener EXCEPT ![p] = x],
           OpenerIsSound(p)',
           (claimed => \A m, n \in Active : m = n)',
           \A n \in OldRuns : runAt'[n] = "repaired" =>
               \/ runAt[n] = "repaired"
               \/ Unrecorded(p, n)' /\ \E m \in OldRuns : m > n /\ runAt[m] # "none",
           \A n \in OldRuns : Unrecorded(p, n) =>
               Unrecorded(p, n)' \/ n \in recordedEnds' \/ cutOff',
           \A n \in recordedEnds' : n \in recordedEnds \/ runAt'[n] = "repaired",
           settled' = settled, \A n \in settled : runAt'[n] = "ended",
           "tenant_id" \in columns' => "tenant_id" \in columns \/ x.left = <<"git_diff">>,
           opener[p].left = <<"git_diff">> =>
               x.left = <<"git_diff">> \/ "git_diff" \in columns' \/ cutOff'
    PROVE  StartInv'
<1>1. /\ opener' \in [Openers -> Opener] /\ opener'[p] = x
      /\ \A q \in Openers \ {p} : opener'[q] = opener[q]
  BY DEF StartInv
<1>2. \A q \in Openers : OpenerIsSound(q)'
  BY <1>1, OpenerStays
<1>3. \A n \in OldRuns, q \in Openers \ {p} : Unrecorded(q, n) => Unrecorded(q, n)'
  BY <1>1, OpenerStays
<1>4. RepairsAreSound'
  <2>1. RepairsAreSound
    BY DEF StartInv
  <2>2. ASSUME NEW n \in OldRuns, runAt'[n] = "repaired"
        PROVE  /\ \E m \in OldRuns : m > n /\ runAt'[m] # "none"
               /\ n \in recordedEnds' \/ cutOff' \/ \E q \in Openers : Unrecorded(q, n)'
    <3>1. CASE runAt[n] = "repaired"
      <4>1. \E m \in OldRuns : m > n /\ runAt'[m] # "none"
        BY <2>1, <3>1 DEF RepairsAreSound, StartMoves
      <4>2. n \in recordedEnds \/ cutOff \/ \E q \in Openers : Unrecorded(q, n)
        BY <2>1, <3>1 DEF RepairsAreSound
      <4>3. n \in recordedEnds' \/ cutOff' \/ \E q \in Openers : Unrecorded(q, n)'
        BY <1>3, <4>2 DEF StartMoves
      <4> QED
        BY <4>1, <4>3
    <3>2. CASE Unrecorded(p, n)' /\ \E m \in OldRuns : m > n /\ runAt[m] # "none"
      BY <3>2 DEF StartMoves
    <3> QED
      BY <2>2, <3>1, <3>2
  <2>3. \A n \in recordedEnds' : runAt'[n] = "repaired"
    BY <2>1 DEF RepairsAreSound, StartMoves, StartInv
  <2> QED
    BY <2>2, <2>3 DEF RepairsAreSound
<1>5. ColumnsAreSound'
  <2>1. ColumnsAreSound /\ columns' \subseteq Columns
    BY DEF StartInv, StartTypes
  <2>2. (history = "postgres" => columns = Columns)'
    BY <2>1 DEF ColumnsAreSound, StartMoves
  <2>3. ASSUME "tenant_id" \in columns'
        PROVE  \/ "git_diff" \in columns' \/ cutOff'
               \/ \E q \in Openers : opener'[q].left = <<"git_diff">>
    BY <1>1, <2>1, <2>3 DEF ColumnsAreSound, StartMoves
  <2> QED
    BY <2>2, <2>3 DEF ColumnsAreSound
<1> QED
  BY <1>1, <1>2, <1>4, <1>5 DEF StartInv, StartTypes

LEMMA StartBegins ==
    ASSUME StartInit
    PROVE  StartInv
<1>1. Closed \in Opener
  BY DEF Closed, Opener
<1>2. /\ opener \in [Openers -> Opener]
      /\ \A p \in Openers : opener[p].at = "closed" /\ opener[p].todo = {}
                            /\ opener[p].half = FALSE /\ opener[p].left = <<>>
                            /\ opener[p].group = 1
  BY <1>1 DEF StartInit, Closed
<1>3. /\ \A p \in Openers : OpenerIsSound(p)
      /\ \A p \in Openers, n \in OldRuns : ~Unrecorded(p, n)
  BY <1>2 DEF OpenerIsSound, Unrecorded
<1>4. RepairsAreSound
  <2>1. \A n \in OldRuns : runAt[n] \in {"none", "active", "ended"}
    BY DEF StartInit
  <2> QED
    BY <2>1 DEF StartInit, RepairsAreSound
<1>5. ColumnsAreSound
  BY DEF StartInit, ColumnsAreSound, Columns
<1>6. StartTypes /\ claimed = FALSE
  BY DEF StartInit, StartTypes, Columns
<1> QED
  BY <1>2, <1>3, <1>4, <1>5, <1>6 DEF StartInv, StartTypes

LEMMA RunsStep ==
    ASSUME StartInv, NEW n \in OldRuns, AcceptWhileOpening(n) \/ EndWhileOpening(n)
    PROVE  StartInv'
<1>1. /\ UNCHANGED <<history, recordedEnds, claimed, columns, opener, openings, cutOff>>
      /\ \/ runAt' = [runAt EXCEPT ![n] = "active"] /\ runAt[n] = "none"
            /\ settled' = settled
         \/ /\ runAt' = [runAt EXCEPT ![n] = "ended"] /\ runAt[n] = "active"
            /\ \/ settled' = settled
               \/ /\ settled' = settled \cup {n}
                  /\ \A p \in Openers : n \notin opener[p].todo
  BY DEF AcceptWhileOpening, EndWhileOpening
<1>2. /\ runAt' \in [OldRuns -> {"none", "active", "ended", "repaired"}]
      /\ \A m \in OldRuns : /\ runAt[m] # "none" => runAt'[m] # "none"
                            /\ runAt[m] = "repaired" <=> runAt'[m] = "repaired"
                            /\ runAt[m] = "ended" => runAt'[m] = "ended"
  BY <1>1 DEF StartInv
<1>3. StartMoves /\ StartTypes'
  BY <1>1, <1>2 DEF StartMoves, StartTypes, StartInv
<1>4. /\ \A q \in Openers : OpenerIsSound(q)'
      /\ \A q \in Openers, m \in OldRuns : Unrecorded(q, m) => Unrecorded(q, m)'
  BY <1>1, <1>3, OpenerStays
<1>5. (claimed => \A a, b \in Active : a = b)'
  <2>1. CASE AcceptWhileOpening(n)
    <3>1. /\ runAt' = [runAt EXCEPT ![n] = "active"]
          /\ claimed' => Active = {}
      BY <2>1 DEF AcceptWhileOpening
    <3>2. \A a \in OldRuns : runAt'[a] = "active" => a \in Active \/ a = n
      BY <3>1 DEF Active, StartInv
    <3> QED
      BY <3>1, <3>2 DEF Active
  <2>2. CASE EndWhileOpening(n)
    <3>1. \A a \in OldRuns : runAt'[a] = "active" => runAt[a] = "active"
      BY <2>2 DEF EndWhileOpening, StartInv
    <3> QED
      BY <1>1, <3>1 DEF Active, StartInv
  <2> QED
    BY <2>1, <2>2
<1>6. RepairsAreSound'
  <2>0. RepairsAreSound
    BY DEF StartInv
  <2>1. ASSUME NEW a \in OldRuns, runAt'[a] = "repaired"
        PROVE  /\ \E m \in OldRuns : m > a /\ runAt'[m] # "none"
               /\ a \in recordedEnds' \/ cutOff' \/ \E q \in Openers : Unrecorded(q, a)'
    <3>1. /\ \E m \in OldRuns : m > a /\ runAt[m] # "none"
          /\ a \in recordedEnds \/ cutOff \/ \E q \in Openers : Unrecorded(q, a)
      BY <1>2, <2>0, <2>1 DEF RepairsAreSound
    <3> QED
      BY <1>1, <1>2, <1>4, <3>1
  <2>2. (\A m \in recordedEnds : runAt[m] = "repaired")'
    BY <1>1, <1>2, <2>0 DEF RepairsAreSound, StartInv
  <2>3. (\A m \in settled : runAt[m] = "ended")'
    BY <1>1, <1>2, <2>0 DEF RepairsAreSound, StartInv
  <2> QED
    BY <2>1, <2>2, <2>3 DEF RepairsAreSound
<1>7. ColumnsAreSound'
  BY <1>1 DEF ColumnsAreSound, StartInv
<1> QED
  BY <1>1, <1>3, <1>4, <1>5, <1>6, <1>7 DEF StartInv, StartTypes

\* A step that moves the place of an opener alone.
LEMMA PlaceTurn ==
    ASSUME StartInv, NEW p \in Openers, NEW x \in Opener,
           opener' = [opener EXCEPT ![p] = x],
           UNCHANGED <<history, runAt, recordedEnds, columns, settled>>,
           claimed => claimed', claimed' \in BOOLEAN, cutOff => cutOff', cutOff' \in BOOLEAN,
           claimed' => \A m, n \in Active : m = n,
           OpenerIsSound(p)',
           \A n \in OldRuns : Unrecorded(p, n) => Unrecorded(p, n)' \/ cutOff',
           opener[p].left = <<"git_diff">> => x.left = <<"git_diff">> \/ cutOff'
    PROVE  StartInv'
<1>1. StartMoves
  BY DEF StartMoves
<1>2. StartTypes'
  BY DEF StartTypes, StartInv
<1>3. (claimed => \A m, n \in Active : m = n)'
  BY DEF Active
<1>4. \A n \in settled : runAt'[n] = "ended"
  BY DEF StartInv, RepairsAreSound
<1> QED
  BY <1>1, <1>2, <1>3, <1>4, OpenerTurn

LEMMA UpgradesAre ==
    /\ Upgrades[1].check = "tenant_id" /\ Upgrades[1].adds = <<"tenant_id", "git_diff">>
    /\ Upgrades[2].check = "trace" /\ Upgrades[2].adds = <<"trace">>
    /\ Len(Upgrades) = 2
BY DEF Upgrades

LEMMA LeftsAre ==
    /\ <<"tenant_id", "git_diff">> # <<>> /\ <<"git_diff">> # <<>> /\ <<"trace">> # <<>>
    /\ <<"git_diff">> # <<"trace">> /\ <<"tenant_id", "git_diff">> # <<"git_diff">>
    /\ <<"tenant_id", "git_diff">> # <<"trace">>
    /\ Head(<<"tenant_id", "git_diff">>) = "tenant_id"
    /\ Tail(<<"tenant_id", "git_diff">>) = <<"git_diff">>
    /\ Head(<<"git_diff">>) = "git_diff" /\ Tail(<<"git_diff">>) = <<>>
    /\ Head(<<"trace">>) = "trace" /\ Tail(<<"trace">>) = <<>>
<1>1. Len(<<"tenant_id", "git_diff">>) = 2 /\ Len(<<"git_diff">>) = 1 /\ Len(<<"trace">>) = 1
  OBVIOUS
<1>2. <<"git_diff">> # <<"trace">>
  <2>1. <<"git_diff">>[1] # <<"trace">>[1]
    OBVIOUS
  <2> QED
    BY <2>1
<1>3. /\ Head(<<"tenant_id", "git_diff">>) = "tenant_id"
      /\ Head(<<"git_diff">>) = "git_diff" /\ Head(<<"trace">>) = "trace"
  OBVIOUS
<1>4. Tail(<<"tenant_id", "git_diff">>) = <<"git_diff">>
  OBVIOUS
<1>5. Tail(<<"git_diff">>) = <<>> /\ Tail(<<"trace">>) = <<>>
  OBVIOUS
<1> QED
  BY <1>1, <1>2, <1>3, <1>4, <1>5

LEMMA OpeningStep ==
    ASSUME StartInv, NEW p \in Openers,
           \/ OpenStore(p) \/ SelectLosers(p) \/ CreateClaim(p) \/ CheckColumns(p)
           \/ Opened(p) \/ FailToOpen(p) \/ Restart(p)
    PROVE  StartInv'
<1> DEFINE y == opener[p]
<1>1. /\ y \in Opener /\ OpenerIsSound(p) /\ opener \in [Openers -> Opener]
      /\ claimed \in BOOLEAN /\ cutOff \in BOOLEAN /\ RepairsAreSound
      /\ claimed => \A m, n \in Active : m = n
  BY DEF StartInv
<1>2. Closed \in Opener /\ Closed.at = "closed" /\ Closed.todo = {}
      /\ Closed.half = FALSE /\ Closed.left = <<>> /\ Closed.group = 1
  BY DEF Closed, Opener
<1>3. ASSUME NEW at \in {"closed", "select", "stuck"},
             opener' = [opener EXCEPT ![p] = [Closed EXCEPT !.at = at]],
             UNCHANGED <<history, runAt, recordedEnds, columns, settled, claimed>>,
             cutOff' = (cutOff \/ y.half \/ y.left # <<>>)
      PROVE  StartInv'
  <2>1. PICK x \in Opener : x = [Closed EXCEPT !.at = at]
    BY <1>2 DEF Opener
  <2>2. x.at = at /\ x.todo = {} /\ x.half = FALSE /\ x.left = <<>> /\ x.group = 1
    BY <1>2, <2>1 DEF Opener
  <2>3. opener' = [opener EXCEPT ![p] = x] /\ opener'[p] = x
    BY <1>1, <1>3, <2>1
  <2>4. OpenerIsSound(p)'
    BY <2>2, <2>3, LeftsAre DEF OpenerIsSound, Unrecorded
  <2>5. \A n \in OldRuns : Unrecorded(p, n) => cutOff'
    BY <1>3 DEF Unrecorded
  <2>6. cutOff' \in BOOLEAN /\ (cutOff => cutOff')
        /\ (y.left = <<"git_diff">> => cutOff')
    BY <1>3, LeftsAre
  <2> QED
    BY <1>1, <1>3, <2>3, <2>4, <2>5, <2>6, PlaceTurn
<1>4. CASE OpenStore(p)
  <2>1. y.at = "closed" /\ y.half = FALSE /\ y.left = <<>>
    BY <1>1, <1>4 DEF OpenStore, OpenerIsSound, Opener
  <2> QED
    BY <1>1, <1>3, <1>4, <2>1 DEF OpenStore
<1>5. CASE SelectLosers(p)
  <2>1. PICK at \in {"index", "repair"} : at = IF Losers = {} THEN "index" ELSE "repair"
    OBVIOUS
  <2>2. Losers \in SUBSET OldRuns /\ \A n \in Losers : /\ runAt[n] = "active"
                  /\ \E m \in OldRuns : m > n /\ runAt[m] # "none"
    BY DEF Losers, Active
  <2>3. PICK x \in Opener : x = [y EXCEPT !.at = at, !.todo = Losers]
    BY <1>1, <2>2 DEF Opener
  <2>4. /\ x.at = at /\ x.todo = Losers /\ x.half = y.half /\ x.left = y.left
        /\ x.group = y.group
    BY <1>1, <2>2, <2>3 DEF Opener
  <2>5. opener' = [opener EXCEPT ![p] = x] /\ opener'[p] = x
    BY <1>1, <1>5, <2>1, <2>3 DEF SelectLosers
  <2>6. y.at = "select" /\ y.half = FALSE /\ y.left = <<>> /\ y.group = 1
        /\ UNCHANGED <<history, runAt, recordedEnds, claimed, columns, openings, cutOff, settled>>
    BY <1>1, <1>5 DEF SelectLosers, OpenerIsSound, Opener
  <2>7. Losers \cap settled = {}
    BY <1>1, <2>2 DEF RepairsAreSound
  <2>8. OpenerIsSound(p)'
    <3>1. \A n \in x.todo : \E m \in OldRuns : m > n /\ runAt'[m] # "none"
      BY <2>2, <2>4, <2>6
    <3>2. x.at = "repair" <=> x.todo # {}
      BY <2>1, <2>4
    <3>3. x.at \in {"index", "repair"} /\ x.half = FALSE /\ x.left = <<>> /\ x.group = 1
          /\ x.todo \cap settled' = {}
      BY <2>1, <2>4, <2>6, <2>7
    <3> QED
      BY <2>5, <3>1, <3>2, <3>3, LeftsAre DEF OpenerIsSound, Unrecorded
  <2>9. \A n \in OldRuns : ~Unrecorded(p, n)
    BY <2>6 DEF Unrecorded
  <2> QED
    BY <1>1, <2>5, <2>6, <2>8, <2>9, LeftsAre, PlaceTurn
<1>6. CASE CreateClaim(p)
  <2>1. PICK at \in {"upgrade", "open"} : at = IF history = "sqlite" THEN "upgrade" ELSE "open"
    OBVIOUS
  <2>2. PICK x \in Opener : x = [y EXCEPT !.at = at]
    BY <1>1 DEF Opener
  <2>3. /\ x.at = at /\ x.todo = y.todo /\ x.half = y.half /\ x.left = y.left
        /\ x.group = y.group
    BY <1>1, <2>2 DEF Opener
  <2>4. opener' = [opener EXCEPT ![p] = x] /\ opener'[p] = x
    BY <1>1, <1>6, <2>1, <2>2 DEF CreateClaim
  <2>5. y.at = "index" /\ y.todo = {} /\ y.half = FALSE /\ y.left = <<>> /\ claimed' = TRUE
        /\ UNCHANGED <<history, runAt, recordedEnds, columns, openings, cutOff, settled>>
    BY <1>1, <1>6 DEF CreateClaim, OpenerIsSound, Opener
  <2>6. history = "sqlite" \/ history = "postgres"
    BY DEF StartInv
  <2>7. \A m, n \in Active : m = n
    <3>1. Active \in SUBSET OldRuns
      BY DEF Active
    <3>2. claimed \/ Cardinality(Active) <= 1
      BY <1>6 DEF CreateClaim
    <3> QED
      BY <1>1, <3>1, <3>2, AtMostOne
  <2>8. y.group = 1
    BY <1>1, <2>5 DEF OpenerIsSound
  <2>9. OpenerIsSound(p)'
    BY <2>1, <2>3, <2>4, <2>5, <2>6, <2>8, LeftsAre DEF OpenerIsSound, Unrecorded
  <2>10. \A n \in OldRuns : ~Unrecorded(p, n)
    BY <2>5 DEF Unrecorded
  <2> QED
    BY <1>1, <2>4, <2>5, <2>7, <2>9, <2>10, LeftsAre, PlaceTurn
<1>7. CASE CheckColumns(p)
  <2>1. /\ y.at = "upgrade" /\ y.left = <<>> /\ y.group \in {1, 2}
        /\ y.todo = {} /\ y.half = FALSE /\ claimed
        /\ UNCHANGED <<history, runAt, recordedEnds, claimed, columns, openings, cutOff,
                       settled>>
    BY <1>1, <1>7, UpgradesAre DEF CheckColumns, OpenerIsSound, Opener
  <2>2. PICK left \in {<<>>, <<"tenant_id", "git_diff">>, <<"trace">>} :
          left = IF Upgrades[y.group].check \in columns THEN <<>> ELSE Upgrades[y.group].adds
    BY <2>1, UpgradesAre
  <2>3. PICK group \in {2, 3} : group = y.group + 1
    BY <2>1
  <2>4. PICK x \in Opener : x = [y EXCEPT !.group = group, !.left = left]
    <3>1. /\ group \in 1..3
          /\ left \in {<<>>, <<"tenant_id", "git_diff">>, <<"git_diff">>, <<"trace">>}
      OBVIOUS
    <3>2. [y EXCEPT !.group = group, !.left = left] \in Opener
      BY <1>1, <3>1 DEF Opener
    <3> QED
      BY <3>2
  <2>5. /\ x.at = "upgrade" /\ x.todo = {} /\ x.half = FALSE /\ x.left = left
        /\ x.group = group
    BY <1>1, <2>1, <2>4 DEF Opener
  <2>6. opener' = [opener EXCEPT ![p] = x] /\ opener'[p] = x
    <3>1. opener' = [opener EXCEPT ![p].group = @ + 1, ![p].left = left]
      BY <1>7, <2>2 DEF CheckColumns
    <3>2. opener' = [opener EXCEPT ![p] = [y EXCEPT !.group = group, !.left = left]]
      BY <1>1, <2>3, <3>1 DEF Opener
    <3> QED
      BY <1>1, <2>4, <3>2
  <2>7. /\ group = 2 => "tenant_id" \in columns \/ left = <<"tenant_id", "git_diff">>
        /\ group = 3 => "trace" \in columns \/ left = <<"trace">>
        /\ group = 3 /\ history = "sqlite" => "tenant_id" \in columns
        /\ left = <<"tenant_id", "git_diff">> => group = 2
    <3>1. CASE y.group = 1
      BY <2>2, <2>3, <3>1, UpgradesAre, LeftsAre
    <3>2. CASE y.group = 2
      <4>1. left = IF "trace" \in columns THEN <<>> ELSE <<"trace">>
        BY <2>2, <3>2, UpgradesAre
      <4>2. history = "sqlite" => "tenant_id" \in columns
        BY <1>1, <2>1, <3>2, LeftsAre DEF OpenerIsSound
      <4> QED
        BY <2>3, <3>2, <4>1, <4>2, LeftsAre
    <3> QED
      BY <2>1, <3>1, <3>2
  <2>8. history # "postgres"
    BY <1>1, <2>1 DEF OpenerIsSound
  <2>9. OpenerIsSound(p)'
    BY <2>1, <2>5, <2>6, <2>7, <2>8, LeftsAre DEF OpenerIsSound, Unrecorded
  <2>10. \A n \in OldRuns : ~Unrecorded(p, n)
    BY <2>1 DEF Unrecorded
  <2> QED
    BY <1>1, <2>1, <2>6, <2>9, <2>10, LeftsAre, PlaceTurn
<1>8. CASE Opened(p)
  <2>1. /\ y.at = "upgrade" /\ y.left = <<>> /\ y.group = 3
        /\ y.todo = {} /\ y.half = FALSE /\ claimed
        /\ UNCHANGED <<history, runAt, recordedEnds, claimed, columns, openings, cutOff,
                       settled>>
    BY <1>1, <1>8, UpgradesAre DEF Opened, OpenerIsSound, Opener
  <2>2. PICK x \in Opener : x = [y EXCEPT !.at = "open"]
    BY <1>1 DEF Opener
  <2>3. x.at = "open" /\ x.todo = {} /\ x.half = FALSE /\ x.left = <<>> /\ x.group = 3
    BY <1>1, <2>1, <2>2 DEF Opener
  <2>4. opener' = [opener EXCEPT ![p] = x] /\ opener'[p] = x
    BY <1>1, <1>8, <2>2 DEF Opened
  <2>5. history = "sqlite" => "tenant_id" \in columns /\ "trace" \in columns
    BY <1>1, <2>1, LeftsAre DEF OpenerIsSound
  <2>6. OpenerIsSound(p)'
    BY <2>1, <2>3, <2>4, <2>5, LeftsAre DEF OpenerIsSound, Unrecorded
  <2>7. \A n \in OldRuns : ~Unrecorded(p, n)
    BY <2>1 DEF Unrecorded
  <2> QED
    BY <1>1, <2>1, <2>4, <2>6, <2>7, LeftsAre, PlaceTurn
<1>9. CASE FailToOpen(p)
  <2>1. PICK at \in {"closed", "stuck"} :
            opener' = [opener EXCEPT ![p] = [Closed EXCEPT !.at = at]]
    BY <1>9 DEF FailToOpen
  <2> QED
    BY <1>3, <1>9, <2>1 DEF FailToOpen
<1>10. CASE Restart(p)
  <2>1. y.half = FALSE /\ y.left = <<>>
    BY <1>1, <1>10 DEF Restart, OpenerIsSound, Opener
  <2>2. opener' = [opener EXCEPT ![p] = [Closed EXCEPT !.at = "closed"]]
    BY <1>2, <1>10 DEF Restart, Opener
  <2> QED
    BY <1>1, <1>3, <1>10, <2>1, <2>2 DEF Restart
<1> QED
  BY <1>4, <1>5, <1>6, <1>7, <1>8, <1>9, <1>10

LEMMA RepairStep ==
    ASSUME StartInv, NEW p \in Openers, UpdateLosers(p) \/ RecordLoser(p)
    PROVE  StartInv'
<1> DEFINE y == opener[p]
<1>1. /\ y \in Opener /\ OpenerIsSound(p) /\ opener \in [Openers -> Opener]
      /\ y.at = "repair" /\ y.todo # {} /\ y.todo \subseteq OldRuns /\ y.left = <<>>
      /\ y.group = 1 /\ y.todo \cap settled = {}
      /\ \A n \in y.todo : \E m \in OldRuns : m > n /\ runAt[m] # "none"
      /\ RepairsAreSound
  BY DEF StartInv, UpdateLosers, RecordLoser, OpenerIsSound, Opener
<1>2. Max(y.todo) \in y.todo
  BY <1>1, GreatestIsMember
<1>3. PICK l \in y.todo : l = Max(y.todo)
  BY <1>2
<1>4. history = "sqlite" \/ history = "postgres"
  BY DEF StartInv
<1>5. CASE UpdateLosers(p)
  <2>1. PICK ls \in SUBSET y.todo : ls = IF history = "postgres" THEN y.todo ELSE {l}
    BY <1>3
  <2>2. runAt' = [n \in OldRuns |-> IF n \in ls THEN "repaired" ELSE runAt[n]]
    BY <1>3, <1>5, <2>1 DEF UpdateLosers
  <2>3. UNCHANGED <<history, recordedEnds, claimed, columns, openings, cutOff, settled>>
        /\ y.half = FALSE
    BY <1>1, <1>5 DEF UpdateLosers, Opener
  <2>4. PICK x \in Opener : x = [y EXCEPT !.half = TRUE]
    BY <1>1 DEF Opener
  <2>5. /\ x.at = "repair" /\ x.todo = y.todo /\ x.half = TRUE /\ x.left = <<>>
        /\ x.group = 1
    BY <1>1, <2>4 DEF Opener
  <2>6. opener' = [opener EXCEPT ![p] = x] /\ opener'[p] = x
    BY <1>1, <1>5, <2>4 DEF UpdateLosers
  <2>7. /\ runAt' \in [OldRuns -> {"none", "active", "ended", "repaired"}]
        /\ \A n \in OldRuns : /\ runAt[n] # "none" => runAt'[n] # "none"
                              /\ runAt[n] = "repaired" => runAt'[n] = "repaired"
                              /\ n \in settled => runAt'[n] = runAt[n]
                              /\ runAt'[n] = "active" => runAt[n] = "active"
                              /\ runAt'[n] = "repaired" => n \in ls \/ runAt[n] = "repaired"
                              /\ n \in ls => runAt'[n] = "repaired"
    BY <1>1, <2>2 DEF StartInv
  <2>8. StartMoves /\ StartTypes'
    BY <2>3, <2>7 DEF StartMoves, StartTypes, StartInv
  <2>9. \A n \in OldRuns : Unrecorded(p, n)' <=> n \in ls
    BY <1>3, <1>4, <2>1, <2>3, <2>5, <2>6 DEF Unrecorded
  <2>10. OpenerIsSound(p)'
    <3>1. \A n \in OldRuns : Unrecorded(p, n)' => runAt'[n] = "repaired"
      BY <2>7, <2>9
    <3>2. \A n \in y.todo : \E m \in OldRuns : m > n /\ runAt'[m] # "none"
      BY <1>1, <2>7
    <3> QED
      BY <1>1, <2>3, <2>5, <2>6, <3>1, <3>2, LeftsAre DEF OpenerIsSound
  <2>11. (claimed => \A m, n \in Active : m = n)'
    BY <2>3, <2>7 DEF Active, StartInv
  <2>12. \A n \in OldRuns : runAt'[n] = "repaired" =>
            \/ runAt[n] = "repaired"
            \/ Unrecorded(p, n)' /\ \E m \in OldRuns : m > n /\ runAt[m] # "none"
    BY <1>1, <2>7, <2>9
  <2>13. \A n \in OldRuns : ~Unrecorded(p, n)
    BY <2>3 DEF Unrecorded
  <2>14. \A n \in settled : runAt'[n] = "ended"
    BY <1>1, <2>7 DEF RepairsAreSound, StartInv
  <2> QED
    BY <1>1, <2>3, <2>6, <2>8, <2>10, <2>11, <2>12, <2>13, <2>14, LeftsAre, OpenerTurn
<1>6. CASE RecordLoser(p)
  <2>1. PICK rest \in SUBSET y.todo : rest = y.todo \ {l}
    OBVIOUS
  <2>2. PICK at \in {"index", "repair"} : at = IF rest = {} THEN "index" ELSE "repair"
    OBVIOUS
  <2>3. PICK half \in BOOLEAN : half <=> history = "postgres" /\ rest # {}
    OBVIOUS
  <2>4. PICK x \in Opener : x = [y EXCEPT !.todo = rest, !.half = half, !.at = at]
    BY <1>1 DEF Opener
  <2>5. /\ x.at = at /\ x.todo = rest /\ x.left = <<>> /\ x.group = 1
    BY <1>1, <2>1, <2>4 DEF Opener
  <2>6. x.half <=> half
    BY <1>1, <2>4 DEF Opener
  <2>7. /\ recordedEnds' = recordedEnds \cup {l}
        /\ UNCHANGED <<history, runAt, claimed, columns, openings, cutOff, settled>>
        /\ y.half
    BY <1>3, <1>6 DEF RecordLoser
  <2>8. opener' = [opener EXCEPT ![p] = x] /\ opener'[p] = x
    <3>1. opener' = [opener EXCEPT
                ![p].todo = rest,
                ![p].half = history = "postgres" /\ rest # {},
                ![p].at = at]
      BY <1>3, <1>6, <2>1, <2>2 DEF RecordLoser
    <3>2. opener' = [opener EXCEPT ![p] =
                [y EXCEPT !.todo = rest, !.half = half, !.at = at]]
      BY <1>1, <2>3, <3>1 DEF Opener
    <3> QED
      BY <1>1, <2>4, <3>2
  <2>9. Unrecorded(p, l) /\ runAt[l] = "repaired"
    BY <1>1, <1>3, <2>7 DEF Unrecorded, OpenerIsSound
  <2>10. ASSUME NEW n \in OldRuns, Unrecorded(p, n)
         PROVE  Unrecorded(p, n)' \/ n = l
    <3>1. n \in y.todo /\ (history = "sqlite" => n = l)
      BY <1>3, <2>10 DEF Unrecorded
    <3> QED
      BY <1>4, <2>1, <2>3, <2>5, <2>6, <2>7, <2>8, <3>1 DEF Unrecorded
  <2>11. ASSUME NEW n \in OldRuns, Unrecorded(p, n)'
         PROVE  Unrecorded(p, n)
    <3>1. history = "postgres" /\ n \in rest
      BY <2>3, <2>5, <2>6, <2>8, <2>11 DEF Unrecorded
    <3> QED
      BY <2>1, <2>7, <3>1 DEF Unrecorded
  <2>12. OpenerIsSound(p)'
    <3>1. \A n \in OldRuns : Unrecorded(p, n)' => runAt'[n] = "repaired"
      BY <1>1, <2>7, <2>11 DEF OpenerIsSound
    <3>2. \A n \in rest : \E m \in OldRuns : m > n /\ runAt'[m] # "none"
      BY <1>1, <2>1, <2>7
    <3>3. /\ x.at = "repair" <=> x.todo # {}
          /\ x.half => x.at = "repair"
      BY <2>2, <2>3, <2>5, <2>6
    <3> QED
      BY <1>1, <2>1, <2>2, <2>5, <2>7, <2>8, <3>1, <3>2, <3>3, LeftsAre DEF OpenerIsSound
  <2>13. StartMoves /\ StartTypes'
    BY <1>1, <2>7 DEF StartMoves, StartTypes, StartInv
  <2>14. (claimed => \A m, n \in Active : m = n)'
    BY <2>7 DEF Active, StartInv
  <2>15. \A n \in settled : runAt'[n] = "ended"
    BY <1>1, <2>7 DEF RepairsAreSound
  <2>16. \A n \in recordedEnds' : n \in recordedEnds \/ runAt'[n] = "repaired"
    BY <2>7, <2>9
  <2>17. \A n \in OldRuns : Unrecorded(p, n) =>
             Unrecorded(p, n)' \/ n \in recordedEnds' \/ cutOff'
    BY <2>7, <2>10
  <2>18. settled' = settled /\ columns' = columns /\ y.left # <<"git_diff">>
         /\ \A n \in OldRuns : runAt'[n] = "repaired" => runAt[n] = "repaired"
    BY <1>1, <2>7, LeftsAre
  <2> QED
    BY <2>8, <2>12, <2>13, <2>14, <2>15, <2>16, <2>17, <2>18, OpenerTurn
<1> QED
  BY <1>5, <1>6

LEMMA AddColumnStep ==
    ASSUME StartInv, NEW p \in Openers, AddColumn(p)
    PROVE  StartInv'
<1> DEFINE y == opener[p]
<1>1. /\ y \in Opener /\ OpenerIsSound(p) /\ opener \in [Openers -> Opener]
      /\ y.at = "upgrade" /\ y.left # <<>> /\ y.half = FALSE /\ y.todo = {}
      /\ claimed /\ history # "postgres" /\ RepairsAreSound
  BY DEF StartInv, AddColumn, OpenerIsSound, Opener
<1>2. /\ UNCHANGED <<history, runAt, recordedEnds, claimed, openings, cutOff, settled>>
      /\ columns' = columns \cup {Head(y.left)}
  BY DEF AddColumn
<1>3. PICK left \in {<<>>, <<"git_diff">>} : left = Tail(y.left)
  BY <1>1, LeftsAre DEF Opener
<1>4. PICK x \in Opener : x = [y EXCEPT !.left = left]
  BY <1>1 DEF Opener
<1>5. x.at = "upgrade" /\ x.todo = {} /\ x.half = FALSE /\ x.left = left /\ x.group = y.group
  BY <1>1, <1>4 DEF Opener
<1>6. opener' = [opener EXCEPT ![p] = x] /\ opener'[p] = x
  <2>1. opener' = [opener EXCEPT ![p].left = left]
    BY <1>3 DEF AddColumn
  <2>2. opener' = [opener EXCEPT ![p] = [y EXCEPT !.left = left]]
    BY <1>1, <2>1 DEF Opener
  <2> QED
    BY <1>1, <1>4, <2>2
<1>7. \/ /\ y.left = <<"tenant_id", "git_diff">> /\ left = <<"git_diff">>
         /\ columns' = columns \cup {"tenant_id"}
      \/ /\ y.left = <<"git_diff">> /\ left = <<>>
         /\ columns' = columns \cup {"git_diff"}
      \/ /\ y.left = <<"trace">> /\ left = <<>>
         /\ columns' = columns \cup {"trace"}
  <2>1. y.left \in {<<"tenant_id", "git_diff">>, <<"git_diff">>, <<"trace">>}
    BY <1>1 DEF Opener
  <2>2. CASE y.left = <<"tenant_id", "git_diff">>
    BY <1>2, <1>3, <2>2, LeftsAre
  <2>3. CASE y.left = <<"git_diff">>
    BY <1>2, <1>3, <2>3, LeftsAre
  <2>4. CASE y.left = <<"trace">>
    BY <1>2, <1>3, <2>4, LeftsAre
  <2> QED
    BY <2>1, <2>2, <2>3, <2>4
<1>8. OpenerIsSound(p)'
  <2>1. /\ y.group > 1 => "tenant_id" \in columns'
        /\ y.group > 2 => "trace" \in columns'
    <3>1. history = "sqlite"
      BY <1>1 DEF StartInv
    <3>2. /\ y.group > 1 =>
               "tenant_id" \in columns \/ y.left = <<"tenant_id", "git_diff">>
          /\ y.group > 2 => "trace" \in columns \/ y.left = <<"trace">>
      BY <1>1, <3>1 DEF OpenerIsSound
    <3>3. "tenant_id" \in columns \/ y.left = <<"tenant_id", "git_diff">>
              => "tenant_id" \in columns'
      BY <1>7, LeftsAre
    <3>4. "trace" \in columns \/ y.left = <<"trace">> => "trace" \in columns'
      BY <1>7, LeftsAre
    <3> QED
      BY <3>2, <3>3, <3>4
  <2>2. left # <<"tenant_id", "git_diff">>
    BY LeftsAre
  <2> QED
    BY <1>1, <1>2, <1>5, <1>6, <2>1, <2>2 DEF OpenerIsSound, Unrecorded
<1>9. StartMoves /\ StartTypes'
  <2>1. columns' \subseteq Columns
    BY <1>7 DEF StartInv, Columns
  <2> QED
    BY <1>2, <2>1 DEF StartMoves, StartTypes, StartInv
<1>10. (claimed => \A m, n \in Active : m = n)'
  BY <1>2 DEF Active, StartInv
<1>11. /\ \A n \in settled : runAt'[n] = "ended"
       /\ \A n \in recordedEnds' : n \in recordedEnds
       /\ \A n \in OldRuns : runAt'[n] = "repaired" => runAt[n] = "repaired"
       /\ \A n \in OldRuns : ~Unrecorded(p, n)
  BY <1>1, <1>2 DEF RepairsAreSound, Unrecorded
<1>12. /\ "tenant_id" \in columns' => "tenant_id" \in columns \/ x.left = <<"git_diff">>
       /\ y.left = <<"git_diff">> => "git_diff" \in columns'
  BY <1>5, <1>7, LeftsAre
<1> QED
  BY <1>2, <1>6, <1>8, <1>9, <1>10, <1>11, <1>12, OpenerTurn

LEMMA StartStep ==
    ASSUME StartInv, StartNext
    PROVE  StartInv'
BY OpeningStep, RepairStep, AddColumnStep, RunsStep DEF StartNext

LEMMA StartIsGood ==
    ASSUME StartInv
    PROVE  StoreOpensWhole
<1>1. RepairKeepsTheNewest
  BY DEF StartInv, RepairsAreSound, RepairKeepsTheNewest, Unrecorded
<1>2. EndedRunsStay
  BY DEF StartInv, RepairsAreSound, EndedRunsStay
<1>3. ASSUME NEW p \in Openers, opener[p].at = "open"
      PROVE  /\ claimed /\ Cardinality(Active) <= 1
             /\ columns = Columns \/ cutOff \/ \E q \in Openers : opener[q].left # <<>>
  <2>1. OpenerIsSound(p) /\ claimed /\ opener[p] \in Opener
    BY <1>3 DEF StartInv, OpenerIsSound
  <2>2. Cardinality(Active) <= 1
    <3>1. Active \in SUBSET OldRuns /\ \A m, n \in Active : m = n
      BY <2>1 DEF StartInv, Active
    <3> QED
      BY <3>1, AtMostOne
  <2>3. history = "sqlite" => "tenant_id" \in columns /\ "trace" \in columns
    BY <1>3, <2>1, LeftsAre DEF OpenerIsSound
  <2>4. columns = Columns \/ cutOff \/ \E q \in Openers : opener[q].left # <<>>
    BY <2>3, LeftsAre DEF StartInv, ColumnsAreSound, Columns
  <2> QED
    BY <2>1, <2>2, <2>4
<1>4. OpenStoreIsWhole
  BY <1>3 DEF OpenStoreIsWhole
<1> QED
  BY <1>1, <1>2, <1>4 DEF StoreOpensWhole

-----------------------------------------------------------------------------
(* The self-improvement loop                                               *)

CycleRecord ==
    [at : {"idle", "propose", "gate", "measure", "stage", "apply", "persist", "trial",
           "restore", "record", "mark", "done"},
     since : 0..MaxNow, verdict : {"none", "accept", "reject"},
     handle : [version : Nat, previous : Value, next : Value],
     before : Measurement \cup {Garbled}, after : Measurement \cup {Garbled}]
ImproveEntry == [version : Nat, verdict : {"accept", "reject"},
                 after : Measurement \cup {Garbled}]

\* The type invariant, but for the bound on the versions, which is a count.
LoopTypes ==
    /\ enabled \in BOOLEAN /\ quality \in Qualities
    /\ surface \in Surfaces
    /\ live \in Value /\ stored \in Value
    /\ version \in Nat
    /\ cycle \in [Cycles -> CycleRecord]
    /\ entries \in Seq(ImproveEntry)
    /\ now \in 1..MaxNow /\ watermark \in 0..MaxNow
    /\ accepted \subseteq Cycles
    /\ started \in [1..MaxNow -> SUBSET Cycles]
    /\ overlapped \in BOOLEAN /\ escaped \in BOOLEAN

\* Whose version is staged and not recorded; whose value may still be applied or
\* undone; whose value was applied and was not undone.
Holds(c) == cycle[c].at \in {"apply", "persist", "trial", "restore", "record"}
InHand(c) == cycle[c].at \in {"apply", "persist", "trial", "restore"}
InForce(c) == \/ cycle[c].at \in {"trial", "restore"}
              \/ cycle[c].at = "record" /\ cycle[c].verdict = "accept"

\* The versions recorded as accepted, and those that may come to be.
AcceptedVersions ==
    {entries[i].version : i \in {j \in DOMAIN entries : entries[j].verdict = "accept"}}
Standing == AcceptedVersions \cup {cycle[d].handle.version : d \in {c \in Cycles : InForce(c)}}

\* Where only the version that is current can act.
Guarded == surface = "bound" \/ ~overlapped

\* A handle has a version of its own, with the value before it and the value
\* staged; what it would go back to is no older than what must stand by then.
VersionIsSound(c) ==
    Holds(c) =>
        /\ cycle[c].handle.version <= version
        /\ cycle[c].handle.next.by = cycle[c].handle.version
        /\ cycle[c].handle.previous.by < cycle[c].handle.version
        /\ cycle[c].handle.version \notin AcceptedVersions
        /\ ~overlapped => IsCurrent(c)
        /\ Guarded /\ InHand(c) =>
               \A v \in Standing : v < cycle[c].handle.version
                                       => v <= cycle[c].handle.previous.by

OneRuns == \A c, d \in Cycles : Running(c) /\ Running(d) => c = d

VersionsInv ==
    /\ live.by <= version
    /\ \A v \in Standing : v <= version
    /\ Guarded => \A v \in Standing : v <= live.by
    /\ \A c \in Cycles : VersionIsSound(c)
    /\ \A c, d \in Cycles : Holds(c) /\ Holds(d) /\ c # d
           => cycle[c].handle.version # cycle[d].handle.version
    /\ \A c \in Cycles : cycle[c].at = "persist" => surface = "skills"
    /\ ~overlapped => OneRuns

-----------------------------------------------------------------------------
(* What is measured                                                        *)

\* A rounded mean is a number.
LEMMA RoundIsNat ==
    ASSUME NEW total \in Nat, NEW n \in Nat, n > 0
    PROVE  Round2(total, n) \in Nat
<1>1. 200 * total + n \in Nat /\ 2 * n \in Nat /\ 2 * n > 0
  OBVIOUS
<1>2. \A a, b \in Nat : b > 0 => a \div b \in Nat
  OBVIOUS
<1> QED
  BY <1>1, <1>2 DEF Round2

LEMMA MeasureIs ==
    ASSUME LoopTypes, NEW v \in Value
    PROVE  MeasureOf(v) \in Measurement /\ MeasureOf(v) # Garbled
<1>1. PICK b \in Totals : b = quality[v.has] /\ b.cases > 0
  BY ImproveAssumption DEF LoopTypes, Value, ValidBenchmark
<1>2. Round2(b.passed, b.cases) \in Nat /\ Round2(b.iterations, b.cases) \in Nat
  BY <1>1, RoundIsNat DEF Totals
<1>3. MeanOfMeasured(b.cost, b.costed) \in Nat \cup {Skipped}
  BY <1>1, RoundIsNat DEF Totals, MeanOfMeasured
<1>4. MeasureOf(v) = [objective |-> Round2(b.passed, b.cases),
                      iterations |-> Round2(b.iterations, b.cases),
                      costUsd |-> MeanOfMeasured(b.cost, b.costed)]
  BY <1>1 DEF MeasureOf, MeasureBenchmark
<1> QED
  BY <1>2, <1>3, <1>4, ImproveAssumption DEF Measurement, Garbled

LEMMA IdleIs ==
    /\ FirstValue \in Value
    /\ IdleCycle \in CycleRecord
    /\ [IdleCycle EXCEPT !.at = "done"] \in CycleRecord
    /\ Garbled \in Measurement \cup {Garbled}
<1>1. FirstValue \in Value
  BY DEF FirstValue, Value
<1> QED
  BY <1>1, ImproveAssumption DEF IdleCycle, CycleRecord, NoHandle, Never, Measurement

-----------------------------------------------------------------------------
(* What a step makes of the cycle it moves                                 *)

\* The cycle c becomes y; the others stay.
Becomes(c, y) == /\ cycle' \in [Cycles -> CycleRecord]
                 /\ cycle'[c] = y
                 /\ \A d \in Cycles : d # c => cycle'[d] = cycle[d]

Places == {"idle", "propose", "gate", "measure", "stage", "apply", "persist", "trial",
           "restore", "record", "mark", "done"}
Thrown == [IdleCycle EXCEPT !.at = "done"]

LEMMA CycleTurn ==
    ASSUME LoopTypes, NEW c \in Cycles, NEW y \in CycleRecord,
           cycle' = [cycle EXCEPT ![c] = y]
    PROVE  Becomes(c, y)
BY DEF LoopTypes, Becomes

LEMMA MoveIs ==
    ASSUME LoopTypes, NEW c \in Cycles, NEW to \in Places, MoveCycle(c, to)
    PROVE  Becomes(c, [cycle[c] EXCEPT !.at = to])
<1>1. cycle[c] \in CycleRecord
  BY DEF LoopTypes
<1>2. [cycle[c] EXCEPT !.at = to] \in CycleRecord
  BY <1>1 DEF CycleRecord, Places
<1>3. cycle' = [cycle EXCEPT ![c] = [cycle[c] EXCEPT !.at = to]]
  BY DEF MoveCycle
<1> QED
  BY <1>2, <1>3, CycleTurn

LEMMA ThrowIs ==
    ASSUME LoopTypes, NEW c \in Cycles, Abandon(c)
    PROVE  Becomes(c, Thrown) /\ escaped' = TRUE
BY CycleTurn, IdleIs DEF Abandon, Thrown

LEMMA FireIs ==
    ASSUME LoopTypes, NEW c \in Cycles, NEW readable \in BOOLEAN, Fire(c, readable)
    PROVE  Becomes(c, [cycle[c] EXCEPT !.at = "propose", !.since = now])
<1>1. [cycle[c] EXCEPT !.at = "propose", !.since = now] \in CycleRecord
  <2>1. cycle[c] \in CycleRecord /\ now \in 0..MaxNow
    BY DEF LoopTypes
  <2> QED
    BY <2>1 DEF CycleRecord
<1>2. cycle' = [cycle EXCEPT ![c] = [cycle[c] EXCEPT !.at = "propose", !.since = now]]
  BY DEF Fire, LoopTypes
<1> QED
  BY <1>1, <1>2, CycleTurn

LEMMA MarkIs ==
    ASSUME LoopTypes, NEW c \in Cycles, Mark(c)
    PROVE  /\ Becomes(c, Thrown)
           /\ \/ watermark' = cycle[c].since /\ UNCHANGED escaped
              \/ escaped' = TRUE /\ UNCHANGED watermark
BY CycleTurn, ThrowIs, IdleIs DEF Mark, Thrown

LEMMA ProposeIs ==
    ASSUME LoopTypes, NEW c \in Cycles, NEW h \in TaskHistories, NEW tripped \in BOOLEAN,
           Propose(c, h, tripped)
    PROVE  \/ \E to \in {"gate", "measure"} :
                Becomes(c, [cycle[c] EXCEPT !.at = to, !.handle.next.has = live.has \cup {c}])
           \/ Becomes(c, [cycle[c] EXCEPT !.at = "mark"])
<1>1. CASE ~tripped /\ WorthChanging(h)
  <2>1. PICK to \in {"gate", "measure"} :
             to = IF surface = "skills" THEN "gate" ELSE "measure"
    OBVIOUS
  <2>2. PICK y : y = [cycle[c] EXCEPT !.at = to, !.handle.next.has = live.has \cup {c}]
    OBVIOUS
  <2>3. y \in CycleRecord
    <3>1. cycle[c] \in CycleRecord /\ live.has \cup {c} \in SUBSET Cycles
      BY DEF LoopTypes, Value
    <3>2. cycle[c].handle \in [version : Nat, previous : Value, next : Value]
      BY <3>1 DEF CycleRecord
    <3>3. [cycle[c].handle.next EXCEPT !.has = live.has \cup {c}] \in Value
      BY <3>1, <3>2 DEF Value
    <3>4. [cycle[c].handle EXCEPT !.next.has = live.has \cup {c}]
            \in [version : Nat, previous : Value, next : Value]
      BY <3>2, <3>3
    <3> QED
      BY <2>1, <2>2, <3>1, <3>4 DEF CycleRecord
  <2>4. cycle' = [cycle EXCEPT ![c] = y]
    <3>1. cycle' = [cycle EXCEPT ![c].handle.next.has = live.has \cup {c}, ![c].at = to]
      BY <1>1, <2>1 DEF Propose
    <3>2. cycle[c] \in CycleRecord /\ DOMAIN cycle = Cycles
      BY DEF LoopTypes
    <3>3. y = [cycle[c] EXCEPT !.handle.next.has = live.has \cup {c}, !.at = to]
      BY <2>2, <3>2 DEF CycleRecord
    <3> QED
      BY <3>1, <3>2, <3>3
  <2> QED
    BY <2>1, <2>2, <2>3, <2>4, CycleTurn
<1>2. CASE ~(~tripped /\ WorthChanging(h))
  BY <1>2, MoveIs DEF Propose, Places
<1> QED
  BY <1>1, <1>2

LEMMA GateMoveIs ==
    ASSUME LoopTypes, NEW c \in Cycles, NEW approved \in BOOLEAN, Gate(c, approved)
    PROVE  \E to \in {"measure", "mark"} : Becomes(c, [cycle[c] EXCEPT !.at = to])
BY MoveIs DEF Gate, Places

LEMMA MeasuredIs ==
    ASSUME LoopTypes, NEW reading
    PROVE  /\ MeasuredNow(reading) \in {Garbled, MeasureOf(live)}
           /\ MeasuredNow(reading) \in Measurement \cup {Garbled}
BY MeasureIs DEF MeasuredNow, LoopTypes

LEMMA MeasureBeforeIs ==
    ASSUME LoopTypes, NEW c \in Cycles, NEW reading \in Measures, MeasureBefore(c, reading)
    PROVE  \/ \E m \in {Garbled, MeasureOf(live)} :
                 /\ Becomes(c, [cycle[c] EXCEPT !.at = "stage", !.before = m])
                 /\ UNCHANGED escaped
           \/ Becomes(c, Thrown) /\ escaped' = TRUE
<1>1. CASE reading # "failed"
  <2>1. PICK m \in Measurement \cup {Garbled} :
          m = MeasuredNow(reading) /\ m \in {Garbled, MeasureOf(live)}
    BY MeasuredIs
  <2>2. [cycle[c] EXCEPT !.at = "stage", !.before = m] \in CycleRecord
    <3>1. cycle[c] \in CycleRecord
      BY DEF LoopTypes
    <3> QED
      BY <3>1 DEF CycleRecord
  <2>3. cycle' = [cycle EXCEPT ![c] = [cycle[c] EXCEPT !.at = "stage", !.before = m]]
    BY <1>1, <2>1 DEF MeasureBefore, LoopTypes
  <2> QED
    BY <1>1, <2>1, <2>2, <2>3, CycleTurn DEF MeasureBefore
<1>2. CASE reading = "failed"
  BY <1>2, ThrowIs DEF MeasureBefore
<1> QED
  BY <1>1, <1>2

LEMMA StageIs ==
    ASSUME LoopTypes, NEW c \in Cycles, Stage(c)
    PROVE  \E y \in CycleRecord :
             /\ Becomes(c, y)
             /\ y.at = "apply" /\ y.before = cycle[c].before
             /\ y.verdict = cycle[c].verdict /\ y.since = cycle[c].since
             /\ y.handle.version = version + 1 /\ y.handle.previous = live
             /\ y.handle.next.by = version + 1
             /\ y.handle.next.has = cycle[c].handle.next.has
<1>1. PICK n \in Nat : n = version + 1
  BY DEF LoopTypes
<1>2. cycle[c] \in CycleRecord /\ DOMAIN cycle = Cycles /\ live \in Value
  BY DEF LoopTypes
<1>3. PICK y : y = [cycle[c] EXCEPT !.at = "apply", !.handle.version = n,
                       !.handle.previous = live, !.handle.next.by = n]
  OBVIOUS
<1>4. cycle' = [cycle EXCEPT ![c] = y]
  BY <1>1, <1>2, <1>3 DEF Stage
<1>5. /\ y.handle.version = n /\ y.handle.previous = live
      /\ y.handle.next.by = n /\ y.handle.next.has = cycle[c].handle.next.has
      /\ y.handle \in [version : Nat, previous : Value, next : Value]
  <2>1. y.handle = [cycle[c].handle EXCEPT !.version = n, !.previous = live, !.next.by = n]
    BY <1>2, <1>3 DEF CycleRecord
  <2>2. cycle[c].handle \in [version : Nat, previous : Value, next : Value]
    BY <1>2 DEF CycleRecord
  <2>3. PICK v : v = [cycle[c].handle.next EXCEPT !.by = n]
    OBVIOUS
  <2>4. v \in Value /\ v.by = n /\ v.has = cycle[c].handle.next.has
    BY <1>1, <2>2, <2>3 DEF Value
  <2>5. y.handle = [cycle[c].handle EXCEPT !.version = n, !.previous = live, !.next = v]
    BY <2>1, <2>2, <2>3
  <2> QED
    BY <1>2, <2>2, <2>4, <2>5
<1>6. y.at = "apply" /\ y.before = cycle[c].before
      /\ y.verdict = cycle[c].verdict /\ y.since = cycle[c].since /\ y.after = cycle[c].after
  BY <1>2, <1>3 DEF CycleRecord
<1>7. y \in CycleRecord
  <2>1. y = [cycle[c] EXCEPT !.at = "apply", !.handle = y.handle]
    BY <1>2, <1>3, <1>5 DEF CycleRecord
  <2> QED
    BY <1>2, <1>5, <2>1 DEF CycleRecord
<1> QED
  BY <1>1, <1>4, <1>5, <1>6, <1>7, CycleTurn

LEMMA PersistIs ==
    ASSUME LoopTypes, NEW c \in Cycles, NEW v, NEW to \in Places, Persist(c, v, to)
    PROVE  \/ /\ Becomes(c, [cycle[c] EXCEPT !.at = to])
              /\ stored' = v /\ live' = v /\ UNCHANGED escaped
           \/ /\ Becomes(c, Thrown) /\ escaped' = TRUE
              /\ stored' \in {stored, v} /\ UNCHANGED live
BY MoveIs, ThrowIs DEF Persist

LEMMA ApplyIs ==
    ASSUME LoopTypes, NEW c \in Cycles, Apply(c)
    PROVE  \/ /\ Becomes(c, Thrown) /\ escaped' = TRUE
              /\ stored' \in {stored, cycle[c].handle.next} /\ UNCHANGED live
           \/ /\ cycle[c].at = "apply" /\ surface = "bound" /\ IsCurrent(c)
              /\ Becomes(c, [cycle[c] EXCEPT !.at = "trial"])
              /\ live' = cycle[c].handle.next /\ UNCHANGED <<stored, escaped>>
           \/ /\ cycle[c].at = "apply" /\ surface = "skills" /\ IsCurrent(c)
              /\ Becomes(c, [cycle[c] EXCEPT !.at = "persist"])
              /\ UNCHANGED <<live, stored, escaped>>
           \/ /\ cycle[c].at = "persist"
              /\ Becomes(c, [cycle[c] EXCEPT !.at = "trial"])
              /\ stored' = cycle[c].handle.next /\ live' = cycle[c].handle.next
              /\ UNCHANGED escaped
<1>1. CASE cycle[c].at = "apply" /\ ~IsCurrent(c)
  BY <1>1, ThrowIs DEF Apply
<1>2. CASE cycle[c].at = "apply" /\ IsCurrent(c) /\ surface = "bound"
  <2>1. live' = cycle[c].handle.next /\ MoveCycle(c, "trial") /\ UNCHANGED <<escaped, stored>>
    BY <1>2 DEF Apply
  <2> QED
    BY <1>2, <2>1, MoveIs DEF Places
<1>3. CASE cycle[c].at = "apply" /\ IsCurrent(c) /\ surface # "bound"
  <2>1. MoveCycle(c, "persist") /\ UNCHANGED <<live, escaped, stored>>
    BY <1>3 DEF Apply
  <2> QED
    BY <1>3, <2>1, MoveIs DEF Places, LoopTypes, Surfaces
<1>4. CASE cycle[c].at = "persist"
  <2>1. Persist(c, cycle[c].handle.next, "trial")
    BY <1>4 DEF Apply
  <2> QED
    BY <1>4, <2>1, PersistIs DEF Places
<1> QED
  BY <1>1, <1>2, <1>3, <1>4 DEF Apply

LEMMA DecideIs ==
    ASSUME LoopTypes, NEW c \in Cycles, NEW reading \in Measures, Decide(c, reading)
    PROVE  \E m \in {Garbled, MeasureOf(live)}, v \in {"accept", "reject"} :
             /\ v = DecideOn(cycle[c].before, m)
             /\ Becomes(c, [cycle[c] EXCEPT !.verdict = v, !.after = m,
                              !.at = IF v = "accept" THEN "record" ELSE "restore"])
<1>1. PICK m \in Measurement \cup {Garbled} :
        m = MeasuredNow(reading) /\ m \in {Garbled, MeasureOf(live)}
  BY MeasuredIs
<1>2. PICK v \in {"accept", "reject"} : v = DecideOn(cycle[c].before, m)
  BY DEF DecideOn
<1>3. PICK to \in {"record", "restore"} : to = IF v = "accept" THEN "record" ELSE "restore"
  OBVIOUS
<1>4. cycle[c] \in CycleRecord /\ DOMAIN cycle = Cycles
  BY DEF LoopTypes
<1>5. [cycle[c] EXCEPT !.verdict = v, !.after = m, !.at = to] \in CycleRecord
  BY <1>4 DEF CycleRecord
<1>6. cycle' = [cycle EXCEPT ![c] = [cycle[c] EXCEPT !.verdict = v, !.after = m, !.at = to]]
  <2>1. cycle' = [cycle EXCEPT ![c].verdict = v, ![c].after = m, ![c].at = to]
    BY <1>1, <1>2, <1>3 DEF Decide
  <2> QED
    BY <1>4, <2>1
<1>7. Becomes(c, [cycle[c] EXCEPT !.verdict = v, !.after = m, !.at = to])
  BY <1>5, <1>6, CycleTurn
<1> QED
  BY <1>1, <1>2, <1>3, <1>7

LEMMA RevertIs ==
    ASSUME LoopTypes, NEW c \in Cycles, Revert(c)
    PROVE  \/ /\ Becomes(c, Thrown) /\ escaped' = TRUE
              /\ stored' \in {stored, cycle[c].handle.previous} /\ UNCHANGED live
           \/ /\ IsCurrent(c) /\ surface = "bound"
              /\ Becomes(c, [cycle[c] EXCEPT !.at = "record"])
              /\ live' = cycle[c].handle.previous /\ UNCHANGED <<stored, escaped>>
           \/ /\ IsCurrent(c) /\ surface = "skills"
              /\ Becomes(c, [cycle[c] EXCEPT !.at = "record"])
              /\ stored' = cycle[c].handle.previous /\ live' = cycle[c].handle.previous
              /\ UNCHANGED escaped
<1>1. CASE ~IsCurrent(c)
  BY <1>1, ThrowIs DEF Revert
<1>2. CASE IsCurrent(c) /\ surface = "bound"
  <2>1. live' = cycle[c].handle.previous /\ MoveCycle(c, "record") /\ UNCHANGED <<stored, escaped>>
    BY <1>2 DEF Revert
  <2> QED
    BY <1>2, <2>1, MoveIs DEF Places
<1>3. CASE IsCurrent(c) /\ surface # "bound"
  <2>1. Persist(c, cycle[c].handle.previous, "record") /\ surface = "skills"
    BY <1>3 DEF Revert, LoopTypes, Surfaces
  <2> QED
    BY <1>3, <2>1, PersistIs DEF Places
<1> QED
  BY <1>1, <1>2, <1>3

\* The entry of a verdict.
EntryMade(c) == [version |-> cycle[c].handle.version, verdict |-> cycle[c].verdict,
                 after |-> cycle[c].after]

\* A verdict is one of two from the decision on.
Decided == \A c \in Cycles :
    /\ cycle[c].at = "restore" => cycle[c].verdict = "reject"
    /\ cycle[c].at = "record" => cycle[c].verdict \in {"accept", "reject"}

LEMMA RecordVerdictIs ==
    ASSUME LoopTypes, NEW c \in Cycles, RecordVerdict(c)
    PROVE  \/ /\ Becomes(c, Thrown) /\ escaped' = TRUE
              /\ UNCHANGED <<entries, accepted>>
           \/ /\ Becomes(c, [cycle[c] EXCEPT !.at = "mark"]) /\ UNCHANGED escaped
              /\ entries' = Append(entries, EntryMade(c))
              /\ accepted' = IF cycle[c].verdict = "accept" THEN accepted \cup {c}
                             ELSE accepted
BY MoveIs, ThrowIs DEF RecordVerdict, EntryMade, Places

LEMMA RestartIs ==
    ASSUME LoopTypes, ImproveRestart
    PROVE  /\ cycle' \in [Cycles -> CycleRecord]
           /\ \A c \in Cycles : cycle'[c] = IF Running(c) THEN Thrown ELSE cycle[c]
           /\ \A c \in Cycles : cycle'[c].at \in {"idle", "done"}
           /\ live' \in Value /\ live'.by = 1 /\ stored' \in Value
           /\ stored'.has = stored.has
           /\ surface = "skills" => live'.has = stored.has
           /\ surface = "bound" => live' = FirstValue
<1>1. \A c \in Cycles : cycle'[c] = IF Running(c) THEN Thrown ELSE cycle[c]
  BY DEF ImproveRestart, Thrown
<1>2. cycle' \in [Cycles -> CycleRecord]
  BY IdleIs DEF ImproveRestart, LoopTypes
<1>3. Thrown.at = "done"
  BY DEF Thrown, IdleCycle
<1>4. stored' \in Value /\ stored'.by = 1 /\ stored'.has = stored.has
  BY DEF ImproveRestart, LoopTypes, Value
<1>5. live' = IF surface = "skills" THEN stored' ELSE FirstValue
  BY DEF ImproveRestart
<1>6. FirstValue \in Value /\ FirstValue.by = 1
  BY IdleIs DEF FirstValue
<1> QED
  BY <1>1, <1>2, <1>3, <1>4, <1>5, <1>6 DEF Running

-----------------------------------------------------------------------------
(* Types                                                                   *)

LEMMA LoopBegins ==
    ASSUME ImproveInit
    PROVE  LoopTypes /\ Decided
<1>1. cycle \in [Cycles -> CycleRecord] /\ \A c \in Cycles : cycle[c].at = "idle"
  BY IdleIs DEF ImproveInit, IdleCycle
<1>2. now \in 1..MaxNow /\ watermark \in 0..MaxNow
  BY ImproveAssumption DEF ImproveInit, Never
<1>3. entries \in Seq(ImproveEntry)
  BY DEF ImproveInit
<1>4. started \in [1..MaxNow -> SUBSET Cycles] /\ version \in Nat
  BY DEF ImproveInit
<1>5. live \in Value /\ stored \in Value
  BY IdleIs DEF ImproveInit
<1>6. enabled \in BOOLEAN /\ quality \in Qualities /\ surface \in Surfaces
      /\ accepted \subseteq Cycles /\ overlapped \in BOOLEAN /\ escaped \in BOOLEAN
  BY DEF ImproveInit
<1> QED
  BY <1>1, <1>2, <1>3, <1>4, <1>5, <1>6 DEF LoopTypes, Decided

LEMMA LoopTypesStep ==
    ASSUME LoopTypes, Decided, [ImproveNext]_improveVars
    PROVE  LoopTypes' /\ Decided'
<1> USE DEF LoopTypes, Decided, Becomes
<1>0. \A c \in Cycles : cycle[c] \in CycleRecord /\ Thrown.at = "done"
  BY DEF Thrown, IdleCycle
<1>1. CASE UNCHANGED improveVars
  BY <1>1 DEF improveVars
<1>2. ASSUME NEW c \in Cycles, NEW yes \in BOOLEAN, Fire(c, yes)
      PROVE  LoopTypes' /\ Decided'
  <2>1. /\ cycle' \in [Cycles -> CycleRecord] /\ cycle'[c].at = "propose"
        /\ \A d \in Cycles : d # c => cycle'[d] = cycle[d]
    BY <1>0, <1>2, FireIs DEF CycleRecord
  <2>2. started' \in [1..MaxNow -> SUBSET Cycles]
    BY <1>2 DEF Fire
  <2>3. overlapped' \in BOOLEAN /\ escaped' \in BOOLEAN
    BY <1>2 DEF Fire
  <2> QED
    BY <1>2, <2>1, <2>2, <2>3 DEF Fire
<1>3. ASSUME NEW c \in Cycles, NEW yes \in BOOLEAN, Gate(c, yes)
      PROVE  LoopTypes' /\ Decided'
  <2>1. PICK to \in {"measure", "mark"} : Becomes(c, [cycle[c] EXCEPT !.at = to])
    BY <1>3, GateMoveIs
  <2>2. cycle'[c].at = to
    BY <1>0, <2>1 DEF CycleRecord
  <2> QED
    BY <1>3, <2>1, <2>2 DEF Gate
<1>4. ASSUME NEW c \in Cycles, NEW h \in TaskHistories, NEW tripped \in BOOLEAN,
             Propose(c, h, tripped)
      PROVE  LoopTypes' /\ Decided'
  <2>1. /\ cycle' \in [Cycles -> CycleRecord] /\ cycle'[c].at \in {"gate", "measure", "mark"}
        /\ \A d \in Cycles : d # c => cycle'[d] = cycle[d]
    <3>1. CASE Becomes(c, [cycle[c] EXCEPT !.at = "mark"])
      BY <1>0, <3>1 DEF CycleRecord
    <3>2. CASE \E to \in {"gate", "measure"} :
                 Becomes(c, [cycle[c] EXCEPT !.at = to,
                                             !.handle.next.has = live.has \cup {c}])
      <4>1. PICK to \in {"gate", "measure"} :
                 Becomes(c, [cycle[c] EXCEPT !.at = to,
                                             !.handle.next.has = live.has \cup {c}])
        BY <3>2
      <4>2. cycle'[c].at = to
        BY <1>0, <4>1 DEF CycleRecord
      <4> QED
        BY <4>1, <4>2
    <3>3. \/ \E to \in {"gate", "measure"} :
                 Becomes(c, [cycle[c] EXCEPT !.at = to,
                                             !.handle.next.has = live.has \cup {c}])
          \/ Becomes(c, [cycle[c] EXCEPT !.at = "mark"])
      BY <1>4, ProposeIs, Zenon
    <3> QED
      BY <3>1, <3>2, <3>3, Zenon
  <2> QED
    BY <1>4, <2>1 DEF Propose
<1>5. ASSUME NEW c \in Cycles, NEW reading \in Measures, MeasureBefore(c, reading)
      PROVE  LoopTypes' /\ Decided'
  <2>1. /\ cycle' \in [Cycles -> CycleRecord] /\ cycle'[c].at \in {"stage", "done"}
        /\ \A d \in Cycles : d # c => cycle'[d] = cycle[d]
        /\ escaped' \in BOOLEAN
    BY <1>0, <1>5, MeasureBeforeIs DEF CycleRecord
  <2> QED
    BY <1>5, <2>1 DEF MeasureBefore
<1>6. ASSUME NEW c \in Cycles, NEW reading \in Measures, Decide(c, reading)
      PROVE  LoopTypes' /\ Decided'
  <2>1. /\ cycle' \in [Cycles -> CycleRecord]
        /\ cycle'[c].verdict \in {"accept", "reject"}
        /\ cycle'[c].at = "restore" => cycle'[c].verdict = "reject"
        /\ \A d \in Cycles : d # c => cycle'[d] = cycle[d]
    <3>1. PICK m \in {Garbled, MeasureOf(live)}, v \in {"accept", "reject"} :
             Becomes(c, [cycle[c] EXCEPT !.verdict = v, !.after = m,
                              !.at = IF v = "accept" THEN "record" ELSE "restore"])
      BY <1>6, DecideIs
    <3> QED
      BY <1>0, <3>1 DEF CycleRecord
  <2> QED
    BY <1>6, <2>1 DEF Decide
<1>7. ASSUME NEW c \in Cycles, Stage(c)
      PROVE  LoopTypes' /\ Decided'
  <2>1. /\ cycle' \in [Cycles -> CycleRecord] /\ cycle'[c].at = "apply"
        /\ \A d \in Cycles : d # c => cycle'[d] = cycle[d]
    BY <1>7, StageIs
  <2> QED
    BY <1>7, <2>1 DEF Stage
<1>8. ASSUME NEW c \in Cycles, Apply(c)
      PROVE  LoopTypes' /\ Decided'
  <2>1. cycle[c].handle.next \in Value
    BY <1>0 DEF CycleRecord
  <2>2. /\ cycle' \in [Cycles -> CycleRecord] /\ cycle'[c].at \in {"trial", "persist", "done"}
        /\ \A d \in Cycles : d # c => cycle'[d] = cycle[d]
        /\ escaped' \in BOOLEAN /\ live' \in Value /\ stored' \in Value
    <3>1. \A to \in Places : [cycle[c] EXCEPT !.at = to].at = to
      BY <1>0 DEF CycleRecord
    <3>2. {"trial", "persist", "done"} \subseteq Places
      BY DEF Places
    <3>3. live' \in Value /\ stored' \in Value /\ escaped' \in BOOLEAN
      BY <1>8, <2>1, ApplyIs
    <3> QED
      BY <1>0, <1>8, <3>1, <3>2, <3>3, ApplyIs
  <2> QED
    BY <1>8, <2>2 DEF Apply
<1>9. ASSUME NEW c \in Cycles, Revert(c)
      PROVE  LoopTypes' /\ Decided'
  <2>1. cycle[c].handle.previous \in Value /\ cycle[c].at = "restore"
    BY <1>0, <1>9 DEF CycleRecord, Revert
  <2>2. /\ cycle' \in [Cycles -> CycleRecord]
        /\ \/ cycle'[c].at = "done"
           \/ cycle'[c].at = "record" /\ cycle'[c].verdict = cycle[c].verdict
        /\ \A d \in Cycles : d # c => cycle'[d] = cycle[d]
        /\ escaped' \in BOOLEAN /\ live' \in Value /\ stored' \in Value
    BY <1>0, <1>9, <2>1, RevertIs DEF CycleRecord
  <2> QED
    BY <1>9, <2>1, <2>2 DEF Revert
<1>10. ASSUME NEW c \in Cycles, RecordVerdict(c)
       PROVE  LoopTypes' /\ Decided'
  <2>1. EntryMade(c) \in ImproveEntry
    BY <1>0, <1>10 DEF EntryMade, ImproveEntry, CycleRecord, RecordVerdict
  <2>2. entries' \in Seq(ImproveEntry) /\ accepted' \subseteq Cycles /\ escaped' \in BOOLEAN
    <3>1. Append(entries, EntryMade(c)) \in Seq(ImproveEntry)
      BY <2>1
    <3>2. \/ escaped' = TRUE /\ UNCHANGED <<entries, accepted>>
          \/ /\ UNCHANGED escaped /\ entries' = Append(entries, EntryMade(c))
             /\ accepted' \in {accepted, accepted \cup {c}}
      BY <1>10, RecordVerdictIs
    <3> QED
      BY <3>1, <3>2
  <2>3. /\ cycle' \in [Cycles -> CycleRecord] /\ cycle'[c].at \in {"mark", "done"}
        /\ \A d \in Cycles : d # c => cycle'[d] = cycle[d]
    BY <1>0, <1>10, RecordVerdictIs DEF CycleRecord
  <2> QED
    BY <1>10, <2>2, <2>3 DEF RecordVerdict
<1>11. ASSUME NEW c \in Cycles, Mark(c)
       PROVE  LoopTypes' /\ Decided'
  <2>1. /\ cycle' \in [Cycles -> CycleRecord] /\ cycle'[c].at = "done"
        /\ \A d \in Cycles : d # c => cycle'[d] = cycle[d]
        /\ escaped' \in BOOLEAN /\ watermark' \in 0..MaxNow
    BY <1>0, <1>11, MarkIs DEF CycleRecord
  <2> QED
    BY <1>11, <2>1 DEF Mark
<1>12. CASE ImproveRestart
  <2>1. entries' \in Seq(ImproveEntry)
    BY <1>12 DEF ImproveRestart
  <2>2. escaped' \in BOOLEAN /\ version' \in Nat
    BY <1>12 DEF ImproveRestart
  <2>3. cycle' \in [Cycles -> CycleRecord] /\ live' \in Value /\ stored' \in Value
        /\ \A c \in Cycles : cycle'[c].at \in {"idle", "done"}
    BY <1>12, RestartIs
  <2> QED
    BY <1>12, <2>1, <2>2, <2>3 DEF ImproveRestart
<1>13. CASE IntervalPasses
  BY <1>13, ImproveAssumption DEF IntervalPasses
<1> QED
  BY <1>1, <1>2, <1>3, <1>4, <1>5, <1>6, <1>7, <1>8, <1>9, <1>10, <1>11, <1>12, <1>13
     DEF ImproveNext

-----------------------------------------------------------------------------
(* Versions: what stands is not undone                                     *)

LEMMA VersionsBegin ==
    ASSUME ImproveInit
    PROVE  VersionsInv
<1>1. \A c \in Cycles : cycle[c].at = "idle"
  BY DEF ImproveInit, IdleCycle
<1>2. AcceptedVersions = {}
  BY DEF ImproveInit, AcceptedVersions
<1>3. Standing = {}
  BY <1>1, <1>2 DEF Standing, InForce
<1>4. live.by <= version
  BY DEF ImproveInit, FirstValue
<1> QED
  BY <1>1, <1>3, <1>4 DEF VersionsInv, VersionIsSound, Holds, OneRuns, Running

\* What stands is a version of an entry or of a cycle that was applied.
LEMMA StandingShrinks ==
    ASSUME UNCHANGED entries,
           \A d \in Cycles : InForce(d)' => InForce(d) /\ cycle'[d].handle = cycle[d].handle
    PROVE  Standing' \subseteq Standing /\ AcceptedVersions' = AcceptedVersions
<1>1. AcceptedVersions' = AcceptedVersions
  BY DEF AcceptedVersions
<1>2. ASSUME NEW v \in Standing', v \notin AcceptedVersions
      PROVE  v \in Standing
  <2>1. PICK d \in Cycles : InForce(d)' /\ v = cycle'[d].handle.version
    BY <1>1, <1>2 DEF Standing
  <2> QED
    BY <2>1 DEF Standing
<1> QED
  BY <1>1, <1>2 DEF Standing

\* A step that stages, applies and undoes nothing.
LEMMA VersionsShrink ==
    ASSUME LoopTypes, VersionsInv, UNCHANGED <<live, version, surface>>,
           overlapped => overlapped',
           \A d \in Cycles : Holds(d)' => Holds(d) /\ cycle'[d].handle = cycle[d].handle,
           \A d \in Cycles : InHand(d)' => InHand(d),
           Standing' \subseteq Standing,
           \A d \in Cycles : Holds(d)' => cycle'[d].handle.version \notin AcceptedVersions',
           \A d \in Cycles : cycle'[d].at = "persist" => surface = "skills",
           (~overlapped => OneRuns)'
    PROVE  VersionsInv'
<1>1. Guarded' => Guarded
  BY DEF Guarded
<1>2. ASSUME NEW d \in Cycles PROVE VersionIsSound(d)'
  <2> SUFFICES ASSUME Holds(d)' PROVE VersionIsSound(d)'
    BY DEF VersionIsSound
  <2>1. Holds(d) /\ cycle'[d].handle = cycle[d].handle
    OBVIOUS
  <2>2. IsCurrent(d)' <=> IsCurrent(d)
    BY <2>1 DEF IsCurrent
  <2>3. VersionIsSound(d)
    BY DEF VersionsInv
  <2> QED
    BY <1>1, <2>1, <2>2, <2>3 DEF VersionIsSound
<1>3. \A d, e \in Cycles : Holds(d)' /\ Holds(e)' /\ d # e
           => cycle'[d].handle.version # cycle'[e].handle.version
  BY DEF VersionsInv
<1> QED
  BY <1>1, <1>2, <1>3 DEF VersionsInv

LEMMA VersionsQuiet ==
    ASSUME LoopTypes, VersionsInv, NEW c \in Cycles, NEW y, Becomes(c, y),
           UNCHANGED <<live, version, surface, entries>>, overlapped => overlapped',
           y.at \in {"apply", "persist", "trial", "restore", "record"}
               => Holds(c) /\ y.handle = cycle[c].handle,
           y.at \in {"apply", "persist", "trial", "restore"} => InHand(c),
           y.at \in {"trial", "restore"} => InForce(c),
           y.at = "record" /\ y.verdict = "accept" => InForce(c),
           y.at = "persist" => surface = "skills",
           y.at \in {"idle", "done"} \/ Running(c) \/ AtRest \/ overlapped'
    PROVE  VersionsInv'
<1> USE DEF Becomes
<1>1. \A d \in Cycles : Holds(d)' => Holds(d) /\ cycle'[d].handle = cycle[d].handle
  BY DEF Holds
<1>2. \A d \in Cycles : InHand(d)' => InHand(d)
  BY DEF InHand
<1>3. \A d \in Cycles : InForce(d)' => InForce(d) /\ cycle'[d].handle = cycle[d].handle
  BY DEF InForce, Holds
<1>4. Standing' \subseteq Standing /\ AcceptedVersions' = AcceptedVersions
  BY <1>3, StandingShrinks
<1>5. \A d \in Cycles : Holds(d)' => cycle'[d].handle.version \notin AcceptedVersions'
  BY <1>1, <1>4 DEF VersionsInv, VersionIsSound
<1>6. \A d \in Cycles : cycle'[d].at = "persist" => surface = "skills"
  BY DEF VersionsInv
<1>7. (~overlapped => OneRuns)'
  BY DEF VersionsInv, OneRuns, Running, AtRest
<1> QED
  BY <1>1, <1>2, <1>4, <1>5, <1>6, <1>7, VersionsShrink

\* A cycle that throws or is done holds nothing.
LEMMA VersionsThrow ==
    ASSUME LoopTypes, VersionsInv, NEW c \in Cycles, Becomes(c, Thrown),
           UNCHANGED <<live, version, surface, entries, overlapped>>
    PROVE  VersionsInv'
<1>1. Thrown.at = "done"
  BY DEF Thrown, IdleCycle
<1> QED
  BY <1>1, VersionsQuiet

\* A new version lies over all others, and what is live when it is staged is no
\* older than what stands.
LEMMA VersionsStage ==
    ASSUME LoopTypes, VersionsInv, NEW c \in Cycles, Stage(c)
    PROVE  VersionsInv'
<1>1. PICK y \in CycleRecord :
             /\ Becomes(c, y)
             /\ y.at = "apply"
             /\ y.handle.version = version + 1 /\ y.handle.previous = live
             /\ y.handle.next.by = version + 1
  BY StageIs
<1>2. /\ cycle'[c] = y /\ \A d \in Cycles : d # c => cycle'[d] = cycle[d]
      /\ cycle[c].at = "stage" /\ version' = version + 1 /\ version \in Nat /\ live.by \in Nat
      /\ UNCHANGED <<surface, live, entries, overlapped>>
  BY <1>1 DEF Becomes, Stage, LoopTypes, Value
<1>3. Standing' \subseteq Standing /\ AcceptedVersions' = AcceptedVersions
  <2>1. \A d \in Cycles : InForce(d)' => InForce(d) /\ cycle'[d].handle = cycle[d].handle
    BY <1>1, <1>2 DEF InForce
  <2> QED
    BY <1>2, <2>1, StandingShrinks
<1>4. ASSUME NEW v \in Standing PROVE v <= version /\ v \in Nat /\ (Guarded => v <= live.by)
  <2>1. v \in Nat
    <3>1. CASE v \in AcceptedVersions
      <4>1. PICK i \in DOMAIN entries : v = entries[i].version
        BY <3>1 DEF AcceptedVersions
      <4>2. entries[i] \in ImproveEntry
        BY <4>1 DEF LoopTypes
      <4> QED
        BY <4>1, <4>2 DEF ImproveEntry
    <3>2. CASE v \notin AcceptedVersions
      BY <3>2 DEF Standing, LoopTypes, CycleRecord
    <3> QED
      BY <3>1, <3>2
  <2> QED
    BY <2>1 DEF VersionsInv
<1>5. \A d \in Cycles : Holds(d) => cycle[d].handle.version \in Nat
                                    /\ cycle[d].handle.version <= version
  <2>1. \A d \in Cycles : cycle[d].handle.version \in Nat
    BY DEF LoopTypes, CycleRecord
  <2> QED
    BY <2>1 DEF VersionsInv, VersionIsSound
<1>6. ASSUME NEW d \in Cycles PROVE VersionIsSound(d)'
  <2>1. CASE d = c
    <3>1. version + 1 \notin AcceptedVersions'
      <4>1. AcceptedVersions \subseteq Standing
        BY DEF Standing
      <4> QED
        BY <1>2, <1>3, <1>4, <4>1
    <3>2. live.by < version + 1
      BY <1>2 DEF VersionsInv
    <3>3. Guarded' => \A v \in Standing' : v <= live.by
      BY <1>2, <1>3, <1>4 DEF Guarded
    <3> QED
      BY <1>1, <1>2, <2>1, <3>1, <3>2, <3>3 DEF VersionIsSound, IsCurrent
  <2>2. CASE d # c
    <3> SUFFICES ASSUME Holds(d)' PROVE VersionIsSound(d)'
      BY DEF VersionIsSound
    <3>1. cycle'[d] = cycle[d] /\ Holds(d)
      BY <1>2, <2>2 DEF Holds
    <3>2. overlapped
      BY <1>2, <2>2, <3>1 DEF VersionsInv, OneRuns, Running, Holds
    <3>3. cycle[d].handle.version <= version'
      BY <1>2, <1>5, <3>1
    <3>4. InHand(d)' <=> InHand(d)
      BY <3>1 DEF InHand
    <3>5. Guarded' <=> Guarded
      BY <1>2 DEF Guarded
    <3>6. VersionIsSound(d)
      BY DEF VersionsInv
    <3> QED
      BY <1>2, <1>3, <3>1, <3>2, <3>3, <3>4, <3>5, <3>6 DEF VersionIsSound
  <2> QED
    BY <2>1, <2>2
<1>7. (\A d, e \in Cycles : Holds(d) /\ Holds(e) /\ d # e
           => cycle[d].handle.version # cycle[e].handle.version)'
  <2> SUFFICES ASSUME NEW d \in Cycles, NEW e \in Cycles, Holds(d)', Holds(e)', d # e
               PROVE  cycle'[d].handle.version # cycle'[e].handle.version
    OBVIOUS
  <2>1. CASE d # c /\ e # c
    BY <1>2, <2>1 DEF VersionsInv, Holds
  <2>2. CASE d = c \/ e = c
    BY <1>1, <1>2, <1>5, <2>2 DEF Holds
  <2> QED
    BY <2>1, <2>2
<1>8. (~overlapped => OneRuns)'
  BY <1>1, <1>2 DEF VersionsInv, OneRuns, Running
<1>9. (\A d \in Cycles : cycle[d].at = "persist" => surface = "skills")'
  BY <1>1, <1>2 DEF VersionsInv
<1>10. live'.by <= version' /\ (\A v \in Standing' : v <= version')
       /\ (Guarded' => \A v \in Standing' : v <= live'.by)
  BY <1>2, <1>3, <1>4 DEF VersionsInv, Guarded
<1> QED
  BY <1>6, <1>7, <1>8, <1>9, <1>10 DEF VersionsInv

\* The version that is applied is, where only the current one can act, above all.
LEMMA VersionsApply ==
    ASSUME LoopTypes, VersionsInv, NEW c \in Cycles, cycle[c].at \in {"apply", "persist"},
           cycle[c].at = "apply" => IsCurrent(c),
           Becomes(c, [cycle[c] EXCEPT !.at = "trial"]),
           live' = cycle[c].handle.next,
           UNCHANGED <<version, surface, entries, overlapped>>
    PROVE  VersionsInv'
<1>1. cycle[c] \in CycleRecord /\ version \in Nat
  BY DEF LoopTypes
<1>2. /\ cycle'[c].at = "trial" /\ cycle'[c].handle = cycle[c].handle
      /\ \A d \in Cycles : d # c => cycle'[d] = cycle[d]
  BY <1>1 DEF Becomes, CycleRecord
<1>3. Holds(c) /\ Running(c) /\ VersionIsSound(c)
  BY DEF Holds, Running, VersionsInv
<1>4. PICK n \in Nat : n = cycle[c].handle.version
  BY <1>1 DEF CycleRecord
<1>5. live'.by = n /\ n <= version /\ (Guarded => n = version)
  BY <1>3, <1>4 DEF VersionIsSound, Guarded, IsCurrent, VersionsInv
<1>6. AcceptedVersions' = AcceptedVersions /\ Standing' \subseteq Standing \cup {n}
  <2>1. AcceptedVersions' = AcceptedVersions
    BY DEF AcceptedVersions
  <2>2. ASSUME NEW v \in Standing', v \notin AcceptedVersions, v # n
        PROVE  v \in Standing
    <3>1. PICK d \in Cycles : InForce(d)' /\ v = cycle'[d].handle.version
      BY <2>1, <2>2 DEF Standing
    <3>2. d # c /\ InForce(d)
      BY <1>2, <1>4, <2>2, <3>1 DEF InForce
    <3> QED
      BY <1>2, <3>1, <3>2 DEF Standing
  <2> QED
    BY <2>1, <2>2 DEF Standing
<1>7. \A v \in Standing : v <= version
  BY DEF VersionsInv
<1>8. ASSUME NEW d \in Cycles PROVE VersionIsSound(d)'
  <2> SUFFICES ASSUME Holds(d)' PROVE VersionIsSound(d)'
    BY DEF VersionIsSound
  <2>1. cycle'[d].handle = cycle[d].handle /\ Holds(d) /\ VersionIsSound(d)
    BY <1>2, <1>3 DEF Holds, VersionsInv
  <2>2. InHand(d)' => InHand(d)
    BY <1>2 DEF InHand
  <2>3. Guarded' <=> Guarded
    BY DEF Guarded
  <2>4. ~overlapped' => IsCurrent(d)'
    BY <2>1 DEF VersionIsSound, IsCurrent
  <2>5. ASSUME Guarded', InHand(d)', NEW v \in Standing', v < cycle[d].handle.version
        PROVE  v <= cycle[d].handle.previous.by
    <3>1. cycle[d].handle.version <= version /\ cycle[d].handle.version \in Nat
      BY <2>1 DEF VersionIsSound, LoopTypes, CycleRecord
    <3>2. v # n
      BY <1>1, <1>5, <2>3, <2>5, <3>1
    <3> QED
      BY <1>6, <2>1, <2>2, <2>3, <2>5, <3>2 DEF VersionIsSound
  <2> QED
    BY <1>6, <2>1, <2>2, <2>4, <2>5 DEF VersionIsSound
<1>9. (\A d, e \in Cycles : Holds(d) /\ Holds(e) /\ d # e
           => cycle[d].handle.version # cycle[e].handle.version)'
  <2>1. \A d \in Cycles : Holds(d)' => Holds(d) /\ cycle'[d].handle = cycle[d].handle
    BY <1>2, <1>3 DEF Holds
  <2> QED
    BY <2>1 DEF VersionsInv
<1>10. (~overlapped => OneRuns)'
  BY <1>2, <1>3 DEF VersionsInv, OneRuns, Running
<1>11. (\A d \in Cycles : cycle[d].at = "persist" => surface = "skills")'
  BY <1>2 DEF VersionsInv
<1>12. live'.by <= version' /\ (\A v \in Standing' : v <= version')
       /\ (Guarded' => \A v \in Standing' : v <= live'.by)
  BY <1>5, <1>6, <1>7 DEF Guarded
<1> QED
  BY <1>8, <1>9, <1>10, <1>11, <1>12 DEF VersionsInv

\* What stood when the version that is undone was staged is no newer than what
\* it goes back to, and all that stands stood then.
LEMMA VersionsRevert ==
    ASSUME LoopTypes, VersionsInv, NEW c \in Cycles, cycle[c].at = "restore",
           cycle[c].verdict = "reject", IsCurrent(c),
           Becomes(c, [cycle[c] EXCEPT !.at = "record"]),
           live' = cycle[c].handle.previous,
           UNCHANGED <<version, surface, entries, overlapped>>
    PROVE  VersionsInv'
<1>1. cycle[c] \in CycleRecord /\ version \in Nat
  BY DEF LoopTypes
<1>2. /\ cycle'[c].at = "record" /\ cycle'[c].handle = cycle[c].handle
      /\ cycle'[c].verdict = "reject"
      /\ \A d \in Cycles : d # c => cycle'[d] = cycle[d]
  BY <1>1 DEF Becomes, CycleRecord
<1>3. Holds(c) /\ Running(c) /\ VersionIsSound(c)
  BY DEF Holds, Running, VersionsInv
<1>4. AcceptedVersions' = AcceptedVersions /\ Standing' \subseteq Standing
  <2>1. \A d \in Cycles : InForce(d)' => InForce(d) /\ cycle'[d].handle = cycle[d].handle
    BY <1>2 DEF InForce
  <2> QED
    BY <2>1, StandingShrinks
<1>5. cycle[c].handle.version \notin Standing'
  <2>1. SUFFICES ASSUME NEW d \in Cycles, InForce(d)'
                 PROVE  cycle'[d].handle.version # cycle[c].handle.version
    BY <1>3, <1>4 DEF Standing, VersionIsSound
  <2>2. d # c
    BY <1>2, <2>1 DEF InForce
  <2>3. Holds(d)
    BY <1>2, <2>1, <2>2 DEF InForce, Holds
  <2> QED
    BY <1>2, <1>3, <2>2, <2>3 DEF VersionsInv
<1>6. \A v \in Standing : v <= version /\ v \in Nat
  <2>1. \A i \in DOMAIN entries : entries[i] \in ImproveEntry
    BY DEF LoopTypes
  <2>2. \A d \in Cycles : cycle[d].handle.version \in Nat
    BY DEF LoopTypes, CycleRecord
  <2> QED
    BY <2>1, <2>2 DEF VersionsInv, Standing, AcceptedVersions, ImproveEntry
<1>7. Guarded' => \A v \in Standing' : v <= live'.by
  <2> SUFFICES ASSUME Guarded', NEW v \in Standing'
               PROVE  v <= cycle[c].handle.previous.by
    OBVIOUS
  <2>1. Guarded /\ InHand(c) /\ v \in Standing
    BY <1>4 DEF Guarded, InHand
  <2>2. v < cycle[c].handle.version
    BY <1>1, <1>5, <1>6, <2>1 DEF IsCurrent
  <2> QED
    BY <1>3, <2>1, <2>2 DEF VersionIsSound
<1>8. live'.by <= version'
  <2>1. cycle[c].handle.previous.by \in Nat /\ cycle[c].handle.version \in Nat
    BY <1>1 DEF CycleRecord, Value
  <2> QED
    BY <1>1, <1>3, <2>1 DEF VersionIsSound, IsCurrent
<1>9. ASSUME NEW d \in Cycles PROVE VersionIsSound(d)'
  <2> SUFFICES ASSUME Holds(d)' PROVE VersionIsSound(d)'
    BY DEF VersionIsSound
  <2>1. cycle'[d].handle = cycle[d].handle /\ Holds(d) /\ VersionIsSound(d)
    BY <1>2, <1>3 DEF Holds, VersionsInv
  <2>2. InHand(d)' => InHand(d)
    BY <1>2 DEF InHand
  <2>3. Guarded' <=> Guarded
    BY DEF Guarded
  <2>4. ~overlapped' => IsCurrent(d)'
    BY <2>1 DEF VersionIsSound, IsCurrent
  <2> QED
    BY <1>4, <2>1, <2>2, <2>3, <2>4 DEF VersionIsSound
<1>10. (\A d, e \in Cycles : Holds(d) /\ Holds(e) /\ d # e
           => cycle[d].handle.version # cycle[e].handle.version)'
  <2>1. \A d \in Cycles : Holds(d)' => Holds(d) /\ cycle'[d].handle = cycle[d].handle
    BY <1>2, <1>3 DEF Holds
  <2> QED
    BY <2>1 DEF VersionsInv
<1>11. (~overlapped => OneRuns)'
  BY <1>2, <1>3 DEF VersionsInv, OneRuns, Running
<1>12. (\A d \in Cycles : cycle[d].at = "persist" => surface = "skills")'
  BY <1>2 DEF VersionsInv
<1>13. \A v \in Standing' : v <= version'
  BY <1>4, <1>6
<1> QED
  BY <1>7, <1>8, <1>9, <1>10, <1>11, <1>12, <1>13 DEF VersionsInv

\* A verdict recorded: what stood by the cycle stands by the entry.
LEMMA VersionsRecord ==
    ASSUME LoopTypes, VersionsInv, NEW c \in Cycles, cycle[c].at = "record",
           Becomes(c, [cycle[c] EXCEPT !.at = "mark"]),
           entries' = Append(entries, EntryMade(c)),
           UNCHANGED <<live, version, surface, overlapped>>
    PROVE  VersionsInv'
<1>1. cycle[c] \in CycleRecord
  BY DEF LoopTypes
<1>2. /\ cycle'[c].at = "mark"
      /\ \A d \in Cycles : d # c => cycle'[d] = cycle[d]
  BY <1>1 DEF Becomes, CycleRecord
<1>3. Holds(c) /\ Running(c)
  BY DEF Holds, Running
<1>4. \A v \in AcceptedVersions' :
          \/ v \in AcceptedVersions
          \/ v = cycle[c].handle.version /\ cycle[c].verdict = "accept"
  <2> SUFFICES ASSUME NEW v \in AcceptedVersions'
               PROVE  \/ v \in AcceptedVersions
                      \/ v = cycle[c].handle.version /\ cycle[c].verdict = "accept"
    OBVIOUS
  <2>1. PICK i \in DOMAIN entries' : entries'[i].verdict = "accept" /\ v = entries'[i].version
    BY DEF AcceptedVersions
  <2>2. /\ DOMAIN entries' = 1..(Len(entries) + 1)
        /\ DOMAIN entries = 1..Len(entries) /\ Len(entries) \in Nat
        /\ \A j \in 1..Len(entries) : entries'[j] = entries[j]
        /\ entries'[Len(entries) + 1] = EntryMade(c)
    BY DEF LoopTypes
  <2>3. CASE i \in DOMAIN entries
    BY <2>1, <2>2, <2>3 DEF AcceptedVersions
  <2>4. CASE i \notin DOMAIN entries
    <3>1. i = Len(entries) + 1
      BY <2>2, <2>4
    <3> QED
      BY <2>1, <2>2, <3>1 DEF EntryMade
  <2> QED
    BY <2>3, <2>4
<1>5. Standing' \subseteq Standing
  <2>1. ASSUME NEW v \in AcceptedVersions' PROVE v \in Standing
    <3>1. CASE v \in AcceptedVersions
      BY <3>1 DEF Standing
    <3>2. CASE v = cycle[c].handle.version /\ cycle[c].verdict = "accept"
      BY <3>2 DEF Standing, InForce
    <3> QED
      BY <1>4, <3>1, <3>2
  <2>2. ASSUME NEW d \in Cycles, InForce(d)' PROVE cycle'[d].handle.version \in Standing
    BY <1>2, <2>2 DEF InForce, Standing
  <2> QED
    BY <2>1, <2>2 DEF Standing
<1>6. \A d \in Cycles : Holds(d)' => d # c /\ Holds(d) /\ cycle'[d].handle = cycle[d].handle
  BY <1>2 DEF Holds
<1>7. \A d \in Cycles : Holds(d)' => cycle'[d].handle.version \notin AcceptedVersions'
  BY <1>3, <1>4, <1>6 DEF VersionsInv, VersionIsSound
<1>8. \A d \in Cycles : InHand(d)' => InHand(d)
  BY <1>2 DEF InHand
<1>9. \A d \in Cycles : cycle'[d].at = "persist" => surface = "skills"
  BY <1>2 DEF VersionsInv
<1>10. (~overlapped => OneRuns)'
  BY <1>2, <1>3 DEF VersionsInv, OneRuns, Running
<1> QED
  BY <1>5, <1>6, <1>7, <1>8, <1>9, <1>10, VersionsShrink

LEMMA VersionsStep ==
    ASSUME LoopTypes, Decided, VersionsInv, [ImproveNext]_improveVars
    PROVE  VersionsInv'
<1>0. \A c \in Cycles : cycle[c] \in CycleRecord
  BY DEF LoopTypes
<1>1. CASE UNCHANGED improveVars \/ IntervalPasses
  <2>1. UNCHANGED <<live, version, surface, entries, cycle, overlapped>>
    BY <1>1 DEF improveVars, IntervalPasses
  <2>2. AcceptedVersions' = AcceptedVersions /\ Standing' = Standing
    BY <2>1 DEF AcceptedVersions, Standing, InForce
  <2>3. (~overlapped => OneRuns)'
    BY <2>1 DEF VersionsInv, OneRuns, Running
  <2>4. \A d \in Cycles : /\ Holds(d)' <=> Holds(d)
                          /\ InHand(d)' <=> InHand(d)
    BY <2>1 DEF Holds, InHand
  <2>5. \A d \in Cycles : Holds(d)' => cycle'[d].handle.version \notin AcceptedVersions'
    BY <2>1, <2>2, <2>4 DEF VersionsInv, VersionIsSound
  <2>6. \A d \in Cycles : cycle'[d].at = "persist" => surface = "skills"
    BY <2>1 DEF VersionsInv
  <2> QED
    BY <2>1, <2>2, <2>3, <2>4, <2>5, <2>6, VersionsShrink
<1>2. ASSUME NEW c \in Cycles, NEW yes \in BOOLEAN, Fire(c, yes)
      PROVE  VersionsInv'
  <2>1. PICK y : y = [cycle[c] EXCEPT !.at = "propose", !.since = now]
    OBVIOUS
  <2>2. y.at = "propose"
    BY <1>0, <2>1 DEF CycleRecord
  <2>3. /\ UNCHANGED <<live, version, surface, entries>>
        /\ overlapped => overlapped'
        /\ AtRest \/ overlapped'
    BY <1>2 DEF Fire
  <2>4. Becomes(c, y)
    BY <1>2, <2>1, FireIs
  <2> QED
    BY <2>2, <2>3, <2>4, VersionsQuiet
<1>3. ASSUME NEW c \in Cycles, NEW yes \in BOOLEAN, Gate(c, yes)
      PROVE  VersionsInv'
  <2>1. PICK to \in {"measure", "mark"} : Becomes(c, [cycle[c] EXCEPT !.at = to])
    BY <1>3, GateMoveIs
  <2>2. PICK y : y = [cycle[c] EXCEPT !.at = to]
    OBVIOUS
  <2>3. y.at = to
    BY <1>0, <2>2 DEF CycleRecord
  <2>4. UNCHANGED <<live, version, surface, entries, overlapped>> /\ Running(c)
    BY <1>3 DEF Gate, Running
  <2> QED
    BY <2>1, <2>2, <2>3, <2>4, VersionsQuiet
<1>4. ASSUME NEW c \in Cycles, NEW h \in TaskHistories, NEW tripped \in BOOLEAN,
             Propose(c, h, tripped)
      PROVE  VersionsInv'
  <2>1. UNCHANGED <<live, version, surface, entries, overlapped>> /\ Running(c)
    BY <1>4 DEF Propose, Running
  <2>2. PICK y : Becomes(c, y) /\ y.at \in {"gate", "measure", "mark"}
    <3>1. CASE Becomes(c, [cycle[c] EXCEPT !.at = "mark"])
      <4>1. [cycle[c] EXCEPT !.at = "mark"].at = "mark"
        BY <1>0 DEF CycleRecord
      <4> QED
        BY <3>1, <4>1
    <3>2. CASE \E to \in {"gate", "measure"} :
                 Becomes(c, [cycle[c] EXCEPT !.at = to,
                                             !.handle.next.has = live.has \cup {c}])
      <4>1. PICK to \in {"gate", "measure"} :
                 Becomes(c, [cycle[c] EXCEPT !.at = to,
                                             !.handle.next.has = live.has \cup {c}])
        BY <3>2
      <4>2. PICK y : y = [cycle[c] EXCEPT !.at = to, !.handle.next.has = live.has \cup {c}]
        OBVIOUS
      <4>3. y.at = to
        BY <1>0, <4>2 DEF CycleRecord
      <4> QED
        BY <4>1, <4>2, <4>3
    <3>3. \/ \E to \in {"gate", "measure"} :
                 Becomes(c, [cycle[c] EXCEPT !.at = to,
                                             !.handle.next.has = live.has \cup {c}])
          \/ Becomes(c, [cycle[c] EXCEPT !.at = "mark"])
      BY <1>4, ProposeIs, Zenon
    <3> QED
      BY <3>1, <3>2, <3>3, Zenon
  <2> QED
    BY <2>1, <2>2, VersionsQuiet
<1>5. ASSUME NEW c \in Cycles, NEW reading \in Measures, MeasureBefore(c, reading)
      PROVE  VersionsInv'
  <2>1. UNCHANGED <<live, version, surface, entries, overlapped>> /\ Running(c)
    BY <1>5 DEF MeasureBefore, Running
  <2>2. CASE Becomes(c, Thrown)
    BY <2>1, <2>2, VersionsThrow
  <2>3. ASSUME NEW m, Becomes(c, [cycle[c] EXCEPT !.at = "stage", !.before = m])
        PROVE  VersionsInv'
    <3>1. PICK y : y = [cycle[c] EXCEPT !.at = "stage", !.before = m]
      OBVIOUS
    <3>2. y.at = "stage"
      BY <1>0, <3>1 DEF CycleRecord
    <3> QED
      BY <2>1, <2>3, <3>1, <3>2, VersionsQuiet
  <2> QED
    BY <1>5, <2>2, <2>3, MeasureBeforeIs
<1>6. ASSUME NEW c \in Cycles, NEW reading \in Measures, Decide(c, reading)
      PROVE  VersionsInv'
  <2>1. /\ UNCHANGED <<live, version, surface, entries, overlapped>>
        /\ cycle[c].at = "trial"
    BY <1>6 DEF Decide
  <2>2. PICK m \in {Garbled, MeasureOf(live)}, v \in {"accept", "reject"} :
             Becomes(c, [cycle[c] EXCEPT !.verdict = v, !.after = m,
                              !.at = IF v = "accept" THEN "record" ELSE "restore"])
    BY <1>6, DecideIs
  <2>3. PICK y : y = [cycle[c] EXCEPT !.verdict = v, !.after = m,
                              !.at = IF v = "accept" THEN "record" ELSE "restore"]
    OBVIOUS
  <2>4. y.at \in {"record", "restore"} /\ y.handle = cycle[c].handle
    BY <1>0, <2>3 DEF CycleRecord
  <2>5. Holds(c) /\ InHand(c) /\ InForce(c) /\ Running(c)
    BY <2>1 DEF Holds, InHand, InForce, Running
  <2> QED
    BY <2>1, <2>2, <2>3, <2>4, <2>5, VersionsQuiet
<1>7. ASSUME NEW c \in Cycles, Stage(c)
      PROVE  VersionsInv'
  BY <1>7, VersionsStage
<1>8. ASSUME NEW c \in Cycles, Apply(c)
      PROVE  VersionsInv'
  <2>1. UNCHANGED <<version, surface, entries, overlapped>>
        /\ cycle[c].at \in {"apply", "persist"}
    BY <1>8 DEF Apply
  <2>2. CASE Becomes(c, Thrown) /\ UNCHANGED live
    BY <2>1, <2>2, VersionsThrow
  <2>3. CASE /\ cycle[c].at = "persist" \/ IsCurrent(c)
             /\ Becomes(c, [cycle[c] EXCEPT !.at = "trial"])
             /\ live' = cycle[c].handle.next
    BY <2>1, <2>3, VersionsApply
  <2>4. CASE /\ cycle[c].at = "apply" /\ surface = "skills"
             /\ Becomes(c, [cycle[c] EXCEPT !.at = "persist"]) /\ UNCHANGED live
    <3>1. PICK y : y = [cycle[c] EXCEPT !.at = "persist"]
      OBVIOUS
    <3>2. y.at = "persist" /\ y.handle = cycle[c].handle
      BY <1>0, <3>1 DEF CycleRecord
    <3>3. Holds(c) /\ InHand(c) /\ Running(c)
      BY <2>4 DEF Holds, InHand, Running
    <3> QED
      BY <2>1, <2>4, <3>1, <3>2, <3>3, VersionsQuiet
  <2> QED
    BY <1>8, <2>2, <2>3, <2>4, ApplyIs
<1>9. ASSUME NEW c \in Cycles, Revert(c)
      PROVE  VersionsInv'
  <2>1. UNCHANGED <<version, surface, entries, overlapped>> /\ cycle[c].at = "restore"
    BY <1>9 DEF Revert
  <2>2. CASE Becomes(c, Thrown) /\ UNCHANGED live
    BY <2>1, <2>2, VersionsThrow
  <2>3. CASE /\ IsCurrent(c) /\ Becomes(c, [cycle[c] EXCEPT !.at = "record"])
             /\ live' = cycle[c].handle.previous
    <3>1. CASE cycle[c].verdict = "reject"
      BY <2>1, <2>3, <3>1, VersionsRevert
    <3> QED
      BY <2>1, <3>1 DEF Decided
  <2> QED
    BY <1>9, <2>2, <2>3, RevertIs
<1>10. ASSUME NEW c \in Cycles, RecordVerdict(c)
       PROVE  VersionsInv'
  <2>1. UNCHANGED <<live, version, surface, overlapped>> /\ cycle[c].at = "record"
    BY <1>10 DEF RecordVerdict
  <2>2. CASE Becomes(c, Thrown) /\ UNCHANGED entries
    BY <2>1, <2>2, VersionsThrow
  <2>3. CASE /\ Becomes(c, [cycle[c] EXCEPT !.at = "mark"])
             /\ entries' = Append(entries, EntryMade(c))
    BY <2>1, <2>3, VersionsRecord
  <2> QED
    BY <1>10, <2>2, <2>3, RecordVerdictIs
<1>11. ASSUME NEW c \in Cycles, Mark(c)
       PROVE  VersionsInv'
  <2>1. UNCHANGED <<live, version, surface, entries, overlapped>>
    BY <1>11 DEF Mark
  <2> QED
    BY <1>11, <2>1, MarkIs, VersionsThrow
<1>12. CASE ImproveRestart
  <2>1. /\ \A c \in Cycles : cycle'[c].at \in {"idle", "done"}
        /\ live'.by = 1
    BY <1>12, RestartIs
  <2>2. version' = 1 /\ entries' = <<>>
    BY <1>12 DEF ImproveRestart
  <2>3. Standing' = {}
    BY <2>1, <2>2 DEF Standing, AcceptedVersions, InForce
  <2> QED
    BY <2>1, <2>2, <2>3 DEF VersionsInv, VersionIsSound, Holds, OneRuns, Running
<1> QED
  BY <1>1, <1>2, <1>3, <1>4, <1>5, <1>6, <1>7, <1>8, <1>9, <1>10, <1>11, <1>12
     DEF ImproveNext

LEMMA AcceptedStandsIs ==
    ASSUME VersionsInv
    PROVE  AcceptedStands
BY DEF VersionsInv, Guarded, Standing, AcceptedVersions, AcceptedStands

-----------------------------------------------------------------------------
(* A measurer that does not look at the live value                         *)

Blind == \A u, v \in SUBSET Cycles : quality[u] = quality[v]

\* Before and after it measures the same, which is no gain.
BlindInv ==
    Blind => /\ accepted = {}
             /\ \A c \in Cycles : /\ cycle[c].verdict # "accept"
                                  /\ cycle[c].before \in {Garbled, MeasureOf(FirstValue)}

LEMMA BlindStep ==
    ASSUME LoopTypes, Decided, BlindInv, [ImproveNext]_improveVars
    PROVE  BlindInv'
<1>0. \A c \in Cycles : cycle[c] \in CycleRecord
  BY DEF LoopTypes
<1>1. UNCHANGED quality
  BY DEF ImproveNext, improveVars, Fire, Gate, Propose, MeasureBefore, Decide, Stage, Apply,
         Revert, RecordVerdict, Mark, ImproveRestart, IntervalPasses
<1> SUFFICES ASSUME Blind
             PROVE  /\ accepted' = {}
                    /\ \A c \in Cycles :
                          /\ cycle'[c].verdict # "accept"
                          /\ cycle'[c].before \in {Garbled, MeasureOf(FirstValue)}
  BY <1>1 DEF BlindInv, Blind, MeasureOf
<1>2. /\ accepted = {}
      /\ \A c \in Cycles : /\ cycle[c].verdict # "accept"
                           /\ cycle[c].before \in {Garbled, MeasureOf(FirstValue)}
  BY DEF BlindInv
<1>3. MeasureOf(live) = MeasureOf(FirstValue)
  BY IdleIs DEF MeasureOf, Blind, LoopTypes, Value
<1>4. Thrown.verdict = "none" /\ Thrown.before = Garbled
  BY DEF Thrown, IdleCycle
\* The cycle that moved is as it should be, so all are.
<1>5. ASSUME NEW c \in Cycles, NEW y, Becomes(c, y), y.verdict # "accept",
             y.before \in {Garbled, MeasureOf(FirstValue)}, UNCHANGED accepted
      PROVE  /\ accepted' = {}
             /\ \A d \in Cycles :
                   /\ cycle'[d].verdict # "accept"
                   /\ cycle'[d].before \in {Garbled, MeasureOf(FirstValue)}
  BY <1>2, <1>5 DEF Becomes
<1>6. ASSUME NEW c \in Cycles, Becomes(c, Thrown), UNCHANGED accepted
      PROVE  /\ accepted' = {}
             /\ \A d \in Cycles :
                   /\ cycle'[d].verdict # "accept"
                   /\ cycle'[d].before \in {Garbled, MeasureOf(FirstValue)}
  BY <1>4, <1>5, <1>6
<1>7. ASSUME NEW c \in Cycles, NEW to \in Places, UNCHANGED accepted,
             Becomes(c, [cycle[c] EXCEPT !.at = to])
      PROVE  /\ accepted' = {}
             /\ \A d \in Cycles :
                   /\ cycle'[d].verdict # "accept"
                   /\ cycle'[d].before \in {Garbled, MeasureOf(FirstValue)}
  <2>1. PICK y : y = [cycle[c] EXCEPT !.at = to]
    OBVIOUS
  <2>2. y.verdict = cycle[c].verdict /\ y.before = cycle[c].before
    BY <1>0, <2>1 DEF CycleRecord
  <2> QED
    BY <1>2, <1>5, <1>7, <2>1, <2>2
<1> DEFINE Goal == /\ accepted' = {}
                   /\ \A d \in Cycles :
                         /\ cycle'[d].verdict # "accept"
                         /\ cycle'[d].before \in {Garbled, MeasureOf(FirstValue)}
<1>8. ASSUME NEW c \in Cycles, NEW yes \in BOOLEAN, Fire(c, yes) PROVE Goal
  <2>1. PICK y : y = [cycle[c] EXCEPT !.at = "propose", !.since = now]
    OBVIOUS
  <2>2. y.verdict = cycle[c].verdict /\ y.before = cycle[c].before
    BY <1>0, <2>1 DEF CycleRecord
  <2>3. Becomes(c, y) /\ UNCHANGED accepted
    BY <1>8, <2>1, FireIs DEF Fire
  <2> QED
    BY <1>2, <1>5, <2>2, <2>3
<1>9. ASSUME NEW c \in Cycles, NEW yes \in BOOLEAN, Gate(c, yes) PROVE Goal
  <2>1. UNCHANGED accepted /\ {"measure", "mark"} \subseteq Places
    BY <1>9 DEF Gate, Places
  <2> QED
    BY <1>7, <1>9, <2>1, GateMoveIs
<1>10. ASSUME NEW c \in Cycles, NEW h \in TaskHistories, NEW tripped \in BOOLEAN,
              Propose(c, h, tripped)
       PROVE  Goal
  <2>1. UNCHANGED accepted /\ "mark" \in Places
    BY <1>10 DEF Propose, Places
  <2>2. CASE \E to \in {"gate", "measure"} :
                 Becomes(c, [cycle[c] EXCEPT !.at = to,
                                             !.handle.next.has = live.has \cup {c}])
    <3>1. PICK to \in {"gate", "measure"} :
                 Becomes(c, [cycle[c] EXCEPT !.at = to,
                                             !.handle.next.has = live.has \cup {c}])
      BY <2>2
    <3>2. PICK y : y = [cycle[c] EXCEPT !.at = to, !.handle.next.has = live.has \cup {c}]
      OBVIOUS
    <3>3. y.verdict = cycle[c].verdict /\ y.before = cycle[c].before
      BY <1>0, <3>2 DEF CycleRecord
    <3> QED
      BY <1>2, <1>5, <2>1, <3>1, <3>2, <3>3
  <2>3. CASE Becomes(c, [cycle[c] EXCEPT !.at = "mark"])
    BY <1>7, <2>1, <2>3
  <2>4. \/ \E to \in {"gate", "measure"} :
                 Becomes(c, [cycle[c] EXCEPT !.at = to,
                                             !.handle.next.has = live.has \cup {c}])
        \/ Becomes(c, [cycle[c] EXCEPT !.at = "mark"])
    BY <1>10, ProposeIs, Zenon
  <2> QED
    BY <2>2, <2>3, <2>4, Zenon
<1>11. ASSUME NEW c \in Cycles, NEW reading \in Measures, MeasureBefore(c, reading) PROVE Goal
  <2>1. UNCHANGED accepted
    BY <1>11 DEF MeasureBefore
  <2>2. ASSUME NEW m \in {Garbled, MeasureOf(live)},
               Becomes(c, [cycle[c] EXCEPT !.at = "stage", !.before = m])
        PROVE  Goal
    <3>1. PICK y : y = [cycle[c] EXCEPT !.at = "stage", !.before = m]
      OBVIOUS
    <3>2. y.verdict = cycle[c].verdict /\ y.before = m
      BY <1>0, <3>1 DEF CycleRecord
    <3> QED
      BY <1>2, <1>3, <1>5, <2>1, <2>2, <3>1, <3>2
  <2> QED
    BY <1>6, <1>11, <2>1, <2>2, MeasureBeforeIs
<1>12. ASSUME NEW c \in Cycles, NEW reading \in Measures, Decide(c, reading) PROVE Goal
  <2>1. PICK m \in {Garbled, MeasureOf(live)}, v \in {"accept", "reject"} :
             /\ v = DecideOn(cycle[c].before, m)
             /\ Becomes(c, [cycle[c] EXCEPT !.verdict = v, !.after = m,
                              !.at = IF v = "accept" THEN "record" ELSE "restore"])
    BY <1>12, DecideIs
  <2>2. v # "accept"
    <3>1. SUFFICES ASSUME cycle[c].before = MeasureOf(live), m = MeasureOf(live)
                   PROVE  DecideOn(cycle[c].before, m) # "accept"
      BY <1>2, <1>3, <2>1 DEF DecideOn
    <3>2. PICK n \in Nat : n = m.objective
      BY <3>1, MeasureIs DEF LoopTypes, Measurement
    <3> QED
      BY <3>1, <3>2 DEF DecideOn
  <2>3. PICK y : y = [cycle[c] EXCEPT !.verdict = v, !.after = m,
                              !.at = IF v = "accept" THEN "record" ELSE "restore"]
    OBVIOUS
  <2>4. y.verdict = v /\ y.before = cycle[c].before
    BY <1>0, <2>3 DEF CycleRecord
  <2>5. UNCHANGED accepted
    BY <1>12 DEF Decide
  <2> QED
    BY <1>2, <1>5, <2>1, <2>2, <2>3, <2>4, <2>5
<1>13. ASSUME NEW c \in Cycles, Stage(c) PROVE Goal
  <2>1. PICK y \in CycleRecord : /\ Becomes(c, y) /\ y.before = cycle[c].before
                                 /\ y.verdict = cycle[c].verdict
    BY <1>13, StageIs
  <2> QED
    BY <1>2, <1>5, <1>13, <2>1 DEF Stage
<1>14. ASSUME NEW c \in Cycles, Apply(c) PROVE Goal
  <2>1. UNCHANGED accepted /\ {"trial", "persist"} \subseteq Places
    BY <1>14 DEF Apply, Places
  <2> QED
    BY <1>6, <1>7, <1>14, <2>1, ApplyIs
<1>15. ASSUME NEW c \in Cycles, Revert(c) PROVE Goal
  <2>1. UNCHANGED accepted /\ "record" \in Places
    BY <1>15 DEF Revert, Places
  <2> QED
    BY <1>6, <1>7, <1>15, <2>1, RevertIs
<1>16. ASSUME NEW c \in Cycles, RecordVerdict(c) PROVE Goal
  <2>1. UNCHANGED accepted
    BY <1>2, <1>16, RecordVerdictIs
  <2>2. "mark" \in Places
    BY DEF Places
  <2> QED
    BY <1>6, <1>7, <1>16, <2>1, <2>2, RecordVerdictIs
<1>17. ASSUME NEW c \in Cycles, Mark(c) PROVE Goal
  BY <1>6, <1>17, MarkIs DEF Mark
<1>18. CASE ImproveRestart
  <2>1. accepted' = accepted
    BY <1>18 DEF ImproveRestart
  <2> QED
    BY <1>2, <1>4, <1>18, <2>1, RestartIs
<1>19. CASE UNCHANGED improveVars \/ IntervalPasses
  BY <1>2, <1>19 DEF improveVars, IntervalPasses
<1> QED
  BY <1>8, <1>9, <1>10, <1>11, <1>12, <1>13, <1>14, <1>15, <1>16, <1>17, <1>18, <1>19
     DEF ImproveNext

-----------------------------------------------------------------------------
(* A loop nothing disturbs                                                 *)

\* What is measured of a value with the changes s.
Rate(q, s) == MeasureBenchmark(q[s])

\* Each of the changes s bought its gain, at no more than the tolerance.
Climbed(q, s) ==
    LET n == Cardinality(s)
    IN /\ IsFiniteSet(s)
       /\ Rate(q, s).objective >= Rate(q, {}).objective + n * Gain
       /\ Rate(q, s).objective >= Rate(q, {}).objective + n
       /\ Rate(q, s).iterations <= Rate(q, {}).iterations + n * Slack

LastIs(es, m) == es # <<>> /\ es[Len(es)].verdict = "accept" => es[Len(es)].after = m

\* A value the loop may rest on: of accepted changes that helped.
Rests(q, on, acc, es, s) ==
    /\ s \subseteq acc
    /\ on = "skills" => s = acc
    /\ Climbed(q, s)
    /\ LastIs(es, Rate(q, s))

\* The changes a cycle began with, or would go back to.
BaseOf(c) == IF InForce(c) THEN cycle[c].handle.previous.has ELSE live.has
Chosen(c) == cycle[c].at \notin {"idle", "done", "propose", "mark"}

ChangeIsSound(c) ==
    /\ Rests(quality, surface, accepted, entries, BaseOf(c))
    /\ Chosen(c) => cycle[c].handle.next.has = BaseOf(c) \cup {c}
    /\ cycle[c].at \in {"apply", "persist"} => cycle[c].handle.previous.has = live.has
    /\ InForce(c) => live.has = cycle[c].handle.next.has
    /\ cycle[c].at \in {"stage", "apply", "persist", "trial"}
           => cycle[c].before \in {Garbled, Rate(quality, BaseOf(c))}
    /\ cycle[c].at = "record" /\ cycle[c].verdict = "accept"
           => cycle[c].after = Rate(quality, live.has) /\ Climbed(quality, live.has)

\* The interval a cycle under way fired in is the last one any cycle fired in.
TurnIsSound(c) ==
    /\ cycle[c].since \in 1..MaxNow /\ cycle[c].since <= now /\ cycle[c].since > watermark
    /\ \A t \in 1..MaxNow : t > watermark /\ t # cycle[c].since => started[t] = {}

UndisturbedInv ==
    Undisturbed =>
        /\ surface = "skills" => stored.has = live.has
        /\ watermark <= now
        /\ \A t \in 1..MaxNow : Cardinality(started[t]) <= 1
        /\ AtRest => /\ Rests(quality, surface, accepted, entries, live.has)
                     /\ \A t \in 1..MaxNow : t > watermark => started[t] = {}
        /\ \A c \in Cycles : Running(c) => ChangeIsSound(c) /\ TurnIsSound(c)

LEMMA RateIs ==
    ASSUME NEW q \in Qualities, NEW s \in SUBSET Cycles
    PROVE  Rate(q, s) \in Measurement
<1>1. PICK b \in Totals : b = q[s] /\ b.cases > 0
  BY ImproveAssumption DEF ValidBenchmark
<1>2. Round2(b.passed, b.cases) \in Nat /\ Round2(b.iterations, b.cases) \in Nat
  BY <1>1, RoundIsNat DEF Totals
<1>3. MeanOfMeasured(b.cost, b.costed) \in Nat \cup {Skipped}
  BY <1>1, RoundIsNat DEF Totals, MeanOfMeasured
<1> QED
  BY <1>1, <1>2, <1>3 DEF Rate, MeasureBenchmark, Measurement

\* An accepted change climbs one step more.
LEMMA ClimbStep ==
    ASSUME NEW q \in Qualities, NEW s \in SUBSET Cycles, NEW c \in Cycles, Climbed(q, s),
           NEW b \in {Garbled, Rate(q, s)}, NEW m \in {Garbled, Rate(q, s \cup {c})},
           DecideOn(b, m) = "accept"
    PROVE  Climbed(q, s \cup {c}) /\ m = Rate(q, s \cup {c})
<1>1. PICK o0 \in Nat, i0 \in Nat : o0 = Rate(q, {}).objective /\ i0 = Rate(q, {}).iterations
  BY RateIs DEF Measurement
<1>2. PICK o1 \in Nat, i1 \in Nat : o1 = Rate(q, s).objective /\ i1 = Rate(q, s).iterations
  BY RateIs DEF Measurement
<1>3. PICK o2 \in Nat, i2 \in Nat :
        o2 = Rate(q, s \cup {c}).objective /\ i2 = Rate(q, s \cup {c}).iterations
  BY RateIs DEF Measurement
<1>4. /\ b = Rate(q, s) /\ m = Rate(q, s \cup {c})
      /\ o2 > o1 /\ o2 >= o1 + Gain /\ i2 <= i1 + Slack
  BY <1>2, <1>3 DEF DecideOn
<1>5. IsFiniteSet(s) /\ IsFiniteSet(s \cup {c})
  BY FS_AddElement DEF Climbed
<1>6. PICK n \in Nat : n = Cardinality(s)
  BY <1>5, FS_CardinalityType
<1>7. c \notin s
  <2>1. s \cup {c} # s
    <3> SUFFICES ASSUME s \cup {c} = s PROVE FALSE
      OBVIOUS
    <3>1. Rate(q, s \cup {c}) = Rate(q, s)
      OBVIOUS
    <3>2. o1 = o2
      BY <1>2, <1>3, <3>1
    <3> QED
      BY <1>4, <3>2
  <2> QED
    BY <2>1
<1>8. Cardinality(s \cup {c}) = n + 1
  BY <1>5, <1>6, <1>7, FS_AddElement
<1>9. o1 >= o0 + n * Gain /\ o1 >= o0 + n /\ i1 <= i0 + n * Slack
  BY <1>1, <1>2, <1>6 DEF Climbed
<1>10. o2 >= o0 + (n + 1) * Gain /\ o2 >= o0 + (n + 1) /\ i2 <= i0 + (n + 1) * Slack
  <2>1. \A k \in Nat : (n + 1) * k = n * k + k /\ n * k \in Nat
    OBVIOUS
  <2>2. PICK g \in Nat, w \in Nat : g = n * Gain /\ w = n * Slack
    BY <2>1, ImproveAssumption
  <2>3. (n + 1) * Gain = g + Gain /\ (n + 1) * Slack = w + Slack
    BY <2>1, <2>2, ImproveAssumption
  <2>4. Gain \in Nat /\ Slack \in Nat
    BY ImproveAssumption
  <2> QED
    BY <1>4, <1>9, <2>2, <2>3, <2>4
<1> QED
  BY <1>1, <1>3, <1>4, <1>5, <1>8, <1>10 DEF Climbed

LEMMA FirstClimbed ==
    ASSUME NEW q \in Qualities
    PROVE  Climbed(q, {})
<1>1. PICK o0 \in Nat, i0 \in Nat : o0 = Rate(q, {}).objective /\ i0 = Rate(q, {}).iterations
  BY RateIs DEF Measurement
<1>2. IsFiniteSet({}) /\ Cardinality({}) = 0
  BY FS_EmptySet
<1>3. 0 * Gain = 0 /\ 0 * Slack = 0
  BY ImproveAssumption
<1> QED
  BY <1>1, <1>2, <1>3 DEF Climbed

LEMMA UndisturbedBegins ==
    ASSUME ImproveInit
    PROVE  UndisturbedInv
<1>1. \A c \in Cycles : cycle[c].at = "idle"
  BY DEF ImproveInit, IdleCycle
<1>2. live.has = {} /\ stored.has = {} /\ accepted = {} /\ entries = <<>>
      /\ quality \in Qualities
  BY DEF ImproveInit, FirstValue
<1>3. Rests(quality, surface, accepted, entries, live.has)
  BY <1>2, FirstClimbed DEF Rests, LastIs
<1>4. \A t \in 1..MaxNow : started[t] = {} /\ Cardinality(started[t]) <= 1
  BY FS_EmptySet DEF ImproveInit
<1>5. watermark <= now
  BY DEF ImproveInit, Never
<1> QED
  BY <1>1, <1>2, <1>3, <1>4, <1>5 DEF UndisturbedInv, Running

\* A step by the one cycle that runs, which does not end and disturbs nothing.
LEMMA OnlyCycleStep ==
    ASSUME LoopTypes, VersionsInv, UndisturbedInv, NEW c \in Cycles, NEW y, Becomes(c, y),
           Running(c), UNCHANGED <<now, watermark, started, overlapped, escaped, surface>>,
           y.at \notin {"idle", "done"}, y.since = cycle[c].since,
           Undisturbed => (surface = "skills" => stored'.has = live'.has) /\ ChangeIsSound(c)'
    PROVE  UndisturbedInv'
<1> SUFFICES ASSUME Undisturbed PROVE UndisturbedInv'
  BY DEF UndisturbedInv, Undisturbed
<1>1. \A d \in Cycles : Running(d)' => d = c
  BY DEF Becomes, VersionsInv, OneRuns, Running, Undisturbed
<1>2. Running(c)'
  BY DEF Becomes, Running
<1>3. TurnIsSound(c)'
  BY DEF Becomes, UndisturbedInv, TurnIsSound
<1> QED
  BY <1>1, <1>2, <1>3 DEF UndisturbedInv, AtRest, Undisturbed

\* A cycle that throws, or that fires beside another, is a disturbance.
LEMMA DisturbedIs ==
    ASSUME escaped' \/ overlapped'
    PROVE  UndisturbedInv'
BY DEF UndisturbedInv, Undisturbed

\* A cycle that fires alone begins with a value at rest, in an interval of its own.
LEMMA FireKeepsRest ==
    ASSUME LoopTypes, UndisturbedInv, NEW c \in Cycles, NEW readable \in BOOLEAN,
           Fire(c, readable)
    PROVE  UndisturbedInv'
<1> SUFFICES ASSUME ~escaped', ~overlapped'
             PROVE  UndisturbedInv'
  BY DisturbedIs DEF LoopTypes
<1>1. /\ cycle[c].at = "idle" /\ AtRest /\ readable /\ Undisturbed
      /\ started' = [started EXCEPT ![now] = @ \cup {c}]
      /\ UNCHANGED <<quality, surface, live, stored, entries, now, watermark, accepted>>
  BY DEF Fire, Undisturbed
<1>2. now \in 1..MaxNow /\ watermark \in 0..MaxNow /\ cycle[c] \in CycleRecord
      /\ started \in [1..MaxNow -> SUBSET Cycles]
  BY DEF LoopTypes
<1>3. now > watermark
  BY <1>1, <1>2 DEF Fire, IsCycleDue, Never
<1>4. started'[now] = {c} /\ \A t \in 1..MaxNow : t # now => started'[t] = started[t]
  BY <1>1, <1>2, <1>3 DEF UndisturbedInv
<1>5. \A t \in 1..MaxNow : Cardinality(started'[t]) <= 1
  <2>1. Cardinality({c}) = 1
    BY FS_Singleton
  <2> QED
    BY <1>1, <1>4, <2>1 DEF UndisturbedInv
<1>6. PICK y : y = [cycle[c] EXCEPT !.at = "propose", !.since = now]
  OBVIOUS
<1>7. /\ y.at = "propose" /\ y.since = now
      /\ cycle'[c] = y /\ \A d \in Cycles : d # c => cycle'[d] = cycle[d]
  BY <1>2, <1>6, FireIs DEF Becomes, CycleRecord
<1>8. \A d \in Cycles : Running(d)' => d = c
  BY <1>1, <1>7 DEF AtRest, Running
<1>9. TurnIsSound(c)'
  BY <1>1, <1>2, <1>3, <1>4, <1>7 DEF TurnIsSound, UndisturbedInv
<1>10. ChangeIsSound(c)'
  BY <1>1, <1>7 DEF ChangeIsSound, UndisturbedInv, BaseOf, InForce, Chosen
<1>11. ~AtRest'
  BY <1>7 DEF AtRest, Running
<1> QED
  BY <1>1, <1>5, <1>8, <1>9, <1>10, <1>11 DEF UndisturbedInv

\* A cycle that is done leaves what it ended with at rest.
LEMMA MarkKeepsRest ==
    ASSUME LoopTypes, VersionsInv, UndisturbedInv, NEW c \in Cycles, Mark(c)
    PROVE  UndisturbedInv'
<1> SUFFICES ASSUME ~escaped', ~overlapped'
             PROVE  UndisturbedInv'
  BY DisturbedIs DEF LoopTypes
<1>1. /\ Becomes(c, Thrown) /\ watermark' = cycle[c].since
      /\ cycle[c].at = "mark" /\ Undisturbed
      /\ UNCHANGED <<quality, surface, live, stored, entries, now, accepted, started>>
  BY MarkIs DEF Mark, Undisturbed
<1>2. Running(c) /\ Thrown.at = "done"
  BY <1>1 DEF Running, Thrown, IdleCycle
<1>3. \A d \in Cycles : ~Running(d)'
  BY <1>1, <1>2 DEF Becomes, VersionsInv, OneRuns, Running, Undisturbed
<1>4. ChangeIsSound(c) /\ TurnIsSound(c)
  BY <1>1, <1>2 DEF UndisturbedInv
<1>5. Rests(quality, surface, accepted, entries, live.has)
  BY <1>1, <1>4 DEF ChangeIsSound, BaseOf, InForce
<1>6. \A t \in 1..MaxNow : t > watermark' => started[t] = {}
  <2>1. watermark \in 0..MaxNow
    BY DEF LoopTypes
  <2> QED
    BY <1>1, <1>4, <2>1 DEF TurnIsSound
<1> QED
  BY <1>1, <1>3, <1>4, <1>5, <1>6 DEF UndisturbedInv, TurnIsSound

\* Up to the staging a cycle only plans a change of what is live.
LEMMA PlanKeepsRest ==
    ASSUME LoopTypes, VersionsInv, UndisturbedInv, NEW c \in Cycles,
           NEW y, Becomes(c, y),
           cycle[c].at \in {"propose", "gate", "measure"},
           y.at \in {"gate", "measure", "stage", "mark"}, y.since = cycle[c].since,
           Chosen(c) => y.handle.next.has = cycle[c].handle.next.has,
           ~Chosen(c) => y.at = "mark" \/ y.handle.next.has = live.has \cup {c},
           y.at = "stage" => y.before \in {Garbled, MeasureOf(live)},
           UNCHANGED <<quality, surface, live, stored, entries, now, watermark, accepted,
                       started, overlapped, escaped>>
    PROVE  UndisturbedInv'
<1>1. Running(c) /\ y.at \notin {"idle", "done"}
  BY DEF Running
<1>2. ASSUME Undisturbed
      PROVE  (surface = "skills" => stored'.has = live'.has) /\ ChangeIsSound(c)'
  <2>1. ChangeIsSound(c) /\ (surface = "skills" => stored.has = live.has)
    BY <1>1, <1>2 DEF UndisturbedInv
  <2>2. cycle'[c] = y
    BY DEF Becomes
  <2>3. BaseOf(c) = live.has /\ BaseOf(c)' = live.has
    BY <2>2 DEF BaseOf, InForce
  <2>4. MeasureOf(live) = Rate(quality, live.has)
    BY DEF MeasureOf, Rate
  <2>5. Chosen(c)' => cycle'[c].handle.next.has = live.has \cup {c}
    BY <2>1, <2>2, <2>3 DEF ChangeIsSound, Chosen
  <2> QED
    BY <2>1, <2>2, <2>3, <2>4, <2>5 DEF ChangeIsSound, InForce
<1> QED
  BY <1>1, <1>2, OnlyCycleStep

LEMMA StageKeepsRest ==
    ASSUME LoopTypes, VersionsInv, UndisturbedInv, NEW c \in Cycles, Stage(c)
    PROVE  UndisturbedInv'
<1>1. PICK y \in CycleRecord :
             /\ Becomes(c, y)
             /\ y.at = "apply" /\ y.before = cycle[c].before
             /\ y.verdict = cycle[c].verdict /\ y.since = cycle[c].since
             /\ y.handle.version = version + 1 /\ y.handle.previous = live
             /\ y.handle.next.by = version + 1
             /\ y.handle.next.has = cycle[c].handle.next.has
  BY StageIs
<1>2. cycle[c].at = "stage" /\ Running(c)
      /\ UNCHANGED <<quality, surface, live, stored, entries, now, watermark, accepted,
                     started, overlapped, escaped>>
  BY DEF Stage, Running
<1>3. ASSUME Undisturbed
      PROVE  (surface = "skills" => stored'.has = live'.has) /\ ChangeIsSound(c)'
  <2>1. ChangeIsSound(c) /\ (surface = "skills" => stored.has = live.has)
    BY <1>2, <1>3 DEF UndisturbedInv
  <2>2. cycle'[c] = y
    BY <1>1 DEF Becomes
  <2>3. BaseOf(c) = live.has /\ BaseOf(c)' = live.has
    BY <1>1, <1>2, <2>2 DEF BaseOf, InForce
  <2> QED
    BY <1>1, <1>2, <2>1, <2>2, <2>3 DEF ChangeIsSound, InForce, Chosen
<1> QED
  BY <1>1, <1>2, <1>3, OnlyCycleStep

LEMMA ApplyKeepsRest ==
    ASSUME LoopTypes, VersionsInv, UndisturbedInv, NEW c \in Cycles, Apply(c)
    PROVE  UndisturbedInv'
<1>1. cycle[c] \in CycleRecord /\ cycle[c].at \in {"apply", "persist"} /\ Running(c)
      /\ UNCHANGED <<quality, surface, entries, now, watermark, accepted,
                     started, overlapped>>
  BY DEF Apply, Running, LoopTypes
<1>2. CASE escaped'
  BY <1>2, DisturbedIs
<1>3. CASE /\ Becomes(c, [cycle[c] EXCEPT !.at = "trial"])
           /\ live' = cycle[c].handle.next /\ UNCHANGED escaped
           /\ surface = "skills" => stored' = live'
  <2>1. PICK y : y = [cycle[c] EXCEPT !.at = "trial"]
    OBVIOUS
  <2>2. /\ y.at = "trial" /\ y.handle = cycle[c].handle /\ y.since = cycle[c].since
        /\ y.before = cycle[c].before /\ cycle'[c] = y
    BY <1>1, <1>3, <2>1 DEF CycleRecord, Becomes
  <2>3. ASSUME Undisturbed
        PROVE  (surface = "skills" => stored'.has = live'.has) /\ ChangeIsSound(c)'
    <3>1. ChangeIsSound(c)
      BY <1>1, <2>3 DEF UndisturbedInv
    <3>2. BaseOf(c) = live.has /\ BaseOf(c)' = live.has
      BY <1>1, <2>2, <3>1 DEF BaseOf, InForce, ChangeIsSound
    <3> QED
      BY <1>1, <1>3, <2>2, <3>1, <3>2 DEF ChangeIsSound, InForce, Chosen
  <2> QED
    BY <1>1, <1>3, <2>1, <2>2, <2>3, OnlyCycleStep
<1>4. CASE /\ cycle[c].at = "apply"
           /\ Becomes(c, [cycle[c] EXCEPT !.at = "persist"])
           /\ UNCHANGED <<live, stored, escaped>>
  <2>1. PICK y : y = [cycle[c] EXCEPT !.at = "persist"]
    OBVIOUS
  <2>2. /\ y.at = "persist" /\ y.handle = cycle[c].handle /\ y.since = cycle[c].since
        /\ y.before = cycle[c].before /\ cycle'[c] = y
    BY <1>1, <1>4, <2>1 DEF CycleRecord, Becomes
  <2>3. ASSUME Undisturbed
        PROVE  (surface = "skills" => stored'.has = live'.has) /\ ChangeIsSound(c)'
    <3>1. ChangeIsSound(c) /\ (surface = "skills" => stored.has = live.has)
      BY <1>1, <2>3 DEF UndisturbedInv
    <3>2. BaseOf(c) = live.has /\ BaseOf(c)' = live.has
      BY <1>1, <1>4, <2>2 DEF BaseOf, InForce
    <3> QED
      BY <1>1, <1>4, <2>2, <3>1, <3>2 DEF ChangeIsSound, InForce, Chosen
  <2> QED
    BY <1>1, <1>4, <2>1, <2>2, <2>3, OnlyCycleStep
<1> QED
  BY <1>1, <1>2, <1>3, <1>4, ApplyIs

LEMMA DecideKeepsRest ==
    ASSUME LoopTypes, VersionsInv, UndisturbedInv, NEW c \in Cycles, NEW reading \in Measures,
           Decide(c, reading)
    PROVE  UndisturbedInv'
<1>1. cycle[c] \in CycleRecord /\ cycle[c].at = "trial" /\ Running(c)
      /\ live \in Value /\ quality \in Qualities
      /\ UNCHANGED <<quality, surface, live, stored, entries, now, watermark, accepted,
                     started, overlapped, escaped>>
  BY DEF Decide, Running, LoopTypes
<1>2. PICK m \in {Garbled, MeasureOf(live)}, v \in {"accept", "reject"} :
             /\ v = DecideOn(cycle[c].before, m)
             /\ Becomes(c, [cycle[c] EXCEPT !.verdict = v, !.after = m,
                              !.at = IF v = "accept" THEN "record" ELSE "restore"])
  BY DecideIs
<1>3. PICK y : y = [cycle[c] EXCEPT !.verdict = v, !.after = m,
                              !.at = IF v = "accept" THEN "record" ELSE "restore"]
  OBVIOUS
<1>4. /\ y.at = IF v = "accept" THEN "record" ELSE "restore"
      /\ y.verdict = v /\ y.after = m
      /\ y.handle = cycle[c].handle /\ y.since = cycle[c].since /\ cycle'[c] = y
  BY <1>1, <1>2, <1>3 DEF CycleRecord, Becomes
<1>5. ASSUME Undisturbed
      PROVE  (surface = "skills" => stored'.has = live'.has) /\ ChangeIsSound(c)'
  <2>1. ChangeIsSound(c) /\ (surface = "skills" => stored.has = live.has)
    BY <1>1, <1>5 DEF UndisturbedInv
  <2>2. InForce(c) /\ InForce(c)' /\ Chosen(c)
    BY <1>1, <1>4 DEF InForce, Chosen
  <2>3. BaseOf(c) = cycle[c].handle.previous.has /\ BaseOf(c)' = cycle[c].handle.previous.has
    BY <1>4, <2>2 DEF BaseOf
  <2>4. PICK s \in SUBSET Cycles : s = cycle[c].handle.previous.has
    BY <1>1 DEF CycleRecord, Value
  <2>5. live.has = s \cup {c}
    BY <2>1, <2>2, <2>3, <2>4 DEF ChangeIsSound
  <2>6. v = "accept" => m = Rate(quality, live.has) /\ Climbed(quality, live.has)
    <3>1. MeasureOf(live) = Rate(quality, s \cup {c})
      BY <2>5 DEF MeasureOf, Rate
    <3>2. Climbed(quality, s) /\ cycle[c].before \in {Garbled, Rate(quality, s)}
      BY <1>1, <2>1, <2>3, <2>4 DEF ChangeIsSound, Rests
    <3>3. v = "accept" => Climbed(quality, s \cup {c}) /\ m = Rate(quality, s \cup {c})
      BY <1>1, <1>2, <2>4, <3>1, <3>2, ClimbStep
    <3> QED
      BY <2>5, <3>3
  <2> QED
    BY <1>1, <1>4, <2>1, <2>2, <2>3, <2>6 DEF ChangeIsSound, Chosen
<1> QED
  BY <1>1, <1>2, <1>3, <1>4, <1>5, OnlyCycleStep

LEMMA RevertKeepsRest ==
    ASSUME LoopTypes, Decided, VersionsInv, UndisturbedInv, NEW c \in Cycles, Revert(c)
    PROVE  UndisturbedInv'
<1>1. cycle[c] \in CycleRecord /\ cycle[c].at = "restore" /\ Running(c)
      /\ cycle[c].verdict = "reject"
      /\ UNCHANGED <<quality, surface, entries, now, watermark, accepted,
                     started, overlapped>>
  BY DEF Revert, Running, LoopTypes, Decided
<1>2. CASE escaped'
  BY <1>2, DisturbedIs
<1>3. CASE /\ Becomes(c, [cycle[c] EXCEPT !.at = "record"])
           /\ live' = cycle[c].handle.previous /\ UNCHANGED escaped
           /\ surface = "skills" => stored' = live'
  <2>1. PICK y : y = [cycle[c] EXCEPT !.at = "record"]
    OBVIOUS
  <2>2. /\ y.at = "record" /\ y.handle = cycle[c].handle /\ y.since = cycle[c].since
        /\ y.verdict = "reject" /\ cycle'[c] = y
    BY <1>1, <1>3, <2>1 DEF CycleRecord, Becomes
  <2>3. ASSUME Undisturbed
        PROVE  (surface = "skills" => stored'.has = live'.has) /\ ChangeIsSound(c)'
    <3>1. ChangeIsSound(c)
      BY <1>1, <2>3 DEF UndisturbedInv
    <3>2. BaseOf(c) = cycle[c].handle.previous.has
          /\ BaseOf(c)' = cycle[c].handle.previous.has
      BY <1>1, <1>3, <2>2 DEF BaseOf, InForce
    <3> QED
      BY <1>1, <1>3, <2>2, <3>1, <3>2 DEF ChangeIsSound, InForce, Chosen
  <2> QED
    BY <1>1, <1>3, <2>1, <2>2, <2>3, OnlyCycleStep
<1> QED
  BY <1>1, <1>2, <1>3, RevertIs

LEMMA RecordKeepsRest ==
    ASSUME LoopTypes, Decided, VersionsInv, UndisturbedInv, NEW c \in Cycles,
           RecordVerdict(c)
    PROVE  UndisturbedInv'
<1>1. cycle[c] \in CycleRecord /\ cycle[c].at = "record" /\ Running(c)
      /\ cycle[c].verdict \in {"accept", "reject"}
      /\ UNCHANGED <<quality, surface, live, stored, now, watermark, started, overlapped>>
  BY DEF RecordVerdict, Running, LoopTypes, Decided
<1>2. CASE escaped'
  BY <1>2, DisturbedIs
<1>3. CASE /\ Becomes(c, [cycle[c] EXCEPT !.at = "mark"]) /\ UNCHANGED escaped
           /\ entries' = Append(entries, EntryMade(c))
           /\ accepted' = IF cycle[c].verdict = "accept" THEN accepted \cup {c} ELSE accepted
  <2>1. PICK y : y = [cycle[c] EXCEPT !.at = "mark"]
    OBVIOUS
  <2>2. y.at = "mark" /\ y.since = cycle[c].since /\ cycle'[c] = y
    BY <1>1, <1>3, <2>1 DEF CycleRecord, Becomes
  <2>3. /\ entries' # <<>> /\ entries'[Len(entries')].verdict = cycle[c].verdict
        /\ entries'[Len(entries')].after = cycle[c].after
    <3>1. entries \in Seq(ImproveEntry) /\ EntryMade(c) \in ImproveEntry
      BY <1>1 DEF LoopTypes, EntryMade, ImproveEntry, CycleRecord
    <3>2. entries' # <<>> /\ entries'[Len(entries')] = EntryMade(c)
      BY <1>3, <3>1
    <3> QED
      BY <3>2 DEF EntryMade
  <2>4. ASSUME Undisturbed
        PROVE  (surface = "skills" => stored'.has = live'.has) /\ ChangeIsSound(c)'
    <3>1. ChangeIsSound(c) /\ (surface = "skills" => stored.has = live.has)
      BY <1>1, <2>4 DEF UndisturbedInv
    <3>2. BaseOf(c)' = live.has
      BY <1>1, <2>2 DEF BaseOf, InForce
    <3>3. Rests(quality, surface, accepted', entries', live.has)
      <4>1. CASE cycle[c].verdict = "accept"
        <5>1. /\ InForce(c) /\ BaseOf(c) = cycle[c].handle.previous.has
              /\ Chosen(c)
          BY <1>1, <4>1 DEF InForce, BaseOf, Chosen
        <5>2. live.has = BaseOf(c) \cup {c}
          BY <3>1, <5>1 DEF ChangeIsSound
        <5>3. Climbed(quality, live.has) /\ cycle[c].after = Rate(quality, live.has)
          BY <1>1, <3>1, <4>1 DEF ChangeIsSound
        <5>4. /\ BaseOf(c) \subseteq accepted
              /\ surface = "skills" => BaseOf(c) = accepted
          BY <3>1 DEF ChangeIsSound, Rests
        <5> QED
          BY <1>3, <2>3, <4>1, <5>2, <5>3, <5>4 DEF Rests, LastIs
      <4>2. CASE cycle[c].verdict = "reject"
        <5>1. BaseOf(c) = live.has
          BY <1>1, <4>2 DEF InForce, BaseOf
        <5> QED
          BY <1>3, <2>3, <3>1, <4>2, <5>1 DEF ChangeIsSound, Rests, LastIs
      <4> QED
        BY <1>1, <4>1, <4>2
    <3> QED
      BY <1>1, <2>2, <3>1, <3>2, <3>3 DEF ChangeIsSound, InForce, Chosen
  <2> QED
    BY <1>1, <1>3, <2>1, <2>2, <2>4, OnlyCycleStep
<1> QED
  BY <1>1, <1>2, <1>3, RecordVerdictIs

LEMMA UndisturbedStep ==
    ASSUME LoopTypes, Decided, VersionsInv, UndisturbedInv, [ImproveNext]_improveVars
    PROVE  UndisturbedInv'
<1>0. \A c \in Cycles : cycle[c] \in CycleRecord
  BY DEF LoopTypes
<1>1. CASE UNCHANGED improveVars \/ IntervalPasses
  <2>1. /\ UNCHANGED <<quality, surface, live, stored, cycle, entries, watermark, accepted,
                       started, overlapped, escaped>>
        /\ now' \in Nat /\ now' >= now /\ now \in Nat
    BY <1>1 DEF improveVars, IntervalPasses, LoopTypes
  <2>2. \A c \in Cycles : /\ Running(c)' <=> Running(c)
                          /\ ChangeIsSound(c) => ChangeIsSound(c)'
    BY <2>1 DEF Running, ChangeIsSound, BaseOf, InForce, Chosen
  <2>3. \A c \in Cycles : TurnIsSound(c) => TurnIsSound(c)'
    BY <2>1 DEF TurnIsSound
  <2>4. watermark \in Nat
    BY DEF LoopTypes
  <2> QED
    BY <2>1, <2>2, <2>3, <2>4 DEF UndisturbedInv, Undisturbed, AtRest
<1>2. ASSUME NEW c \in Cycles, NEW yes \in BOOLEAN, Gate(c, yes)
      PROVE  UndisturbedInv'
  <2>1. PICK to \in {"measure", "mark"} : Becomes(c, [cycle[c] EXCEPT !.at = to])
    BY <1>2, GateMoveIs
  <2>2. PICK y : y = [cycle[c] EXCEPT !.at = to]
    OBVIOUS
  <2>3. y.at = to /\ y.since = cycle[c].since /\ y.handle = cycle[c].handle
    BY <1>0, <2>2 DEF CycleRecord
  <2>4. /\ cycle[c].at = "gate" /\ Chosen(c)
        /\ UNCHANGED <<quality, surface, live, stored, entries, now, watermark, accepted,
                       started, overlapped, escaped>>
    BY <1>2 DEF Gate, Chosen
  <2> QED
    BY <2>1, <2>2, <2>3, <2>4, PlanKeepsRest
<1>3. ASSUME NEW c \in Cycles, NEW h \in TaskHistories, NEW tripped \in BOOLEAN,
             Propose(c, h, tripped)
      PROVE  UndisturbedInv'
  <2>1. /\ cycle[c].at = "propose" /\ ~Chosen(c)
        /\ UNCHANGED <<quality, surface, live, stored, entries, now, watermark, accepted,
                       started, overlapped, escaped>>
    BY <1>3 DEF Propose, Chosen
  <2>2. CASE Becomes(c, [cycle[c] EXCEPT !.at = "mark"])
    <3>1. PICK y : y = [cycle[c] EXCEPT !.at = "mark"]
      OBVIOUS
    <3>2. y.at = "mark" /\ y.since = cycle[c].since
      BY <1>0, <3>1 DEF CycleRecord
    <3> QED
      BY <2>1, <2>2, <3>1, <3>2, PlanKeepsRest
  <2>3. CASE \E to \in {"gate", "measure"} :
                 Becomes(c, [cycle[c] EXCEPT !.at = to,
                                             !.handle.next.has = live.has \cup {c}])
    <3>1. PICK to \in {"gate", "measure"} :
                 Becomes(c, [cycle[c] EXCEPT !.at = to,
                                             !.handle.next.has = live.has \cup {c}])
      BY <2>3
    <3>2. PICK y : y = [cycle[c] EXCEPT !.at = to, !.handle.next.has = live.has \cup {c}]
      OBVIOUS
    <3>3. /\ y.at = to /\ y.since = cycle[c].since
          /\ y.handle.next.has = live.has \cup {c}
      <4>1. cycle[c].handle \in [version : Nat, previous : Value, next : Value]
        BY <1>0 DEF CycleRecord
      <4> QED
        BY <1>0, <3>2, <4>1 DEF CycleRecord, Value
    <3> QED
      BY <2>1, <3>1, <3>2, <3>3, PlanKeepsRest
  <2>4. \/ \E to \in {"gate", "measure"} :
                 Becomes(c, [cycle[c] EXCEPT !.at = to,
                                             !.handle.next.has = live.has \cup {c}])
        \/ Becomes(c, [cycle[c] EXCEPT !.at = "mark"])
    BY <1>3, ProposeIs, Zenon
  <2> QED
    BY <2>2, <2>3, <2>4, Zenon
<1>4. ASSUME NEW c \in Cycles, NEW reading \in Measures, MeasureBefore(c, reading)
      PROVE  UndisturbedInv'
  <2>1. /\ cycle[c].at = "measure" /\ Chosen(c)
        /\ UNCHANGED <<quality, surface, live, stored, entries, now, watermark, accepted,
                       started, overlapped>>
    BY <1>4 DEF MeasureBefore, Chosen
  <2>2. CASE escaped' = TRUE
    BY <2>2, DisturbedIs
  <2>3. ASSUME NEW m \in {Garbled, MeasureOf(live)}, UNCHANGED escaped,
               Becomes(c, [cycle[c] EXCEPT !.at = "stage", !.before = m])
        PROVE  UndisturbedInv'
    <3>1. PICK y : y = [cycle[c] EXCEPT !.at = "stage", !.before = m]
      OBVIOUS
    <3>2. /\ y.at = "stage" /\ y.before = m /\ y.since = cycle[c].since
          /\ y.handle = cycle[c].handle
      BY <1>0, <3>1 DEF CycleRecord
    <3> QED
      BY <2>1, <2>3, <3>1, <3>2, PlanKeepsRest
  <2> QED
    BY <1>4, <2>2, <2>3, MeasureBeforeIs
<1>5. CASE ImproveRestart
  <2> SUFFICES ASSUME ~escaped', ~overlapped' PROVE UndisturbedInv'
    BY DisturbedIs DEF LoopTypes
  <2>1. /\ UNCHANGED <<quality, surface, now, watermark, accepted, started>>
        /\ entries' = <<>> /\ Undisturbed /\ AtRest
    BY <1>5 DEF ImproveRestart, Undisturbed
  <2>2. /\ stored'.has = stored.has
        /\ surface = "skills" => live'.has = stored.has
        /\ surface = "bound" => live'.has = {}
        /\ \A c \in Cycles : ~Running(c)'
    BY <1>5, RestartIs DEF FirstValue, Running
  <2>3. surface \in {"bound", "skills"} /\ quality \in Qualities
    BY DEF LoopTypes, Surfaces
  <2>4. Rests(quality, surface, accepted, entries', live'.has)
    <3>1. Rests(quality, surface, accepted, entries, live.has)
          /\ (surface = "skills" => stored.has = live.has)
      BY <2>1 DEF UndisturbedInv
    <3>2. CASE surface = "skills"
      BY <2>1, <2>2, <3>1, <3>2 DEF Rests, LastIs
    <3>3. CASE surface = "bound"
      BY <2>1, <2>2, <2>3, <3>3, FirstClimbed DEF Rests, LastIs
    <3> QED
      BY <2>3, <3>2, <3>3
  <2> QED
    BY <2>1, <2>2, <2>4 DEF UndisturbedInv
<1> QED
  BY <1>1, <1>2, <1>3, <1>4, <1>5, FireKeepsRest, MarkKeepsRest, StageKeepsRest,
     ApplyKeepsRest, DecideKeepsRest, RevertKeepsRest, RecordKeepsRest DEF ImproveNext

-----------------------------------------------------------------------------
(* The loop                                                                *)

\* What a cycle holds may always stand, and what an undisturbed loop rests on
\* was accepted and climbed.
ImproveInv == LoopTypes /\ Decided /\ VersionsInv /\ BlindInv /\ UndisturbedInv

LEMMA ImproveBegins ==
    ASSUME ImproveInit
    PROVE  ImproveInv
<1>1. BlindInv
  <2>1. \A c \in Cycles : cycle[c].verdict = "none" /\ cycle[c].before = Garbled
    BY DEF ImproveInit, IdleCycle
  <2> QED
    BY <2>1 DEF BlindInv, ImproveInit
<1> QED
  BY <1>1, LoopBegins, VersionsBegin, UndisturbedBegins DEF ImproveInv

LEMMA ImproveStep ==
    ASSUME ImproveInv, [ImproveNext]_improveVars
    PROVE  ImproveInv'
BY LoopTypesStep, VersionsStep, BlindStep, UndisturbedStep DEF ImproveInv

LEMMA LoopIsGood ==
    ASSUME ImproveInv
    PROVE  KeptIsAccepted
<1>1. LiveIsAccepted
  BY DEF ImproveInv, UndisturbedInv, LiveIsAccepted, Rests
<1>2. AcceptedStands
  BY AcceptedStandsIs DEF ImproveInv
<1>3. \A v : MeasureOf(v) = Rate(quality, v.has)
  BY DEF MeasureOf, Rate
<1>4. LoopClimbs
  <2>1. FirstValue.has = {}
    BY DEF FirstValue
  <2>2. AtRest /\ Undisturbed => Climbed(quality, live.has)
    BY DEF ImproveInv, UndisturbedInv, Rests
  <2>3. Blind => accepted = {}
    BY DEF ImproveInv, BlindInv
  <2> QED
    BY <1>3, <2>1, <2>2, <2>3 DEF LoopClimbs, Climbed, Blind
<1>5. TrendIsLive
  <2> SUFFICES ASSUME AtRest, Undisturbed, entries # <<>>,
                      entries[Len(entries)].verdict = "accept"
               PROVE  ObjectiveTrend.last = MeasureOf(live).objective
    BY DEF TrendIsLive
  <2>1. entries[Len(entries)].after = Rate(quality, live.has)
    BY DEF ImproveInv, UndisturbedInv, Rests, LastIs
  <2> QED
    BY <1>3, <2>1 DEF ObjectiveTrend
<1> QED
  BY <1>1, <1>2, <1>4, <1>5 DEF KeptIsAccepted

-----------------------------------------------------------------------------
(* The operator's gate                                                     *)

OrderRecord == [at : {"idle", "load", "save", "done"}, ask : OrderAsks,
                until : Nat \cup {NoExpiry}, seen : Arrays, handle : BOOLEAN]
ConsultRecord == [answer : {"none", "approved", "declined"}, about : GateTargets,
                  on : Decision \cup {Unarmed}, asked : Decision \cup {Unarmed}, at : Nat]

\* What an order may write: it was let through, and its expiry is no further
\* off than the horizon.
MayStand(ask, until) ==
    /\ ask.verb = "allow" /\ ask.about \in Widenings => ask.named
    /\ until # NoExpiry => until <= hour + Horizon

\* A decision an order that is done took on this target.
StandsFor(d, t) ==
    d # Unarmed =>
        LET by == order[d.by]
        IN /\ by.at = "done" /\ by.ask.about = t /\ by.ask.verb = d.answer
           /\ MayStand(by.ask, d.until)

\* The orders under way: what each would write, and what it has read.
Writing(o) == order[o].at \in {"load", "save"}
OrderIsSound(o) ==
    /\ Writing(o) => MayStand(order[o].ask, order[o].until)
    /\ \A t \in GateTargets : StandsFor(order[o].seen[t], t)
    /\ ~ordersMet /\ order[o].at = "save" /\ order[o].handle =>
           \A t \in GateTargets :
               /\ order[o].seen[t] \in {decisions[t], Unarmed}
               /\ ~blanked => order[o].seen[t] = decisions[t]

OneWrites == \A o, p \in Orders : Writing(o) /\ Writing(p) => o = p

ConsultIsSound(x) ==
    x.answer = "approved" =>
        /\ x.on # Unarmed /\ x.on.answer = "allow"
        /\ order[x.on.by].at = "done" /\ order[x.on.by].ask.about = x.about
        /\ x.on.until # NoExpiry => x.at < x.on.until
        /\ ~ordersMet => x.on = x.asked

GateInv ==
    /\ GateTypeOK
    /\ \A t \in GateTargets : StandsFor(decisions[t], t)
    /\ \A o \in Orders : OrderIsSound(o)
    /\ ~ordersMet => OneWrites
    /\ StoreFollowsOrders
    /\ \A k \in Consults : ConsultIsSound(consult[k])

LEMMA NoneIs ==
    /\ NoDecisions \in Arrays
    /\ NoAsk \in OrderAsks
    /\ IdleOrder \in OrderRecord /\ IdleConsult \in ConsultRecord
    /\ \A t \in GateTargets : NoDecisions[t] = Unarmed
<1>1. PICK a \in GateTargets : a = CHOOSE t \in GateTargets : TRUE
  BY GateAssumption
<1>2. NoAsk = [verb |-> "clear", about |-> a, named |-> FALSE] /\ NoAsk \in OrderAsks
  BY <1>1 DEF NoAsk, OrderAsks
<1>3. NoDecisions \in Arrays
  BY DEF NoDecisions, Arrays
<1> QED
  BY <1>1, <1>2, <1>3 DEF IdleOrder, IdleConsult, OrderRecord, ConsultRecord, NoDecisions

LEMMA GateBegins ==
    ASSUME GateInit
    PROVE  GateInv
<1>1. opened \in {"console", "sqlite", "thrown"}
  BY Zenon DEF GateInit, CreateStateStore
<1>2. GateTypeOK
  BY <1>1, NoneIs DEF GateInit, GateTypeOK, OrderRecord, ConsultRecord
<1>3. \A o \in Orders : order[o] = IdleOrder
  BY DEF GateInit
<1>4. \A o \in Orders : ~Writing(o) /\ OrderIsSound(o)
  <2> TAKE o \in Orders
  <2>1. order[o].at = "idle" /\ order[o].seen = NoDecisions
    BY <1>3 DEF IdleOrder
  <2> QED
    BY <2>1, NoneIs DEF Writing, OrderIsSound, StandsFor
<1>5. \A t \in GateTargets : decisions[t] = Unarmed /\ ordered[t] = Unarmed
  BY NoneIs DEF GateInit
<1>6. \A k \in Consults : consult[k].answer = "none"
  BY DEF GateInit, IdleConsult
<1> QED
  BY <1>2, <1>4, <1>5, <1>6
     DEF GateInv, StandsFor, OneWrites, StoreFollowsOrders, ConsultIsSound

LEMMA GateIsGood ==
    ASSUME GateInv
    PROVE  GateIsOrdered
<1>1. DecisionsWereOrdered
  <2> SUFFICES ASSUME NEW t \in GateTargets, decisions[t] # Unarmed
               PROVE  LET d == decisions[t]
                          ask == order[d.by].ask
                      IN /\ ask.about = t /\ ask.verb = d.answer
                         /\ d.answer = "allow" /\ t \in Widenings => ask.named
                         /\ d.until # NoExpiry => d.until <= hour + Horizon
    BY DEF DecisionsWereOrdered
  <2> QED
    BY DEF GateInv, StandsFor, MayStand
<1>2. ApprovalsWereOrdered
  BY DEF GateInv, ConsultIsSound, ApprovalsWereOrdered
<1> QED
  BY <1>1, <1>2 DEF GateIsOrdered, GateInv

\* A step of an order: what stood still stands, for an order once done stays so
\* and the clock only advances.
LEMMA StandingLasts ==
    ASSUME GateTypeOK, hour' \in Nat, hour' >= hour,
           \A o \in Orders : order[o].at = "done" => order'[o] = order[o],
           NEW d \in Decision \cup {Unarmed}, NEW t, StandsFor(d, t)
    PROVE  StandsFor(d, t)'
<1> SUFFICES ASSUME d # Unarmed
             PROVE  LET by == order'[d.by]
                    IN /\ by.at = "done" /\ by.ask.about = t /\ by.ask.verb = d.answer
                       /\ by.ask.verb = "allow" /\ by.ask.about \in Widenings => by.ask.named
                       /\ d.until # NoExpiry => d.until <= hour' + Horizon
  BY DEF StandsFor, MayStand
<1>1. d.by \in Orders /\ d.until \in Nat \cup {NoExpiry}
  BY DEF Decision
<1>2. order'[d.by] = order[d.by]
  BY <1>1 DEF StandsFor
<1>3. d.until # NoExpiry => d.until <= hour' + Horizon
  BY <1>1, GateAssumption DEF StandsFor, MayStand, GateTypeOK
<1> QED
  BY <1>2, <1>3 DEF StandsFor, MayStand

LEMMA OrderTypes ==
    GateTypeOK <=>
        /\ opened \in {"console", "sqlite", "thrown"}
        /\ decisions \in Arrays /\ ordered \in Arrays
        /\ order \in [Orders -> OrderRecord] /\ consult \in [Consults -> ConsultRecord]
        /\ hour \in Nat /\ ordersMet \in BOOLEAN /\ blanked \in BOOLEAN
BY DEF GateTypeOK, OrderRecord, ConsultRecord

\* What a reading of the array makes of it.
LEMMA ReadingIs ==
    ASSUME GateInv, NEW reading
    PROVE  /\ LoadAll(reading) \in Arrays
           /\ \A t \in GateTargets :
                 /\ LoadAll(reading)[t] \in {decisions[t], Unarmed}
                 /\ StandsFor(LoadAll(reading)[t], t)
           /\ reading = "read" => LoadAll(reading) = decisions
<1>1. CASE reading = "read"
  BY <1>1 DEF LoadAll, GateInv, GateTypeOK
<1>2. CASE reading # "read"
  BY <1>2, NoneIs DEF LoadAll, StandsFor
<1> QED
  BY <1>1, <1>2

LEMMA MakeOrderStep ==
    ASSUME GateInv, NEW o \in Orders, NEW ask \in OrderAsks, NEW expires \in Expiries,
           MakeOrder(o, ask, expires)
    PROVE  GateInv'
<1>1. PICK until \in Nat \cup {NoExpiry} :
        /\ MayStand(ask, until)
        /\ order' = [order EXCEPT ![o] = [IdleOrder EXCEPT
              !.at = "load", !.ask = ask, !.until = until]]
  <2>1. hour \in Nat /\ Horizon \in Nat /\ Amounts \subseteq Nat
    BY GateAssumption DEF GateInv, GateTypeOK
  <2>2. CASE ask.verb = "clear"
    BY <2>2 DEF MakeOrder, MayStand
  <2>3. CASE ask.verb # "clear"
    <3>1. ResolveExpiry(expires) \in Nat \cup {NoExpiry, Unreadable}
      <4>1. expires.form \in {"absolute", "relative"} => expires.amount \in Nat
        BY <2>1 DEF Expiries
      <4>2. expires.form \in {"absolute", "relative", "never", "malformed"}
        BY DEF Expiries
      <4> QED
        BY <2>1, <4>1, <4>2 DEF ResolveExpiry
    <3>2. MayArm(ask, ResolveExpiry(expires))
      BY <2>3 DEF MakeOrder
    <3>3. MayStand(ask, ResolveExpiry(expires)) /\ ResolveExpiry(expires) # Unreadable
      BY <3>2 DEF MayArm, MayStand
    <3> QED
      BY <2>3, <3>1, <3>3 DEF MakeOrder
  <2> QED
    BY <2>2, <2>3
<1>2. /\ order[o].at = "idle"
      /\ ordersMet' = (ordersMet \/ \E p \in Orders : Writing(p))
      /\ UNCHANGED <<opened, decisions, consult, hour, ordered, blanked>>
  BY DEF MakeOrder, Writing
<1>3. /\ order'[o].at = "load" /\ order'[o].ask = ask /\ order'[o].until = until
      /\ order'[o].seen = NoDecisions /\ order'[o] \in OrderRecord
      /\ \A p \in Orders : p # o => order'[p] = order[p]
  <2>1. order \in [Orders -> OrderRecord]
    BY OrderTypes DEF GateInv
  <2>2. order'[o] = [IdleOrder EXCEPT !.at = "load", !.ask = ask, !.until = until]
    BY <1>1, <2>1
  <2> QED
    BY <1>1, <2>1, <2>2, NoneIs DEF IdleOrder, OrderRecord
<1>4. GateTypeOK'
  <2>1. order' \in [Orders -> OrderRecord]
    BY <1>1, <1>3, OrderTypes DEF GateInv
  <2>2. ordersMet' \in BOOLEAN
    BY <1>2, OrderTypes DEF GateInv
  <2> QED
    BY <1>2, <2>1, <2>2, OrderTypes DEF GateInv, GateTypeOK, OrderRecord, ConsultRecord
<1>5. ASSUME NEW d \in Decision \cup {Unarmed}, NEW t, StandsFor(d, t)
      PROVE  StandsFor(d, t)'
  BY <1>2, <1>3, <1>5, StandingLasts DEF GateInv, GateTypeOK
<1>6. (\A t \in GateTargets : StandsFor(decisions[t], t))'
  BY <1>2, <1>5 DEF GateInv, GateTypeOK, Arrays
<1>7. (\A p \in Orders : OrderIsSound(p))'
  <2> SUFFICES ASSUME NEW p \in Orders PROVE OrderIsSound(p)'
    OBVIOUS
  <2>1. CASE p = o
    <3>1. (Writing(p) => MayStand(order[p].ask, order[p].until))'
      BY <1>1, <1>2, <1>3, <2>1 DEF MayStand
    <3>2. (\A t \in GateTargets : StandsFor(order[p].seen[t], t))'
      BY <1>3, <2>1, NoneIs DEF StandsFor
    <3> QED
      BY <1>3, <2>1, <3>1, <3>2 DEF OrderIsSound
  <2>2. CASE p # o
    <3>1. order'[p] = order[p]
      BY <1>3, <2>2
    <3>2. (Writing(p) => MayStand(order[p].ask, order[p].until))'
      BY <1>2, <3>1 DEF MayStand, Writing, GateInv, OrderIsSound
    <3>3. (\A t \in GateTargets : StandsFor(order[p].seen[t], t))'
      <4> SUFFICES ASSUME NEW t \in GateTargets PROVE StandsFor(order[p].seen[t], t)'
        OBVIOUS
      <4>1. PICK d \in Decision \cup {Unarmed} : d = order[p].seen[t]
        BY OrderTypes DEF GateInv, OrderRecord, Arrays
      <4>2. StandsFor(d, t)
        BY <4>1 DEF GateInv, OrderIsSound
      <4> QED
        BY <1>5, <3>1, <4>1, <4>2 DEF StandsFor
    <3> QED
      BY <1>2, <3>1, <3>2, <3>3 DEF OrderIsSound, GateInv
  <2> QED
    BY <2>1, <2>2
<1>8. (~ordersMet => OneWrites)'
  BY <1>2, <1>3 DEF OneWrites, Writing
<1>9. StoreFollowsOrders'
  BY <1>2 DEF StoreFollowsOrders, GateInv
<1>10. (\A k \in Consults : ConsultIsSound(consult[k]))'
  BY <1>2, <1>3, OrderTypes DEF ConsultIsSound, GateInv, ConsultRecord, Decision
<1> QED
  BY <1>4, <1>6, <1>7, <1>8, <1>9, <1>10 DEF GateInv

LEMMA LoadStep ==
    ASSUME GateInv, NEW o \in Orders, NEW reading, Load(o, reading)
    PROVE  GateInv'
<1>1. /\ order[o].at = "load"
      /\ reading \in {"read", "unopened", "failed"}
      /\ order' = [order EXCEPT ![o] = [@ EXCEPT !.at = "save",
             !.seen = LoadAll(reading), !.handle = (reading # "unopened")]]
      /\ blanked' = (blanked \/ reading = "failed")
      /\ UNCHANGED <<opened, decisions, consult, hour, ordered, ordersMet>>
  BY DEF Load, Outcomes
<1>2. order \in [Orders -> OrderRecord]
  BY OrderTypes DEF GateInv
<1>3. PICK seen \in Arrays :
        /\ order'[o] = [order[o] EXCEPT !.at = "save", !.seen = seen,
                            !.handle = (reading # "unopened")]
        /\ \A t \in GateTargets : /\ seen[t] \in {decisions[t], Unarmed}
                                  /\ StandsFor(seen[t], t)
        /\ reading = "read" => seen = decisions
  BY <1>1, <1>2, ReadingIs
<1>4. /\ order'[o].at = "save" /\ order'[o].ask = order[o].ask
      /\ order'[o].until = order[o].until /\ order'[o].seen = seen
      /\ order'[o].handle <=> (reading # "unopened")
      /\ order'[o] \in OrderRecord
      /\ \A p \in Orders : p # o => order'[p] = order[p]
  <2>1. order[o] \in OrderRecord
    BY <1>2
  <2>2. (reading # "unopened") \in BOOLEAN
    OBVIOUS
  <2> QED
    BY <1>1, <1>2, <1>3, <2>1, <2>2 DEF OrderRecord
<1>5. GateTypeOK'
  <2>1. order' \in [Orders -> OrderRecord]
    BY <1>1, <1>2, <1>4
  <2>2. blanked' \in BOOLEAN
    BY <1>1, OrderTypes DEF GateInv
  <2> QED
    BY <1>1, <2>1, <2>2, OrderTypes DEF GateInv, GateTypeOK, OrderRecord, ConsultRecord
<1>6. ASSUME NEW d \in Decision \cup {Unarmed}, NEW t, StandsFor(d, t)
      PROVE  StandsFor(d, t)'
  BY <1>1, <1>4, <1>6, StandingLasts DEF GateInv, GateTypeOK
<1>7. (\A t \in GateTargets : StandsFor(decisions[t], t))'
  BY <1>1, <1>6 DEF GateInv, GateTypeOK, Arrays
<1>8. (\A p \in Orders : OrderIsSound(p))'
  <2> SUFFICES ASSUME NEW p \in Orders PROVE OrderIsSound(p)'
    OBVIOUS
  <2>1. (Writing(p) => MayStand(order[p].ask, order[p].until))'
    BY <1>1, <1>4 DEF MayStand, Writing, GateInv, OrderIsSound
  <2>2. (\A t \in GateTargets : StandsFor(order[p].seen[t], t))'
    <3> SUFFICES ASSUME NEW t \in GateTargets PROVE StandsFor(order[p].seen[t], t)'
      OBVIOUS
    <3>1. PICK d \in Decision \cup {Unarmed} : d = order'[p].seen[t] /\ StandsFor(d, t)
      <4>1. CASE p = o
        BY <1>3, <1>4, <4>1 DEF Arrays
      <4>2. CASE p # o
        BY <1>4, <4>2, OrderTypes DEF GateInv, OrderIsSound, OrderRecord, Arrays
      <4> QED
        BY <4>1, <4>2
    <3> QED
      BY <1>6, <3>1 DEF StandsFor
  <2>3. CASE p = o
    BY <1>1, <1>3, <1>4, <2>1, <2>2, <2>3 DEF OrderIsSound, GateInv
  <2>4. CASE p # o
    BY <1>1, <1>4, <2>1, <2>2, <2>4, OrderTypes DEF OrderIsSound, GateInv
  <2> QED
    BY <2>3, <2>4
<1>9. (~ordersMet => OneWrites)'
  BY <1>1, <1>4 DEF OneWrites, Writing, GateInv
<1>10. StoreFollowsOrders'
  BY <1>1, OrderTypes DEF StoreFollowsOrders, GateInv
<1>11. (\A k \in Consults : ConsultIsSound(consult[k]))'
  BY <1>1, <1>4, OrderTypes DEF ConsultIsSound, GateInv, ConsultRecord, Decision
<1> QED
  BY <1>5, <1>7, <1>8, <1>9, <1>10, <1>11 DEF GateInv

LEMMA SaveStep ==
    ASSUME GateInv, NEW o \in Orders, NEW saves \in BOOLEAN, Save(o, saves)
    PROVE  GateInv'
<1>1. /\ order[o].at = "save" /\ (saves => order[o].handle)
      /\ order' = [order EXCEPT ![o] = [@ EXCEPT !.at = "done", !.seen = NoDecisions,
             !.until = NoExpiry, !.handle = FALSE]]
      /\ UNCHANGED <<opened, consult, hour, ordersMet, blanked>>
  BY DEF Save
<1>2. order \in [Orders -> OrderRecord] /\ order[o] \in OrderRecord
  BY OrderTypes DEF GateInv
<1>3. /\ order'[o].at = "done" /\ order'[o].ask = order[o].ask
      /\ order'[o].seen = NoDecisions /\ order'[o] \in OrderRecord
      /\ \A p \in Orders : p # o => order'[p] = order[p]
  BY <1>1, <1>2, NoneIs DEF OrderRecord
<1>4. PICK target \in GateTargets : target = order[o].ask.about
  <2>1. order[o].ask \in OrderAsks
    BY <1>2 DEF OrderRecord
  <2> QED
    BY <2>1 DEF OrderAsks, GateTargets
<1>5. PICK entry \in Decision \cup {Unarmed} : entry = EntryOf(o)
  BY <1>2 DEF EntryOf, OrderRecord, OrderAsks, Decision
<1>6. PICK seen \in Arrays : seen = order[o].seen
  BY <1>2 DEF OrderRecord
<1>7. /\ decisions' = IF saves THEN [seen EXCEPT ![target] = entry] ELSE decisions
      /\ ordered' = IF saves THEN [ordered EXCEPT ![target] = entry] ELSE ordered
  BY <1>4, <1>5, <1>6 DEF Save, Upsert
<1>8. GateTypeOK'
  <2>1. order' \in [Orders -> OrderRecord]
    BY <1>1, <1>2, <1>3
  <2>2. decisions' \in Arrays /\ ordered' \in Arrays
    BY <1>5, <1>6, <1>7, OrderTypes DEF GateInv, Arrays
  <2> QED
    BY <1>1, <2>1, <2>2, OrderTypes DEF GateInv, GateTypeOK, OrderRecord, ConsultRecord
<1>9. ASSUME NEW d \in Decision \cup {Unarmed}, NEW t, StandsFor(d, t)
      PROVE  StandsFor(d, t)'
  <2>1. \A p \in Orders : order[p].at = "done" => order'[p] = order[p]
    BY <1>1, <1>3
  <2> QED
    BY <1>1, <1>9, <2>1, StandingLasts DEF GateInv, GateTypeOK
<1>10. StandsFor(entry, target)'
  <2>1. CASE order[o].ask.verb = "clear"
    BY <1>5, <2>1 DEF EntryOf, StandsFor
  <2>2. CASE order[o].ask.verb # "clear"
    <3>1. entry.by = o /\ entry.answer = order[o].ask.verb /\ entry.until = order[o].until
      BY <1>5, <2>2 DEF EntryOf
    <3>2. MayStand(order[o].ask, order[o].until)
      BY <1>1 DEF GateInv, OrderIsSound, Writing
    <3> QED
      BY <1>1, <1>3, <1>4, <3>1, <3>2 DEF StandsFor, MayStand
  <2> QED
    BY <2>1, <2>2
<1>11. (\A t \in GateTargets : StandsFor(decisions[t], t))'
  <2> SUFFICES ASSUME NEW t \in GateTargets PROVE StandsFor(decisions[t], t)'
    OBVIOUS
  <2>1. PICK d \in Decision \cup {Unarmed} : d = decisions'[t] /\ StandsFor(d, t)'
    <3>1. decisions[t] \in Decision \cup {Unarmed} /\ StandsFor(decisions[t], t)
      BY DEF GateInv, GateTypeOK, Arrays
    <3>2. seen[t] \in Decision \cup {Unarmed} /\ StandsFor(seen[t], t)
      BY <1>6 DEF GateInv, OrderIsSound, Arrays
    <3>3. CASE saves /\ t = target
      BY <1>5, <1>6, <1>7, <1>10, <3>3 DEF Arrays
    <3>4. CASE saves /\ t # target
      <4>1. decisions'[t] = seen[t]
        BY <1>6, <1>7, <3>4 DEF Arrays
      <4> QED
        BY <1>9, <3>2, <4>1
    <3>5. CASE ~saves
      <4>1. decisions'[t] = decisions[t]
        BY <1>7, <3>5
      <4>2. PICK d \in Decision \cup {Unarmed} : d = decisions[t] /\ StandsFor(d, t)
        BY <3>1
      <4> QED
        BY <1>9, <4>1, <4>2
    <3> QED
      BY <3>3, <3>4, <3>5
  <2> QED
    BY <2>1 DEF StandsFor
<1>12. ASSUME ~ordersMet, NEW p \in Orders, Writing(p)
       PROVE  p = o
  BY <1>1, <1>12 DEF GateInv, OneWrites, Writing
<1>13. (\A p \in Orders : OrderIsSound(p))'
  <2> SUFFICES ASSUME NEW p \in Orders PROVE OrderIsSound(p)'
    OBVIOUS
  <2>1. (Writing(p) => MayStand(order[p].ask, order[p].until))'
    BY <1>1, <1>3 DEF MayStand, Writing, GateInv, OrderIsSound
  <2>2. (\A t \in GateTargets : StandsFor(order[p].seen[t], t))'
    <3> SUFFICES ASSUME NEW t \in GateTargets PROVE StandsFor(order[p].seen[t], t)'
      OBVIOUS
    <3>1. PICK d \in Decision \cup {Unarmed} : d = order'[p].seen[t] /\ StandsFor(d, t)
      <4>1. CASE p = o
        <5>1. order'[p].seen[t] = Unarmed
          BY <1>3, <4>1, NoneIs
        <5> QED
          BY <5>1 DEF StandsFor
      <4>2. CASE p # o
        BY <1>3, <4>2, OrderTypes DEF GateInv, OrderIsSound, OrderRecord, Arrays
      <4> QED
        BY <4>1, <4>2
    <3> QED
      BY <1>9, <3>1 DEF StandsFor
  <2>3. ~(~ordersMet' /\ order'[p].at = "save")
    BY <1>1, <1>3, <1>12 DEF Writing
  <2> QED
    BY <2>1, <2>2, <2>3 DEF OrderIsSound
<1>14. (~ordersMet => OneWrites)'
  BY <1>1, <1>3, <1>12 DEF OneWrites, Writing
<1>15. StoreFollowsOrders'
  <2> SUFFICES ASSUME ~ordersMet, NEW t \in GateTargets
               PROVE  /\ decisions'[t] \in {ordered'[t], Unarmed}
                      /\ ~blanked => decisions'[t] = ordered'[t]
    BY <1>1 DEF StoreFollowsOrders
  <2>1. /\ decisions[t] \in {ordered[t], Unarmed}
        /\ ~blanked => decisions[t] = ordered[t]
    BY DEF GateInv, StoreFollowsOrders
  <2>2. saves => /\ seen[t] \in {decisions[t], Unarmed}
                 /\ ~blanked => seen[t] = decisions[t]
    BY <1>1, <1>6 DEF GateInv, OrderIsSound
  <2>3. CASE saves /\ t = target
    BY <1>6, <1>7, <2>3, OrderTypes DEF GateInv, Arrays
  <2>4. CASE saves /\ t # target
    BY <1>6, <1>7, <2>1, <2>2, <2>4, OrderTypes DEF GateInv, Arrays
  <2>5. CASE ~saves
    BY <1>7, <2>1, <2>5
  <2> QED
    BY <2>3, <2>4, <2>5
<1>16. (\A k \in Consults : ConsultIsSound(consult[k]))'
  BY <1>1, <1>3, OrderTypes DEF ConsultIsSound, GateInv, ConsultRecord, Decision
<1> QED
  BY <1>8, <1>11, <1>13, <1>14, <1>15, <1>16 DEF GateInv

LEMMA ApproveStep ==
    ASSUME GateInv, NEW k \in Consults, NEW target \in Widenings, NEW reading,
           Approve(k, target, reading)
    PROVE  GateInv'
<1>1. UNCHANGED <<opened, decisions, order, hour, ordered, ordersMet, blanked>>
  BY DEF Approve
<1>2. target \in GateTargets
  BY DEF GateTargets
<1>3. PICK d \in Decision \cup {Unarmed} :
        d = LoadAll(reading)[target] /\ d \in {decisions[target], Unarmed}
        /\ StandsFor(d, target)
  BY <1>2, ReadingIs DEF Arrays
<1>4. PICK x \in ConsultRecord :
        /\ x = [answer |-> IF Approves(LoadAll(reading), target) THEN "approved" ELSE "declined",
                about |-> target, on |-> d, asked |-> ordered[target], at |-> hour]
        /\ consult' = [consult EXCEPT ![k] = x]
  <2>1. ordered[target] \in Decision \cup {Unarmed} /\ hour \in Nat
    BY <1>2, OrderTypes DEF GateInv, Arrays
  <2>2. PICK a \in {"approved", "declined"} :
          a = IF Approves(LoadAll(reading), target) THEN "approved" ELSE "declined"
    OBVIOUS
  <2>3. [answer |-> a, about |-> target, on |-> d, asked |-> ordered[target], at |-> hour]
          \in ConsultRecord
    BY <1>2, <2>1 DEF ConsultRecord
  <2> QED
    BY <1>3, <2>2, <2>3 DEF Approve
<1>5. ConsultIsSound(x)'
  <2> SUFFICES ASSUME x.answer = "approved"
               PROVE  ConsultIsSound(x)'
    BY DEF ConsultIsSound
  <2>1. d # Unarmed /\ ~IsLapsed(d) /\ d.answer = "allow"
    BY <1>3, <1>4 DEF Approves
  <2>2. order[d.by].at = "done" /\ order[d.by].ask.about = target
    BY <1>3, <2>1 DEF StandsFor
  <2>3. d.until # NoExpiry => hour < d.until
    <3>1. d.until \in Nat \cup {NoExpiry} /\ hour \in Nat
      BY <1>3, <2>1, OrderTypes DEF GateInv, Decision
    <3> QED
      BY <2>1, <3>1 DEF IsLapsed
  <2>4. ~ordersMet => d = ordered[target]
    BY <1>2, <1>3, <2>1 DEF GateInv, StoreFollowsOrders
  <2> QED
    BY <1>1, <1>4, <2>1, <2>2, <2>3, <2>4 DEF ConsultIsSound
<1>6. consult \in [Consults -> ConsultRecord]
  BY OrderTypes DEF GateInv
<1>7. (\A c \in Consults : ConsultIsSound(consult[c]))'
  <2> SUFFICES ASSUME NEW c \in Consults PROVE ConsultIsSound(consult[c])'
    OBVIOUS
  <2>1. CASE c = k
    <3>1. consult'[c] = x
      BY <1>4, <1>6, <2>1
    <3> QED
      BY <1>5, <3>1 DEF ConsultIsSound
  <2>2. CASE c # k
    <3>1. consult'[c] = consult[c]
      BY <1>4, <1>6, <2>2
    <3> QED
      BY <1>1, <3>1 DEF ConsultIsSound, GateInv
  <2> QED
    BY <2>1, <2>2
<1>8. GateTypeOK'
  <2>1. consult' \in [Consults -> ConsultRecord]
    BY <1>4, <1>6
  <2> QED
    BY <1>1, <2>1, OrderTypes DEF GateInv, GateTypeOK, OrderRecord, ConsultRecord
<1>9. (\A t \in GateTargets : StandsFor(decisions[t], t))'
  BY <1>1 DEF GateInv, StandsFor, MayStand
<1>10. (\A o \in Orders : OrderIsSound(o))' /\ (~ordersMet => OneWrites)' /\ StoreFollowsOrders'
  <2>1. (\A o \in Orders : OrderIsSound(o))'
    <3> SUFFICES ASSUME NEW o \in Orders PROVE OrderIsSound(o)'
      OBVIOUS
    <3>1. (\A t \in GateTargets : StandsFor(order[o].seen[t], t))'
      BY <1>1 DEF GateInv, OrderIsSound, StandsFor, MayStand
    <3> QED
      BY <1>1, <3>1 DEF GateInv, OrderIsSound, Writing, MayStand
  <2> QED
    BY <1>1, <2>1 DEF GateInv, OneWrites, Writing, StoreFollowsOrders
<1> QED
  BY <1>7, <1>8, <1>9, <1>10 DEF GateInv

LEMMA GateStep ==
    ASSUME GateInv, [GateNext]_gateVars
    PROVE  GateInv'
<1>1. CASE UNCHANGED gateVars \/ HourPasses
  <2>1. /\ UNCHANGED <<opened, decisions, order, consult, ordered, ordersMet, blanked>>
        /\ hour' \in Nat /\ hour' >= hour
    BY <1>1, OrderTypes DEF gateVars, HourPasses, GateInv
  <2>2. GateTypeOK'
    BY <2>1, OrderTypes DEF GateInv, GateTypeOK, OrderRecord, ConsultRecord
  <2>3. ASSUME NEW d \in Decision \cup {Unarmed}, NEW t, StandsFor(d, t)
        PROVE  StandsFor(d, t)'
    BY <2>1, <2>3, StandingLasts DEF GateInv
  <2>4. (\A t \in GateTargets : StandsFor(decisions[t], t))'
    BY <2>1, <2>3 DEF GateInv, GateTypeOK, Arrays
  <2>5. (\A o \in Orders : OrderIsSound(o))'
    <3> SUFFICES ASSUME NEW o \in Orders PROVE OrderIsSound(o)'
      OBVIOUS
    <3>1. order[o] \in OrderRecord
      BY OrderTypes DEF GateInv
    <3>2. (Writing(o) => MayStand(order[o].ask, order[o].until))'
      <4>1. order[o].until \in Nat \cup {NoExpiry} /\ hour \in Nat /\ Horizon \in Nat
        BY <3>1, OrderTypes, GateAssumption DEF GateInv, OrderRecord
      <4> QED
        BY <2>1, <4>1 DEF GateInv, OrderIsSound, Writing, MayStand
    <3>3. (\A t \in GateTargets : StandsFor(order[o].seen[t], t))'
      BY <2>1, <2>3, <3>1 DEF GateInv, OrderIsSound, OrderRecord, Arrays
    <3> QED
      BY <2>1, <3>2, <3>3 DEF GateInv, OrderIsSound
  <2> QED
    BY <2>1, <2>2, <2>4, <2>5
       DEF GateInv, OneWrites, Writing, StoreFollowsOrders, ConsultIsSound
<1> QED
  BY <1>1, MakeOrderStep, LoadStep, SaveStep, ApproveStep DEF GateNext

LEMMA GateRests ==
    ASSUME GateInv, UNCHANGED gateVars
    PROVE  GateInv'
BY GateStep

-----------------------------------------------------------------------------
(* The parts together                                                      *)

\* The breaker moves on its own or with the coding phase that is over it.
BreakerPartInv == IF part = "breaker" THEN coding.pc = "loop" ELSE CodingInv

\* A part is where it began or moves alone, so each keeps its own invariant
\* whichever moves.
PartsInv ==
    /\ LeaseInv /\ SandboxInv /\ ControlInv /\ TenantInv
    /\ WebhookInv /\ ProvisionInv /\ MigrateInv /\ StartInv
    /\ ImproveInv /\ GateInv
    /\ BreakerPartInv

LEMMA PartsBegin ==
    ASSUME ServicesInit
    PROVE  PartsInv
<1>1. LeaseInv
  <2>1. LeaseInit
    BY DEF ServicesInit
  <2>2. LeaseTypeOK
    BY <2>1, LeaseAssumption DEF LeaseInit, LeaseTypeOK, TaskStates
  <2> QED
    BY <2>1, <2>2 DEF LeaseInit, LeaseInv, LeaseIsSound
<1>2. SandboxInv
  BY DEF ServicesInit, SandboxInit, SandboxInv, SandboxTypeOK, SandboxIsSound
<1>3. ControlInv
  BY ControlBegins DEF ServicesInit
<1>4. TenantInv
  <2>1. TenantsInit
    BY DEF ServicesInit
  <2>2. IdleSeed \in SeedRecord /\ IdleSeed.at = "idle" /\ IdleSeed.todo = {}
    BY DEF IdleSeed, SeedRecord
  <2>3. \A s \in Seeds : seed[s] = IdleSeed
    BY <2>1 DEF TenantsInit
  <2>4. TenantsTypeOK
    <3>1. seed \in [Seeds -> SeedRecord]
      BY <2>1, <2>2 DEF TenantsInit
    <3>2. /\ tenants \in [Slugs -> Statuses \cup {"none"}]
          /\ tenantOf \in [Repos -> Slugs \cup {Nobody}]
          /\ attributed \in [Repos -> SUBSET Slugs]
          /\ word \in [Slugs -> Statuses]
      BY <2>1 DEF TenantsInit, Statuses
    <3>3. turns \in 0..MaxTurns
      BY <2>1, TenantAssumption DEF TenantsInit
    <3>4. raced \in BOOLEAN
      BY <2>1 DEF TenantsInit
    <3> QED
      BY <3>1, <3>2, <3>3, <3>4 DEF TenantsTypeOK, SeedRecord
  <2>5. \A s \in Seeds : SeedIsFormed(seed[s]) /\ SeedIsSound(seed[s]) /\ ~Seeding(s)
    BY <2>2, <2>3 DEF SeedIsFormed, SeedIsSound, Seeding
  <2>6. RegistryStands
    BY <2>1 DEF TenantsInit, RegistryStands
  <2> QED
    BY <2>4, <2>5, <2>6 DEF TenantInv, OneSeed
<1>5. WebhookInv /\ ProvisionInv /\ MigrateInv /\ StartInv
  BY WebhookBegins, ProvisionBegins, MigrateBegins, StartBegins DEF ServicesInit
<1>6. BreakerPartInv
  BY CodingBegins DEF ServicesInit, CodingInit, BreakerPartInv
<1>7. ImproveInv /\ GateInv
  BY ImproveBegins, GateBegins DEF ServicesInit
<1> QED
  BY <1>1, <1>2, <1>3, <1>4, <1>5, <1>6, <1>7 DEF PartsInv

LEMMA LeaseRests ==
    ASSUME LeaseInv, UNCHANGED leaseVars
    PROVE  LeaseInv'
BY DEF LeaseInv, LeaseTypeOK, LeaseIsSound, Authorizes, IsExpired, leaseVars

LEMMA SandboxRests ==
    ASSUME SandboxInv, UNCHANGED sandboxVars
    PROVE  SandboxInv'
BY DEF SandboxInv, SandboxTypeOK, SandboxIsSound, sandboxVars

LEMMA TenantRests ==
    ASSUME TenantInv, UNCHANGED tenantVars
    PROVE  TenantInv'
<1> USE DEF tenantVars
<1>1. TenantsTypeOK'
  BY DEF TenantInv, TenantsTypeOK
<1>2. (\A s \in Seeds : SeedIsFormed(seed[s]))'
  BY DEF TenantInv, SeedIsFormed
<1>3. (~raced => OneSeed)'
  BY DEF TenantInv, OneSeed, Seeding
<1>4. (~raced => RegistryStands)'
  BY DEF TenantInv, RegistryStands
<1>5. (~raced => \A s \in Seeds : SeedIsSound(seed[s]))'
  BY DEF TenantInv, SeedIsSound
<1> QED
  BY <1>1, <1>2, <1>3, <1>4, <1>5 DEF TenantInv

LEMMA ProvisionRests ==
    ASSUME ProvisionInv, UNCHANGED provisionVars
    PROVE  ProvisionInv'
<1> USE DEF provisionVars
<1>1. ProvisionTypeOK'
  BY DEF ProvisionInv, ProvisionTypeOK
<1>2. (~astray => UpIsSound)'
  BY DEF ProvisionInv, UpIsSound, TellsTheTruth
<1> QED
  BY <1>1, <1>2 DEF ProvisionInv, ProvisionIsReal

LEMMA MigrateRests ==
    ASSUME MigrateInv, UNCHANGED migrateVars
    PROVE  MigrateInv'
<1> USE DEF migrateVars
<1>1. SchemaIsRecorded'
  BY DEF MigrateInv, SchemaIsRecorded, Applied
<1>2. (\A m \in Migrators : MigratorIsSound(m))'
  BY DEF MigrateInv, MigratorIsSound, HasDrift, Pending, Applied
<1> QED
  BY <1>1, <1>2 DEF MigrateInv

LEMMA StartRests ==
    ASSUME StartInv, UNCHANGED startVars
    PROVE  StartInv'
<1> USE DEF startVars
<1>1. (\A p \in Openers : OpenerIsSound(p))'
  BY DEF StartInv, OpenerIsSound, Unrecorded
<1>2. RepairsAreSound' /\ ColumnsAreSound'
  BY DEF StartInv, RepairsAreSound, ColumnsAreSound, Unrecorded
<1> QED
  BY <1>1, <1>2 DEF StartInv, Active

LEMMA CodingRests ==
    ASSUME CodingInv, UNCHANGED <<breakerVars, codingOnly>>
    PROVE  CodingInv'
BY DEF CodingInv, BudgetIsSound, PhaseIsSound, Untripped, IsTripped, Entry,
       breakerVars, codingOnly

\* A step moves the variables of a part by a step of that part, or not at all.
LEMMA PartsMove ==
    ASSUME [ServicesNext]_servicesVars
    PROVE  /\ [LeaseNext]_leaseVars /\ [SandboxNext]_sandboxVars
           /\ [ControlNext]_controlVars /\ [TenantsNext]_tenantVars
           /\ [WebhookNext]_webhookVars /\ [ProvisionNext]_provisionVars
           /\ [MigrateNext]_migrateVars /\ [StartNext]_startVars
           /\ [ImproveNext]_improveVars /\ [GateNext]_gateVars
           /\ \/ part = "coding" /\ CodingNext
              \/ part = "breaker" /\ UNCHANGED codingOnly
              \/ UNCHANGED <<breakerVars, codingOnly>>
           /\ UNCHANGED part
BY DEF ServicesNext, servicesVars, MovedBy

LEMMA PartsStep ==
    ASSUME PartsInv, [ServicesNext]_servicesVars
    PROVE  PartsInv'
<1>1. /\ [LeaseNext]_leaseVars /\ [SandboxNext]_sandboxVars
      /\ [ControlNext]_controlVars /\ [TenantsNext]_tenantVars
      /\ [WebhookNext]_webhookVars /\ [ProvisionNext]_provisionVars
      /\ [MigrateNext]_migrateVars /\ [StartNext]_startVars
      /\ [ImproveNext]_improveVars /\ [GateNext]_gateVars
  BY PartsMove
<1>2. LeaseInv'
  BY <1>1, LeaseStep, LeaseRests DEF PartsInv
<1>3. SandboxInv'
  BY <1>1, SandboxStep, SandboxRests DEF PartsInv
<1>4. ControlInv'
  BY <1>1, ControlInvStep DEF PartsInv
<1>5. TenantInv'
  BY <1>1, TenantStep, TenantRests DEF PartsInv
<1>6. WebhookInv'
  BY <1>1, WebhookStep DEF PartsInv
<1>7. ProvisionInv'
  BY <1>1, ProvisionStep, ProvisionRests DEF PartsInv
<1>8. MigrateInv'
  BY <1>1, MigrateStep, MigrateRests DEF PartsInv
<1>9. StartInv'
  BY <1>1, StartStep, StartRests DEF PartsInv
<1>10. BreakerPartInv'
  <2>1. /\ \/ part = "coding" /\ CodingNext
           \/ part = "breaker" /\ UNCHANGED codingOnly
           \/ UNCHANGED <<breakerVars, codingOnly>>
        /\ UNCHANGED part
    BY PartsMove
  <2>2. CASE part = "breaker"
    <3>1. UNCHANGED codingOnly
      BY <2>1, <2>2
    <3> QED
      BY <2>1, <2>2, <3>1 DEF PartsInv, BreakerPartInv, codingOnly
  <2>3. CASE part # "breaker"
    <3>1. CodingInv
      BY <2>3 DEF PartsInv, BreakerPartInv
    <3>2. CodingInv'
      BY <2>1, <2>3, <3>1, CodingStep, CodingRests
    <3> QED
      BY <2>1, <2>3, <3>2 DEF BreakerPartInv
  <2> QED
    BY <2>2, <2>3
<1>11. ImproveInv' /\ GateInv'
  BY <1>1, ImproveStep, GateStep DEF PartsInv
<1> QED
  BY <1>2, <1>3, <1>4, <1>5, <1>6, <1>7, <1>8, <1>9, <1>10, <1>11 DEF PartsInv

THEOREM PartsKeepTheirInvariants == ServicesSpec => []PartsInv
BY PartsBegin, PartsStep, PTL DEF ServicesSpec

\* Whatever fails, whoever prunes, revokes, waits or crashes: no task that
\* completed leaves a lease that authorizes or, unless a call was lost, a
\* sandbox that runs.
THEOREM NothingIsLeftBehind == ServicesSpec => []NothingOutlivesItsTask
<1>1. PartsInv => NothingOutlivesItsTask
  BY LeaseIsGood, SandboxIsGood DEF PartsInv, NothingOutlivesItsTask
<1> QED
  BY <1>1, PartsKeepTheirInvariants, PTL

\* A customer keeps its repositories and its status through any number of
\* seeds cut off anywhere, while no two of them raced.
THEOREM CustomersKeepTheirRuns == ServicesSpec => []AttributionStands
<1>1. PartsInv => AttributionStands
  BY TenantIsGood DEF PartsInv
<1> QED
  BY <1>1, PartsKeepTheirInvariants, PTL

\* The audit log explains every control row, in the composition too.
THEOREM AuditStaysTrueBeside == ServicesSpec => []AuditIsTrue
<1>1. PartsInv => AuditIsTrue
  BY DEF PartsInv, ControlInv
<1> QED
  BY <1>1, PartsKeepTheirInvariants, PTL

\* A stop is permanent, in the composition too.
THEOREM StopsArePermanentBeside == ServicesSpec => StopIsPermanent
<1>1. PartsInv /\ [ServicesNext]_servicesVars
        => [\A x \in Scopes : IsStopped(x) => controls'[x] = controls[x]]_controlVars
  BY PartsMove, StopStep DEF PartsInv
<1> QED
  BY <1>1, PartsKeepTheirInvariants, PTL DEF ServicesSpec, StopIsPermanent

\* What is pushed was tested as it is and passed, within the budget of its PBI,
\* whatever the breaker evicted or tripped on the way.
THEOREM GreenIsPushedAlways == ServicesSpec => []GreenIsPushed
<1>1. PartsInv => GreenIsPushed
  BY CodingIsGood DEF PartsInv, BreakerPartInv, GreenIsPushed
<1> QED
  BY <1>1, PartsKeepTheirInvariants, PTL

\* What the set-up records is so: the deployment a run of df:sandbox-up reports,
\* the schema of a database whoever migrated it from whatever checkouts, the
\* store of the run history whoever opened it, repaired or died doing so.
THEOREM SetupStaysReal == ServicesSpec => []SetupIsReal
<1>1. PartsInv => SetupIsReal
  BY MigrateIsGood, StartIsGood DEF PartsInv, ProvisionInv, SetupIsReal
<1> QED
  BY <1>1, PartsKeepTheirInvariants, PTL

\* No unsigned delivery is let in where signatures are required, none starts
\* what it did not ask for, and an answer says what became of it; and the gate of
\* the self-improvement loop opens only for what an operator ordered, however the
\* orders met and whatever could not be read or saved.
THEOREM EntranceStaysTrue == ServicesSpec => []EntranceIsTrue
<1>1. PartsInv => EntranceIsTrue
  BY WebhookIsGood, GateIsGood DEF PartsInv, EntranceIsTrue
<1> QED
  BY <1>1, PartsKeepTheirInvariants, PTL

\* The loop keeps what it accepted and only that, each accepted change bought its
\* gain, and no cycle undoes one accepted after it was staged, through any number
\* of cycles, failures and restarts.
THEOREM LoopKeepsWhatHelped == ServicesSpec => []KeptIsAccepted
<1>1. PartsInv => KeptIsAccepted
  BY LoopIsGood DEF PartsInv
<1> QED
  BY <1>1, PartsKeepTheirInvariants, PTL
=============================================================================
