-------------------------------- MODULE Breaker --------------------------------
(***************************************************************************)
(* The factory circuit breaker (agent/lib/dark-factory/circuit-breaker.ts) *)
(* as breaker-wiring.ts binds it to the coding loop: one table of PBIs,    *)
(* one per issue, that counts worker minutes and failed cycles and trips   *)
(* a PBI over either limit.  The table and the list of trips are bounded,  *)
(* and an entry may be evicted, expire or be reset at any time.  All is in *)
(* memory and every method runs to its end, so each is one action.         *)
(***************************************************************************)
EXTENDS Naturals, Sequences, SequencesExt, FiniteSets

CONSTANTS
    Pbis,          \* PBI keys (pbiIdForIssue)
    Minutes,       \* minutes one activity is rounded up to
    MaxMinutes,    \* maxWorkerMinutesPerPbi
    MaxFailed,     \* maxFailedSelfCorrect
    MaxTrips,      \* maxTripsPerPbi
    MaxEntries,    \* maxStateEntries (0 would evict every entry at once)
    MaxEvents,     \* maxTotalTripEvents
    MaxSafe        \* Number.MAX_SAFE_INTEGER

ASSUME BreakerAssumption ==
    /\ {MaxMinutes, MaxFailed, MaxTrips, MaxEntries, MaxEvents} \subseteq Nat \ {0}
    /\ MaxSafe \in Nat /\ MaxMinutes <= MaxSafe
    /\ Minutes \subseteq Nat

VARIABLES
    pbiState,  \* CircuitBreaker.state: a record for each tracked PBI
    recent,    \* the tracked PBIs, the one idle for longest first
    trips      \* CircuitBreaker.tripEvents

breakerVars == <<pbiState, recent, trips>>

Fresh == [minutes |-> 0, failed |-> 0, tripped |-> FALSE, trips |-> 0]

PbiRecord == [minutes : 0..MaxSafe, failed : 0..MaxFailed,
              tripped : BOOLEAN, trips : 0..MaxTrips]

TripEvent == [pbi : Pbis, minutes : 0..MaxSafe, reason : {"minutes", "failed"}]

BreakerTypeOK ==
    /\ recent \in Seq(Pbis) /\ IsInjective(recent)
    /\ Len(recent) <= MaxEntries
    /\ DOMAIN pbiState = ToSet(recent)
    /\ \A p \in ToSet(recent) : pbiState[p] \in PbiRecord
    /\ \A n \in DOMAIN trips : trips[n] \in TripEvent
    /\ Len(trips) <= MaxEvents

BreakerInit ==
    /\ pbiState = [p \in {} |-> Fresh]
    /\ recent = <<>>
    /\ trips = <<>>

IsTripped(p) == p \in DOMAIN pbiState /\ pbiState[p].tripped

-----------------------------------------------------------------------------
(* The parts of recordWorkerActivity, on an entry and the list of trips    *)

\* trip: a full list of trips, or of this PBI's, drops it.
Trip(b, p, reason) ==
    IF Len(b.events) >= MaxEvents \/ b.entry.trips >= MaxTrips THEN b
    ELSE [entry  |-> [b.entry EXCEPT !.tripped = TRUE, !.trips = @ + 1],
          events |-> Append(b.events, [pbi |-> p, minutes |-> b.entry.minutes,
                                       reason |-> reason])]

\* checkedWorkerMinutesAdd: an overflow trips instead of adding.
AddMinutes(b, p, m) ==
    IF b.entry.minutes + m > MaxSafe THEN Trip(b, p, "minutes")
    ELSE [b EXCEPT !.entry.minutes = @ + m]

\* One failed cycle.  Only "at least MaxFailed" is ever asked of the count.
AddFailure(b, p) ==
    LET failed == [b EXCEPT !.entry.failed = IF @ < MaxFailed THEN @ + 1 ELSE @]
    IN  IF failed.entry.failed >= MaxFailed THEN Trip(failed, p, "failed") ELSE failed

\* Mutant: a PBI at its limit is not over it.
ChargeBeyond(b, p, m, ok) ==
    LET added == AddMinutes(b, p, m)
    IN  IF added.entry.minutes > MaxMinutes THEN Trip(added, p, "minutes")
        ELSE IF ok THEN added ELSE AddFailure(added, p)

\* A success leaves the count of failures as it is.
ChargeWork(b, p, m, ok) ==
    LET added == AddMinutes(b, p, m)
    IN  IF added.entry.minutes >= MaxMinutes THEN Trip(added, p, "minutes")
        ELSE IF ok THEN added ELSE AddFailure(added, p)

\* Mutant: one entry more than the limit is kept.
KeptBeyond(idle) == SubSeq(idle, IF Len(idle) > MaxEntries + 1
                                 THEN Len(idle) - MaxEntries ELSE 1, Len(idle))

\* enforceStateLimit: the longest idle entries go, tripped ones included.
Kept(idle) == SubSeq(idle, IF Len(idle) > MaxEntries
                           THEN Len(idle) - MaxEntries + 1 ELSE 1, Len(idle))

\* A PBI that is touched leaves its place, which is the only one it has.
Without(idle, p) ==
    IF p \in ToSet(idle) THEN RemoveAt(idle, CHOOSE i \in DOMAIN idle : idle[i] = p)
    ELSE idle

\* What is left of s at the places S, in its order.
Remaining(s, S) ==
    LET place == CHOOSE o \in [1 .. Cardinality(S) -> S] :
                     \A i, j \in DOMAIN o : i < j => o[i] < o[j]
    IN  [i \in 1 .. Cardinality(S) |-> s[place[i]]]

\* Keep the entries of a sequence of PBIs only.
Track(entries, idle) ==
    /\ recent' = idle
    /\ pbiState' = [p \in ToSet(idle) |-> entries[p]]

Entry(p) == IF p \in DOMAIN pbiState THEN pbiState[p] ELSE Fresh

-----------------------------------------------------------------------------
(* The operations                                                          *)

\* Activities below minDurationMs are discarded: they change nothing.
RecordWorkerActivity(p, m, ok) ==
    /\ ~IsTripped(p)
    /\ LET b == ChargeWork([entry |-> Entry(p), events |-> trips], p, m, ok)
       IN  /\ Track([q \in Pbis |-> IF q = p THEN b.entry ELSE Entry(q)],
                    Kept(Append(Without(recent, p), p)))
           /\ trips' = b.events

\* reset: the record starts over, and its trips are forgotten.
Reset(p) ==
    /\ IF p \in DOMAIN pbiState
       THEN Track([pbiState EXCEPT ![p] = Fresh], Append(Without(recent, p), p))
       ELSE UNCHANGED <<pbiState, recent>>
    /\ trips' = Remaining(trips, {n \in DOMAIN trips : trips[n].pbi # p})

\* cleanupStaleStates: the n longest idle are older than the maximal age.
CleanupStaleStates(n) ==
    LET Stale(p) == IF pbiState[p].tripped THEN pbiState[p].trips >= MaxTrips
                    ELSE p \in ToSet(SubSeq(recent, 1, n))
    IN  /\ Track(pbiState, Remaining(recent, {i \in DOMAIN recent : ~Stale(recent[i])}))
        /\ UNCHANGED trips

Destroy ==
    /\ pbiState' = [p \in {} |-> Fresh]
    /\ recent' = <<>>
    /\ trips' = <<>>

BreakerNext ==
    \/ \E p \in Pbis, m \in Minutes, ok \in BOOLEAN : RecordWorkerActivity(p, m, ok)
    \/ \E p \in Pbis : Reset(p)
    \/ \E n \in 0..Len(recent) : CleanupStaleStates(n)
    \/ Destroy

BreakerSpec == BreakerInit /\ [][BreakerNext]_breakerVars

-----------------------------------------------------------------------------
(* Properties                                                              *)

\* Over budget means stopped: while the list of trips has room, an activity
\* that takes its PBI to a limit, whatever was evicted, expired or reset
\* before, leaves it tripped; and a tripped PBI stays as it is until it is
\* evicted, expires or is reset.
BreakerStops ==
    [][\A p \in DOMAIN pbiState' :
          LET was == Entry(p)
              is == pbiState'[p]
          IN  /\ is # was /\ Len(trips) < MaxEvents =>
                     \/ is.tripped
                     \/ /\ is.minutes < MaxMinutes
                        /\ is.failed # was.failed => is.failed < MaxFailed
              /\ IsTripped(p) => is \in {was, Fresh}]_breakerVars
=============================================================================
