------------------------------ MODULE CostBudget ------------------------------
(***************************************************************************)
(* LLM cost budgets: the governor and the gate around a model call         *)
(* (cost-governor.ts, cost-gate.ts, governed-model.ts) over the SQLite and *)
(* in-memory budget stores (cost-budget-store*.ts), whose every operation  *)
(* is one transaction.  A call's estimated cost is reserved before it      *)
(* starts and settled to its measured cost afterwards, which may be higher *)
(* (nothing limits the completion to the estimated output tokens); a       *)
(* reservation nobody settles within the TTL is reaped by a later          *)
(* admission.                                                              *)
(*                                                                         *)
(* A call is one `step.started` of an agent: it admits (ensure the budget, *)
(* reap, reserve), runs, and settles.  Its process may die at any point.   *)
(* Time is counted in ticks, and only ages up to a limit matter.           *)
(***************************************************************************)
EXTENDS Integers, FiniteSets, FiniteSetsExt

CONSTANTS
    Calls,      \* model calls
    Procs,      \* processes; each has one governor instance
    ProcOf,     \* the process a call runs in
    Budgets,    \* budget rows: a period, a category and perhaps a tenant
    Tenants,    \* the budgets of tenants, which only an operator provisions
    BudgetOf,   \* the budget a call is charged to
    Estimate,   \* what is reserved for a call, from the price table
    Overrun,    \* bound: how far a measured cost can exceed the estimate
    EnvCap,     \* the cap a global budget is created with
    Caps,       \* the caps an operator may set
    TTL,        \* RESERVATION_TTL_MS in ticks
    Interval,   \* REAP_INTERVAL_MS in ticks
    Nil         \* no row

Row == [cap : Nat, spent : Nat, reserved : Nat, calls : Nat]

ASSUME BudgetAssumption ==
    /\ IsFiniteSet(Calls)
    /\ ProcOf \in [Calls -> Procs]
    /\ BudgetOf \in [Calls -> Budgets]
    /\ Estimate \in [Calls -> Nat]
    /\ Overrun \in Nat
    /\ Tenants \subseteq Budgets
    /\ EnvCap \in Nat
    /\ Caps \subseteq Nat
    /\ TTL \in Nat \ {0}
    /\ Interval \in Nat \ {0}
    /\ Nil \notin Row

VARIABLES
    row,        \* df_cost_budgets, Nil while the row is absent
    res,        \* df_cost_reservations: the reservation of each call
    age,        \* ticks since the reservation was made, at most TTL
    pc,         \* where each call is
    sinceReap,  \* ticks since a process last reaped, at most Interval
    charged,    \* what settling charged for a call (history)
    peakCap     \* the highest cap a budget has had (history)

budgetVars == <<row, res, age, pc, sinceReap, charged, peakCap>>

\* "settled" and "reaped" are the one flag `settled` of the reservation row;
\* they are told apart here for the properties only.
ReservationState == {"none", "open", "settled", "reaped"}

TypeOK ==
    /\ row \in [Budgets -> Row \cup {Nil}]
    /\ res \in [Calls -> ReservationState]
    /\ age \in [Calls -> 0..TTL]
    /\ pc \in [Calls -> {"idle", "reap", "reserve", "running", "over"}]
    /\ sinceReap \in [Procs -> 0..Interval]
    /\ charged \in [Calls -> Nat]
    /\ peakCap \in [Budgets -> Nat]

Init ==
    /\ row = [b \in Budgets |-> Nil]
    /\ res = [c \in Calls |-> "none"]
    /\ age = [c \in Calls |-> 0]
    /\ pc = [c \in Calls |-> "idle"]
    /\ sinceReap = [p \in Procs |-> Interval]
    /\ charged = [c \in Calls |-> 0]
    /\ peakCap = [b \in Budgets |-> 0]

NewRow(cap) == [cap |-> cap, spent |-> 0, reserved |-> 0, calls |-> 0]
Highest(m, n) == IF m >= n THEN m ELSE n

Minus(m, n) == IF m >= n THEN m - n ELSE 0   \* MAX(0, m - n)
Goto(c, step) == pc' = [pc EXCEPT ![c] = step]

OpenOf(b) == {c \in Calls : res[c] = "open" /\ BudgetOf[c] = b}
EstimateOf(cs) == MapThenSumSet(LAMBDA c : Estimate[c], cs)

\* Reservations the reaper may release: as old as the TTL counts as stale.
Stale == {c \in Calls : res[c] = "open" /\ age[c] = TTL}

-----------------------------------------------------------------------------
(* The governor: admit                                                     *)

\* A global budget is created from the configured cap when it is absent; a
\* tenant nobody provisioned is refused.
Admit(c) ==
    LET b == BudgetOf[c]
    IN  /\ pc[c] = "idle"
        /\ IF row[b] = Nil /\ b \in Tenants
           THEN Goto(c, "over") /\ UNCHANGED <<row, peakCap>>
           ELSE /\ Goto(c, "reap")
                /\ row' = [row EXCEPT ![b] = IF @ = Nil THEN NewRow(EnvCap) ELSE @]
                /\ peakCap' = [peakCap EXCEPT ![b] = Highest(@, row'[b].cap)]
        /\ UNCHANGED <<res, age, sinceReap, charged>>

\* reapStaleReservations: every stale reservation is released uncharged.
ReapStale ==
    /\ row' = [b \in Budgets |->
                  IF row[b] = Nil THEN Nil
                  ELSE [row[b] EXCEPT
                          !.reserved = Minus(@, EstimateOf(Stale \cap OpenOf(b)))]]
    /\ res' = [c \in Calls |-> IF c \in Stale THEN "reaped" ELSE res[c]]

\* At most one reap per process and interval; the interval starts over even
\* when the store fails, and a failed reap vetoes nothing.
Reap(c) ==
    LET p == ProcOf[c]
    IN  /\ pc[c] = "reap"
        /\ \/ /\ sinceReap[p] = Interval
              /\ sinceReap' = [sinceReap EXCEPT ![p] = 0]
              /\ ReapStale \/ UNCHANGED <<row, res>>
           \/ /\ sinceReap[p] < Interval
              /\ UNCHANGED <<sinceReap, row, res>>
        /\ Goto(c, "reserve")
        /\ UNCHANGED <<age, charged, peakCap>>

\* Mutant: what the calls in flight have reserved is not counted.
FitsSpent(c) ==
    LET r == row[BudgetOf[c]]
    IN  r.spent + Estimate[c] <= r.cap

\* reserve: admit the call's estimate against the cap, or refuse the call.
Fits(c) ==
    LET r == row[BudgetOf[c]]
    IN  r.spent + r.reserved + Estimate[c] <= r.cap

Reserve(c) ==
    /\ pc[c] = "reserve"
    /\ IF Fits(c)
       THEN /\ Goto(c, "running")
            /\ res' = [res EXCEPT ![c] = "open"]
            /\ age' = [age EXCEPT ![c] = 0]
            /\ row' = [row EXCEPT ![BudgetOf[c]].reserved = @ + Estimate[c],
                                  ![BudgetOf[c]].calls = @ + 1]
       ELSE Goto(c, "over") /\ UNCHANGED <<res, age, row>>
    /\ UNCHANGED <<sinceReap, charged, peakCap>>

-----------------------------------------------------------------------------
(* Settling, crashing, time and the operator                               *)

\* Mutant: a reservation that was reaped is charged all the same.
ChargeReaped(c, actual) ==
    /\ row' = [row EXCEPT ![BudgetOf[c]].spent = @ + actual,
                          ![BudgetOf[c]].reserved = Minus(@, Estimate[c])]
    /\ res' = [res EXCEPT ![c] = IF @ = "open" THEN "settled" ELSE @]
    /\ charged' = [charged EXCEPT ![c] = @ + actual]

\* settle(reservation, actual): charges once; a reservation already settled
\* or reaped is left as it is.
Charge(c, actual) ==
    IF res[c] = "open"
    THEN /\ row' = [row EXCEPT
                 ![BudgetOf[c]].spent = @ + actual,
                 ![BudgetOf[c]].reserved = Minus(@, Estimate[c])]
         /\ res' = [res EXCEPT ![c] = "settled"]
         /\ charged' = [charged EXCEPT ![c] = @ + actual]
    ELSE UNCHANGED <<row, res, charged>>

\* The cost of a call that ran: measured, or unknown and then the estimate.
Actual(c) == 0..(Estimate[c] + Overrun)

\* The call finished; a settlement that fails leaves the reservation open.
Settle(c) ==
    /\ pc[c] = "running"
    /\ \/ \E actual \in Actual(c) : Charge(c, actual)
       \/ UNCHANGED <<row, res, charged>>
    /\ Goto(c, "over")
    /\ UNCHANGED <<age, sinceReap, peakCap>>

\* The process dies with the calls in it and comes back without its memory.
Crash(p) ==
    /\ \E c \in Calls : ProcOf[c] = p /\ pc[c] \notin {"idle", "over"}
    /\ pc' = [c \in Calls |-> IF ProcOf[c] = p /\ pc[c] # "idle"
                              THEN "over" ELSE pc[c]]
    /\ sinceReap' = [sinceReap EXCEPT ![p] = Interval]
    /\ UNCHANGED <<row, res, age, charged, peakCap>>

\* Mutant: time since the last reap is never capped.
TickOn ==
    /\ age' = [c \in Calls |-> IF res[c] = "open" THEN age[c] + 1 ELSE age[c]]
    /\ sinceReap' = [p \in Procs |-> sinceReap[p] + 1]
    /\ UNCHANGED <<row, res, pc, charged, peakCap>>

Tick ==
    /\ age' = [c \in Calls |-> IF res[c] = "open" /\ age[c] < TTL
                               THEN age[c] + 1 ELSE age[c]]
    /\ sinceReap' = [p \in Procs |-> IF sinceReap[p] < Interval
                                     THEN sinceReap[p] + 1 ELSE sinceReap[p]]
    /\ <<age, sinceReap>>' # <<age, sinceReap>>
    /\ UNCHANGED <<row, res, pc, charged, peakCap>>

\* Mutant: a new cap starts the accounting of the period over.
SetBudgetCapAnew(b, cap) ==
    /\ row' = [row EXCEPT ![b] = NewRow(cap)]
    /\ peakCap' = [peakCap EXCEPT ![b] = Highest(@, cap)]
    /\ UNCHANGED <<res, age, pc, sinceReap, charged>>

\* setBudgetCap: the accounting of the period survives a new cap.
SetBudgetCap(b, cap) ==
    /\ row' = [row EXCEPT ![b] = IF @ = Nil THEN NewRow(cap)
                                 ELSE [@ EXCEPT !.cap = cap]]
    /\ peakCap' = [peakCap EXCEPT ![b] = Highest(@, cap)]
    /\ UNCHANGED <<res, age, pc, sinceReap, charged>>

Next ==
    \/ \E c \in Calls : Admit(c) \/ Reap(c) \/ Reserve(c) \/ Settle(c)
    \/ \E p \in Procs : Crash(p)
    \/ Tick
    \/ \E b \in Budgets, cap \in Caps : SetBudgetCap(b, cap)

Spec == Init /\ [][Next]_budgetVars

-----------------------------------------------------------------------------
(* Properties                                                              *)

\* The accumulator is truthful: what a budget shows as reserved is exactly
\* what its unsettled reservations hold, whatever was settled late, reaped,
\* or stranded by a crash.  Nothing erodes the ceiling for ever (#443).
ReservedIsOutstanding ==
    \A b \in Budgets :
        IF row[b] = Nil THEN OpenOf(b) = {}
        ELSE row[b].reserved = EstimateOf(OpenOf(b))

\* What the calls of a budget cost beyond their estimates.
Excess(b) == MapThenSumSet(LAMBDA c : Minus(charged[c], Estimate[c]),
                           {c \in Calls : BudgetOf[c] = b})

\* The hard ceiling: money spent and money reserved for the calls in flight
\* never exceed the highest cap an operator ever set for the budget, but for
\* what the measured costs exceeded their estimates.
SpendWithinCap ==
    \A b \in Budgets :
        row[b] # Nil =>
            row[b].spent + EstimateOf(OpenOf(b)) <= peakCap[b] + Excess(b)

\* A budget's row is the account of its calls: what it has spent is the sum of
\* what they were charged, each at most once (a late settle after a reap charges
\* nothing), and every admitted call is counted, once, and stays counted when it
\* is reaped, so runaway retries stay visible.
SpentIsWhatWasCharged ==
    /\ \A b \in Budgets :
           row[b] # Nil =>
               /\ row[b].spent = MapThenSumSet(LAMBDA c : charged[c],
                                     {c \in Calls : BudgetOf[c] = b})
               /\ row[b].calls =
                      Cardinality({c \in Calls : BudgetOf[c] = b /\ res[c] # "none"})
    /\ \A c \in Calls :
           /\ charged[c] <= Estimate[c] + Overrun
           /\ charged[c] > 0 => res[c] = "settled"

\* The committed amount of b shrinks and no reservation of it is released.
ShrinksUnreleased(b) ==
    /\ row[b] # Nil
    /\ row[b].spent + row[b].reserved > row'[b].spent + row'[b].reserved
    /\ \A c \in OpenOf(b) : res'[c] \notin {"settled", "reaped"}

\* Budget comes back only from a reservation: whatever shrinks the committed
\* amount of a budget settles or reaps one, and what is left of the others
\* stays reserved.
CommitmentShrinksByReleaseOnly ==
    [][\A b \in Budgets : ~ShrinksUnreleased(b)]_budgetVars
=============================================================================
