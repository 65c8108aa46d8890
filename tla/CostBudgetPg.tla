----------------------------- MODULE CostBudgetPg -----------------------------
(***************************************************************************)
(* The PostgreSQL budget store (cost-budget-store-postgres.ts) under the   *)
(* same governor.  Its transactions run at READ COMMITTED, so what matters *)
(* is which rows they lock and when: reserve locks the budget row, settle  *)
(* locks the reservation row and then the budget row, and the reaper       *)
(* SELECTs the stale reservations without a lock and locks rows only as it *)
(* updates them.  Row locks are held until the transaction ends; a         *)
(* transaction may fail at any point (a lost connection, a deadlock        *)
(* victim) and is then rolled back.                                        *)
(***************************************************************************)
EXTENDS CostBudget

VARIABLES
    budgetLock,       \* the call whose transaction locks a budget row, or Nil
    reservationLock,  \* the call whose transaction locks a reservation, or Nil
    selected,         \* reservations a reap has read and not yet updated
    updated           \* reservations a reap has updated, not yet committed

pgVars == <<budgetVars, budgetLock, reservationLock, selected, updated>>

PgTypeOK ==
    /\ row \in [Budgets -> Row \cup {Nil}]
    /\ res \in [Calls -> ReservationState]
    /\ age \in [Calls -> 0..TTL]
    /\ pc \in [Calls -> {"idle", "reap", "reaping", "reserve", "running",
                         "settling", "over"}]
    /\ sinceReap \in [Procs -> 0..Interval]
    /\ charged \in [Calls -> Nat]
    /\ peakCap \in [Budgets -> Nat]
    /\ budgetLock \in [Budgets -> Calls \cup {Nil}]
    /\ reservationLock \in [Calls -> Calls \cup {Nil}]
    /\ selected \in [Calls -> SUBSET Calls]
    /\ updated \in [Calls -> SUBSET Calls]

PgInit ==
    /\ Init
    /\ budgetLock = [b \in Budgets |-> Nil]
    /\ reservationLock = [c \in Calls |-> Nil]
    /\ selected = [c \in Calls |-> {}]
    /\ updated = [c \in Calls |-> {}]

Unlocked(b) == budgetLock[b] = Nil

\* The transactions of the calls cs end and their locks are free.
EndTransactions(cs) ==
    /\ budgetLock' = [b \in Budgets |->
           IF budgetLock[b] \in cs THEN Nil ELSE budgetLock[b]]
    /\ reservationLock' = [x \in Calls |->
           IF reservationLock[x] \in cs THEN Nil ELSE reservationLock[x]]
    /\ selected' = [c \in Calls |-> IF c \in cs THEN {} ELSE selected[c]]
    /\ updated' = [c \in Calls |-> IF c \in cs THEN {} ELSE updated[c]]

NoTransaction == UNCHANGED <<budgetLock, reservationLock, selected, updated>>

-----------------------------------------------------------------------------
(* The reaper's transaction                                                *)

\* SELECT ... WHERE settled = FALSE AND created_at <= cutoff, without a lock.
ReapSelect(c) ==
    LET p == ProcOf[c]
    IN  /\ pc[c] = "reap"
        /\ IF sinceReap[p] = Interval
           THEN /\ sinceReap' = [sinceReap EXCEPT ![p] = 0]
                /\ selected' = [selected EXCEPT ![c] = Stale]
                /\ Goto(c, "reaping")
           ELSE Goto(c, "reserve") /\ UNCHANGED <<sinceReap, selected>>
        /\ UNCHANGED <<row, res, age, charged, peakCap,
                       budgetLock, reservationLock, updated>>

\* The two UPDATEs of one selected row: each waits for its row lock.
ReapUpdate(c, x) ==
    LET b == BudgetOf[x]
    IN  /\ pc[c] = "reaping"
        /\ x \in selected[c]
        /\ budgetLock[b] \in {Nil, c}
        /\ reservationLock[x] = Nil
        /\ budgetLock' = [budgetLock EXCEPT ![b] = c]
        /\ reservationLock' = [reservationLock EXCEPT ![x] = c]
        /\ selected' = [selected EXCEPT ![c] = @ \ {x}]
        /\ updated' = [updated EXCEPT ![c] = @ \cup {x}]
        /\ UNCHANGED budgetVars

\* COMMIT: every updated row was deducted from its budget and marked settled,
\* whether or not it still was open when it was updated.
ReapCommit(c) ==
    /\ pc[c] = "reaping"
    /\ selected[c] = {}
    /\ row' = [b \in Budgets |->
                  IF row[b] = Nil THEN Nil
                  ELSE [row[b] EXCEPT !.reserved = Minus(@,
                          EstimateOf({x \in updated[c] : BudgetOf[x] = b}))]]
    /\ res' = [x \in Calls |->
                  IF x \in updated[c] /\ res[x] = "open" THEN "reaped" ELSE res[x]]
    /\ Goto(c, "reserve")
    /\ EndTransactions({c})
    /\ UNCHANGED <<age, sinceReap, charged, peakCap>>

-----------------------------------------------------------------------------
(* The settling transaction                                                *)

\* SELECT ... FOR UPDATE of the reservation: already settled is a no-op.
SettleSelect(c) ==
    /\ pc[c] = "running"
    /\ reservationLock[c] = Nil
    /\ IF res[c] = "open"
       THEN /\ reservationLock' = [reservationLock EXCEPT ![c] = c]
            /\ Goto(c, "settling")
       ELSE Goto(c, "over") /\ UNCHANGED reservationLock
    /\ UNCHANGED <<row, res, age, sinceReap, charged, peakCap,
                   budgetLock, selected, updated>>

SettleCommit(c) ==
    /\ pc[c] = "settling"
    /\ Unlocked(BudgetOf[c])
    /\ \E actual \in Actual(c) : Charge(c, actual)
    /\ Goto(c, "over")
    /\ EndTransactions({c})
    /\ UNCHANGED <<age, sinceReap, peakCap>>

\* A transaction fails: a reap is forgotten, a settlement is given up.
Rollback(c) ==
    /\ pc[c] \in {"reaping", "settling"}
    /\ Goto(c, IF pc[c] = "reaping" THEN "reserve" ELSE "over")
    /\ EndTransactions({c})
    /\ UNCHANGED <<row, res, age, sinceReap, charged, peakCap>>

-----------------------------------------------------------------------------
PgReserve(c) ==
    /\ Unlocked(BudgetOf[c])
    /\ Reserve(c)
    /\ NoTransaction

PgCrash(p) ==
    /\ Crash(p)
    /\ EndTransactions({c \in Calls : ProcOf[c] = p})

PgSetBudgetCap(b, cap) ==
    /\ Unlocked(b)
    /\ SetBudgetCap(b, cap)
    /\ NoTransaction

PgNext ==
    \/ \E c \in Calls :
          \/ Admit(c) /\ NoTransaction
          \/ ReapSelect(c) \/ ReapCommit(c)
          \/ \E x \in Calls : ReapUpdate(c, x)
          \/ PgReserve(c)
          \/ SettleSelect(c) \/ SettleCommit(c) \/ Rollback(c)
    \/ \E p \in Procs : PgCrash(p)
    \/ Tick /\ NoTransaction
    \/ \E b \in Budgets, cap \in Caps : PgSetBudgetCap(b, cap)

PgSpec == PgInit /\ [][PgNext]_pgVars
=============================================================================
