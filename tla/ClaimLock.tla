------------------------------ MODULE ClaimLock ------------------------------
(***************************************************************************)
(* What the active-run claim of the run ledger promises, with none of its  *)
(* tables: a run takes the lock of its issue once, when the lock is free,  *)
(* and gives it back once.                                                 *)
(***************************************************************************)
CONSTANTS Runs, Issues, Nil

VARIABLES
    held,   \* the runs that hold the lock of their issue
    ended,  \* the runs that have given it back
    owner   \* the issue of a run, Nil before it takes the lock

lockVars == <<held, ended, owner>>

Init ==
    /\ held = {}
    /\ ended = {}
    /\ owner = [r \in Runs |-> Nil]

\* A run that never held a lock takes the lock of issue i if it is free.
Acquire(r, i) ==
    /\ r \notin held \cup ended
    /\ \A q \in held : owner[q] # i
    /\ held' = held \cup {r}
    /\ owner' = [owner EXCEPT ![r] = i]
    /\ UNCHANGED ended

\* The holder gives the lock back and never takes it again.
Release(r) ==
    /\ r \in held
    /\ held' = held \ {r}
    /\ ended' = ended \cup {r}
    /\ UNCHANGED owner

Next ==
    \/ \E r \in Runs, i \in Issues : Acquire(r, i)
    \/ \E r \in Runs : Release(r)

Spec == Init /\ [][Next]_lockVars
=============================================================================
