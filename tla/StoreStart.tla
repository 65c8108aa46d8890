------------------------------- MODULE StoreStart -------------------------------
(***************************************************************************)
(* Opening the run history store: handle of run-history-store.ts (SQLite)  *)
(* and ensureSchema of run-history-postgres.ts.  A process that opens the  *)
(* store ends all but the newest of the runs that are active for one       *)
(* issue, which the code before the claim allowed, creates the index that  *)
(* is the claim, and (SQLite) adds the columns an older file lacks.  No    *)
(* transaction holds these statements together, while another process      *)
(* opens the same store and the runs go on.                                *)
(*                                                                         *)
(* Runs are the numbers of their creation order, all of one issue.         *)
(***************************************************************************)
EXTENDS Naturals, FiniteSets, FiniteSetsExt, Sequences

CONSTANTS
    OldRuns,      \* runs of one issue, in the order of their creation
    Openers,      \* processes that open the store
    MaxOpenings   \* times the store is opened (a bound of the model)

ASSUME StartAssumption ==
    /\ OldRuns \subseteq Nat /\ MaxOpenings \in Nat
    /\ \E n \in OldRuns : OldRuns \subseteq 0..n

VARIABLES
    history,      \* "sqlite" or "postgres"
    runAt,        \* the status of each summary row
    recordedEnds, \* runs whose log has the event of the repair
    claimed,      \* whether the unique index is there
    columns,      \* the columns added since the file was made
    opener,       \* where each process is
    openings,     \* openings so far
    cutOff,       \* history: an opening that had begun to write did not end
    settled       \* history: runs that ended while no repair had selected them

startVars == <<history, runAt, recordedEnds, claimed, columns, opener, openings,
               cutOff, settled>>

\* What handle adds: a check, by PRAGMA table_info, and the columns one absence
\* stands for.  (The receipts' two and the other events' are each like trace.)
Upgrades == << [check |-> "tenant_id", adds |-> <<"tenant_id", "git_diff">>],
               [check |-> "trace", adds |-> <<"trace">>] >>
Columns == {"tenant_id", "git_diff", "trace"}

\* at: what the process does next; todo: the losers it selected and has not
\* recorded; half: the newest of them is updated; group, left: the upgrade it is
\* at and the columns it has yet to add.
Closed == [at |-> "closed", todo |-> {}, half |-> FALSE, group |-> 1, left |-> <<>>]

StartTypeOK ==
    /\ history \in {"sqlite", "postgres"}
    /\ runAt \in [OldRuns -> {"none", "active", "ended", "repaired"}]
    /\ recordedEnds \subseteq OldRuns /\ settled \subseteq OldRuns
    /\ claimed \in BOOLEAN /\ cutOff \in BOOLEAN
    /\ columns \subseteq Columns
    /\ \A p \in Openers :
          /\ opener[p].at \in {"closed", "select", "repair", "index", "upgrade",
                               "open", "stuck"}
          /\ opener[p].todo \subseteq OldRuns /\ opener[p].left \in Seq(Columns)
          /\ opener[p].half \in BOOLEAN /\ opener[p].group \in 1..(Len(Upgrades) + 1)
    /\ openings \in 0..MaxOpenings

\* A store some earlier version left behind: runs of an issue, any of them
\* active, and for SQLite a file of one of three ages.
StartInit ==
    /\ history \in {"sqlite", "postgres"}
    /\ runAt \in {f \in [OldRuns -> {"none", "active", "ended"}] :
                    \A m, n \in OldRuns : m < n /\ f[m] = "none" => f[n] = "none"}
    /\ columns \in {{}, {"tenant_id", "git_diff"}, Columns}
    /\ history = "postgres" => columns = Columns
    /\ recordedEnds = {}
    /\ settled = {n \in OldRuns : runAt[n] = "ended"}
    /\ claimed = FALSE /\ cutOff = FALSE
    /\ opener = [p \in Openers |-> Closed]
    /\ openings = 0

Active == {n \in OldRuns : runAt[n] = "active"}

-----------------------------------------------------------------------------
(* Opening                                                                 *)

\* CREATE TABLE IF NOT EXISTS, and for PostgreSQL every column, in one query.
OpenStore(p) ==
    /\ opener[p].at = "closed"
    /\ openings < MaxOpenings
    /\ openings' = openings + 1
    /\ opener' = [opener EXCEPT ![p] = [Closed EXCEPT !.at = "select"]]
    /\ UNCHANGED <<history, runAt, recordedEnds, claimed, columns, cutOff, settled>>

\* Mutant: the oldest run is kept.
OldestLosers == {n \in Active : \E m \in Active : m < n}

\* All but the newest active run of the issue, to be taken newest first.
Losers == {n \in Active : \E m \in Active : m > n}

\* repairActiveRunDuplicates: SELECT.  PostgreSQL updates them all at once,
\* next; SQLite each in its turn.
SelectLosers(p) ==
    /\ opener[p].at = "select"
    /\ opener' = [opener EXCEPT ![p].at = IF Losers = {} THEN "index" ELSE "repair",
                                ![p].todo = Losers]
    /\ UNCHANGED <<history, runAt, recordedEnds, claimed, columns, openings, cutOff, settled>>

\* UPDATE ... SET status = 'aborted' WHERE run_id is theirs, whatever it is now.
UpdateLosers(p) ==
    /\ opener[p].at = "repair" /\ ~opener[p].half
    /\ LET ls == IF history = "postgres" THEN opener[p].todo
                 ELSE {Max(opener[p].todo)}
       IN runAt' = [n \in OldRuns |-> IF n \in ls THEN "repaired" ELSE runAt[n]]
    /\ opener' = [opener EXCEPT ![p].half = TRUE]
    /\ UNCHANGED <<history, recordedEnds, claimed, columns, openings, cutOff, settled>>

\* INSERT of the event, whose id another repair of the run has taken or not.
RecordLoser(p) ==
    /\ opener[p].at = "repair" /\ opener[p].half
    /\ LET l == Max(opener[p].todo) rest == opener[p].todo \ {l}
       IN /\ l \notin recordedEnds
          /\ recordedEnds' = recordedEnds \cup {l}
          /\ opener' = [opener EXCEPT
                ![p].todo = rest,
                ![p].half = history = "postgres" /\ rest # {},
                ![p].at = IF rest = {} THEN "index" ELSE "repair"]
    /\ UNCHANGED <<history, runAt, claimed, columns, openings, cutOff, settled>>

\* CREATE UNIQUE INDEX IF NOT EXISTS.
CreateClaim(p) ==
    /\ opener[p].at = "index"
    /\ claimed \/ Cardinality(Active) <= 1
    /\ claimed' = TRUE
    /\ opener' = [opener EXCEPT ![p].at = IF history = "sqlite" THEN "upgrade" ELSE "open"]
    /\ UNCHANGED <<history, runAt, recordedEnds, columns, openings, cutOff, settled>>

\* PRAGMA table_info, once per group of columns.
CheckColumns(p) ==
    /\ opener[p].at = "upgrade" /\ opener[p].left = <<>>
    /\ opener[p].group <= Len(Upgrades)
    /\ LET u == Upgrades[opener[p].group]
       IN opener' = [opener EXCEPT ![p].group = @ + 1,
                                   ![p].left = IF u.check \in columns THEN <<>> ELSE u.adds]
    /\ UNCHANGED <<history, runAt, recordedEnds, claimed, columns, openings, cutOff, settled>>

\* ALTER TABLE ... ADD COLUMN, an error when another process has added it.
AddColumn(p) ==
    /\ opener[p].at = "upgrade" /\ opener[p].left # <<>>
    /\ Head(opener[p].left) \notin columns
    /\ columns' = columns \cup {Head(opener[p].left)}
    /\ opener' = [opener EXCEPT ![p].left = Tail(@)]
    /\ UNCHANGED <<history, runAt, recordedEnds, claimed, openings, cutOff, settled>>

Opened(p) ==
    /\ opener[p].at = "upgrade" /\ opener[p].left = <<>>
    /\ opener[p].group > Len(Upgrades)
    /\ opener' = [opener EXCEPT ![p].at = "open"]
    /\ UNCHANGED <<history, runAt, recordedEnds, claimed, columns, openings, cutOff, settled>>

\* A statement fails: a duplicate event or column, duplicates again, a lock, a
\* lost connection.  SQLite's handle keeps its openError for the life of the
\* process; PostgreSQL's forgets its promise and the next call opens anew.  A
\* process may also die, at any statement or when it has opened.
FailToOpen(p) ==
    /\ opener[p].at \in {"select", "repair", "index", "upgrade"}
    /\ \E at \in {"closed", IF history = "sqlite" THEN "stuck" ELSE "closed"} :
          opener' = [opener EXCEPT ![p] = [Closed EXCEPT !.at = at]]
    /\ cutOff' = (cutOff \/ opener[p].half \/ opener[p].left # <<>>)
    /\ UNCHANGED <<history, runAt, recordedEnds, claimed, columns, openings, settled>>

\* The next process after one that is stuck or open.
Restart(p) ==
    /\ opener[p].at \in {"stuck", "open"}
    /\ opener' = [opener EXCEPT ![p] = Closed]
    /\ UNCHANGED <<history, runAt, recordedEnds, claimed, columns, openings, cutOff, settled>>

-----------------------------------------------------------------------------
(* The runs meanwhile                                                      *)

\* A process of any version accepts a run; the index refuses a second.
AcceptWhileOpening(n) ==
    /\ runAt[n] = "none"
    /\ \A m \in OldRuns : m < n => runAt[m] # "none"
    /\ claimed => Active = {}
    /\ runAt' = [runAt EXCEPT ![n] = "active"]
    /\ UNCHANGED <<history, recordedEnds, claimed, columns, opener, openings, cutOff, settled>>

\* A run ends on its own, with its own event.
EndWhileOpening(n) ==
    /\ runAt[n] = "active"
    /\ runAt' = [runAt EXCEPT ![n] = "ended"]
    /\ settled' = IF \E p \in Openers : n \in opener[p].todo
                  THEN settled ELSE settled \cup {n}
    /\ UNCHANGED <<history, recordedEnds, claimed, columns, opener, openings, cutOff>>

StartNext ==
    \/ \E p \in Openers :
          \/ OpenStore(p) \/ SelectLosers(p) \/ UpdateLosers(p) \/ RecordLoser(p)
          \/ CreateClaim(p) \/ CheckColumns(p) \/ AddColumn(p) \/ Opened(p)
          \/ FailToOpen(p) \/ Restart(p)
    \/ \E n \in OldRuns : AcceptWhileOpening(n) \/ EndWhileOpening(n)

StartSpec == StartInit /\ [][StartNext]_startVars

-----------------------------------------------------------------------------
(* What must hold                                                          *)

\* The repair ends a run only for a newer one of its issue, and its log says so
\* once the repair is through, unless an opening was cut off in between; it
\* writes no end into the log of a run it did not end.
RepairKeepsTheNewest ==
    \A n \in OldRuns :
        /\ runAt[n] = "repaired" =>
              /\ \E m \in OldRuns : m > n /\ runAt[m] # "none"
              /\ \/ n \in recordedEnds \/ cutOff
                 \/ \E p \in Openers : n \in opener[p].todo
        /\ n \in recordedEnds => runAt[n] = "repaired"

\* Who has opened the store has the claim and every column, whoever else opens
\* it and however often that failed; but for a second column of one check,
\* which another process may be about to add, or have died before adding.
OpenStoreIsWhole ==
    \A p \in Openers : opener[p].at = "open" =>
        /\ claimed
        /\ Cardinality(Active) <= 1
        /\ \/ columns = Columns
           \/ cutOff \/ \E q \in Openers : opener[q].left # <<>>

\* A run that ended before a repair selected is not ended again: its outcome
\* stands.  (One that ends between the SELECT and the UPDATE is overwritten.)
EndedRunsStay == \A n \in settled : runAt[n] = "ended"

\* A store that opens is the store that was left, repaired.
StoreOpensWhole == RepairKeepsTheNewest /\ OpenStoreIsWhole /\ EndedRunsStay
=============================================================================
