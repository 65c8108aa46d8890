------------------------------ MODULE RunLedgerPg ------------------------------
(***************************************************************************)
(* The PostgreSQL run-history store (agent/lib/dark-factory/run-history-   *)
(* postgres.ts) at the grain of its statements.  RunLedger takes each      *)
(* operation as one step; here it is a READ COMMITTED transaction of       *)
(* several, interleaved with those of other processes.  The variables of   *)
(* RunLedger are the committed tables; what a transaction wrote and still  *)
(* keeps to itself, and the locks it holds, follow from where it is.       *)
(*                                                                         *)
(* A process has one connection (max: 1), so one transaction at a time.    *)
(* The run id of an acceptance is a fresh UUID.  recordRunSummary is an    *)
(* upsert whose one caller is module RunDiff.                              *)
(***************************************************************************)
EXTENDS RunLedger

CONSTANTS
    Clients,   \* processes with a store on this database
    PgEvents,  \* events a process may append
    MaxDelivered  \* bound: deliveries that reach the store

\* The identity of a retirement is its own: only retireRunClaim builds it.
ASSUME PgAssumption ==
    /\ PgEvents \subseteq Event
    /\ \A e \in PgEvents : e.id # RetireId
    /\ MaxDelivered \in Nat

VARIABLE txn   \* the open transaction of each process

pgVars == <<ledgerVars, txn>>

-----------------------------------------------------------------------------
(* Transactions, and the locks they hold                                   *)

Calls ==
    [op : {"accept"}, delivery : Deliveries, issue : Issues, run : Runs]
    \cup [op : {"append"}, run : Runs, event : PgEvents]
    \cup [op : {"retire"}, issue : Issues]
    \cup [op : {"claim"}, delivery : Deliveries, issue : Issues,
          transition : {"abort", "resume"}, run : Runs \cup {Nil}]
    \cup {a \in [op : {"advance"}, delivery : Deliveries, issue : Issues,
                 transition : {"abort", "resume"}, run : Runs \cup {Nil},
                 sent : BOOLEAN, done : BOOLEAN] :
              (a.sent \/ a.done) /\ (a.sent => a.transition = "resume")}

NoTxn == [at |-> "idle"]

\* The statement to run next; the summary row read (and locked) so far, and
\* the status it had.
Transaction ==
    [at : {"reserve", "holder", "insert", "lock", "event", "receipt", "commit"},
     call : Calls, row : Runs \cup {Nil}, seen : RunStatus \cup {"none", Nil}]

\* The committed tables are RunLedger's, by PgImplementsLedger.
PgTypeOK == txn \in [Clients -> Transaction \cup {NoTxn}]

PgInit ==
    /\ Init
    /\ txn = [c \in Clients |-> NoTxn]

Before(c, statement) == txn[c].at = statement
CallOf(c) == txn[c].call
Serves(c, op) == ~Before(c, "idle") /\ CallOf(c).op = op
Proceed(c, statement) == txn' = [txn EXCEPT ![c].at = statement]
EndTxn(c) == txn' = [txn EXCEPT ![c] = NoTxn]

\* An uncommitted row of df_run_deliveries keeps its key.
HoldsDelivery(c, d) ==
    Serves(c, "accept") /\ CallOf(c).delivery = d /\ ~Before(c, "reserve")

\* An uncommitted active run keeps its entry of df_run_active_issue_uidx.
HoldsClaim(c, i) == Serves(c, "accept") /\ CallOf(c).issue = i /\ Before(c, "commit")

\* SELECT ... FOR UPDATE of a summary row.
HoldsRun(c, r) == ~Before(c, "idle") /\ txn[c].row = r /\ ~Before(c, "lock")

\* An uncommitted or a locked row of df_run_control_receipts.
HoldsReceipt(c, d) ==
    /\ Serves(c, "claim") \/ Serves(c, "advance")
    /\ CallOf(c).delivery = d /\ Before(c, "commit")

OtherClients(c) == Clients \ {c}

\* ROLLBACK: a refused call, a failing statement, a lost connection, a crash.
Rollback(c) ==
    /\ ~Before(c, "idle")
    /\ EndTxn(c)
    /\ UNCHANGED ledgerVars

BeginTxn(c, a, statement, row) ==
    /\ txn' = [txn EXCEPT ![c] =
                  [at |-> statement, call |-> a, row |-> row, seen |-> Nil]]
    /\ UNCHANGED ledgerVars

-----------------------------------------------------------------------------
(* acceptDelivery                                                          *)

\* What is, or is becoming, of delivery d.
Opened(d, ops) ==
    \E c \in Clients : /\ ~Before(c, "idle")
                       /\ CallOf(c).op \in ops
                       /\ CallOf(c).delivery = d
\* A delivery carries one decision: it starts a run, or it controls one.
IsTrigger(d) == bound[d] # Nil \/ Opened(d, {"accept"})
IsControl(d) == receipts[d] # Nil \/ Opened(d, {"claim", "advance"})

\* The deliveries that may reach the store.
Arriving ==
    LET known == {d \in Deliveries : IsTrigger(d) \/ IsControl(d)} IN
    IF Cardinality(known) < MaxDelivered THEN Deliveries ELSE known

IsFresh(r) == status[r] = "none" /\ \A c \in Clients :
                                        Serves(c, "accept") => CallOf(c).run # r

BeginAccept(c, d, i, r) ==
    /\ IsFresh(r)
    /\ ~IsControl(d)
    /\ BeginTxn(c, [op |-> "accept", delivery |-> d, issue |-> i, run |-> r],
             "reserve", Nil)

\* INSERT ... ON CONFLICT DO NOTHING waits for another's uncommitted row.  A
\* bound delivery is a replay, or an error when it names another issue:
\* nothing is written either way.
Reserve(c) ==
    /\ Before(c, "reserve")
    /\ \A o \in OtherClients(c) : ~HoldsDelivery(o, CallOf(c).delivery)
    /\ IF bound[CallOf(c).delivery] = Nil THEN Proceed(c, "holder") ELSE EndTxn(c)
    /\ UNCHANGED ledgerVars

\* activeRunHolder: a holder is reported and the reservation taken back.
ReadHolder(c) ==
    /\ Before(c, "holder") /\ Serves(c, "accept")
    /\ IF ActiveRuns(CallOf(c).issue) = {} THEN Proceed(c, "insert") ELSE EndTxn(c)
    /\ UNCHANGED ledgerVars

\* Mutant: the index on active runs is not unique.
InsertSummaryUnclaimed(c) ==
    /\ Before(c, "insert")
    /\ Proceed(c, "commit")
    /\ UNCHANGED ledgerVars

\* insertSummary: the partial UNIQUE index makes it wait for an uncommitted
\* active run of the issue, and fail (23505) on a committed one.
InsertSummary(c) ==
    /\ Before(c, "insert")
    /\ \A o \in OtherClients(c) : ~HoldsClaim(o, CallOf(c).issue)
    /\ IF ActiveRuns(CallOf(c).issue) = {} THEN Proceed(c, "commit") ELSE EndTxn(c)
    /\ UNCHANGED ledgerVars

\* insertEvent, and COMMIT.
CommitAccept(c) ==
    /\ Before(c, "commit") /\ Serves(c, "accept")
    /\ InsertRun(CallOf(c).delivery, CallOf(c).issue, CallOf(c).run)
    /\ EndTxn(c)

-----------------------------------------------------------------------------
(* appendEvent and retireRunClaim                                          *)

BeginAppend(c, r, e) ==
    /\ status[r] # "none"
    /\ BeginTxn(c, [op |-> "append", run |-> r, event |-> e], "lock", r)

BeginRetire(c, i) == BeginTxn(c, [op |-> "retire", issue |-> i], "holder", Nil)

\* The snapshot names a holder of the claim; LIMIT 1 takes any.
FindHolder(c) ==
    /\ Before(c, "holder") /\ Serves(c, "retire")
    /\ \/ /\ ActiveRuns(CallOf(c).issue) = {}
          /\ EndTxn(c)
       \/ \E r \in ActiveRuns(CallOf(c).issue) :
             txn' = [txn EXCEPT ![c].at = "lock", ![c].row = r]
    /\ UNCHANGED ledgerVars

\* Mutant: the row is read without FOR UPDATE.
LockRunUnlocked(c) ==
    /\ Before(c, "lock")
    /\ txn' = [txn EXCEPT ![c].at = "event", ![c].seen = status[txn[c].row]]
    /\ UNCHANGED ledgerVars

\* FOR UPDATE waits for the row and reads it as it is then committed.
LockRun(c) ==
    /\ Before(c, "lock")
    /\ \A o \in OtherClients(c) : ~HoldsRun(o, txn[c].row)
    /\ txn' = [txn EXCEPT ![c].at = "event", ![c].seen = status[txn[c].row]]
    /\ UNCHANGED ledgerVars

\* The event a transaction is about to record.
EventOf(c) ==
    IF Serves(c, "append") THEN CallOf(c).event
    ELSE [id |-> RetireId, type |-> "run.terminal", status |-> "aborted"]

\* A logged event is a replay; one that does not apply is an error.
CheckEvent(c) ==
    /\ Before(c, "event") /\ Serves(c, "append")
    /\ IF /\ ~EventIsLogged(txn[c].row, EventOf(c).id)
          /\ Applies(EventOf(c), txn[c].seen)
       THEN Proceed(c, "commit") ELSE EndTxn(c)
    /\ UNCHANGED ledgerVars

\* After the wait the row must still match; a running holder is refused.
CheckRetire(c) ==
    /\ Before(c, "event") /\ Serves(c, "retire")
    /\ IF txn[c].seen \in Active \ {"running"}
       THEN Proceed(c, "commit") ELSE EndTxn(c)
    /\ UNCHANGED ledgerVars

\* insertEvent, updateSummary from the row that was read, and COMMIT.
CommitEvent(c) ==
    /\ Before(c, "commit") /\ (Serves(c, "append") \/ Serves(c, "retire"))
    /\ log' = [log EXCEPT ![txn[c].row] = @ \cup {EventOf(c)}]
    /\ status' = [status EXCEPT ![txn[c].row] =
                     StatusAfter(EventOf(c), txn[c].seen)]
    /\ EndTxn(c)
    /\ UNCHANGED <<issueOf, bound, receipts>>

-----------------------------------------------------------------------------
(* Control receipts                                                        *)

BeginClaim(c, d, i, t, r) ==
    /\ ~IsTrigger(d)
    /\ BeginTxn(c, [op |-> "claim", delivery |-> d, issue |-> i, transition |-> t,
                 run |-> r], IF r = Nil THEN "receipt" ELSE "lock", r)

\* The target run, locked, must be one of the issue.
CheckTarget(c) ==
    /\ Before(c, "event") /\ Serves(c, "claim")
    /\ IF status[txn[c].row] # "none" /\ issueOf[txn[c].row] = CallOf(c).issue
       THEN Proceed(c, "receipt") ELSE EndTxn(c)
    /\ UNCHANGED ledgerVars

\* INSERT ... ON CONFLICT DO NOTHING; an old receipt is a replay or an error.
InsertReceipt(c) ==
    /\ Before(c, "receipt") /\ Serves(c, "claim")
    /\ \A o \in OtherClients(c) : ~HoldsReceipt(o, CallOf(c).delivery)
    /\ IF receipts[CallOf(c).delivery] = Nil THEN Proceed(c, "commit") ELSE EndTxn(c)
    /\ UNCHANGED ledgerVars

BeginAdvance(c, d, i, t, r, sent, done) ==
    /\ ~IsTrigger(d)
    /\ sent \/ done
    /\ sent => t = "resume"
    /\ BeginTxn(c, [op |-> "advance", delivery |-> d, issue |-> i,
                 transition |-> t, run |-> r, sent |-> sent, done |-> done],
             "receipt", Nil)

\* The receipt is locked and must be the claimed one.
LockReceipt(c) ==
    /\ Before(c, "receipt") /\ Serves(c, "advance")
    /\ \A o \in OtherClients(c) : ~HoldsReceipt(o, CallOf(c).delivery)
    /\ LET q == receipts[CallOf(c).delivery] IN
       IF /\ q # Nil
          /\ q.issue = CallOf(c).issue /\ q.run = CallOf(c).run
          /\ q.transition = CallOf(c).transition
       THEN Proceed(c, "commit") ELSE EndTxn(c)
    /\ UNCHANGED ledgerVars

\* The receipt of a new claim, or the UPDATE that ORs the flags, and COMMIT.
CommitReceipt(c) ==
    /\ Before(c, "commit")
    /\ \/ /\ Serves(c, "claim")
          /\ receipts' = [receipts EXCEPT ![CallOf(c).delivery] =
                 [issue |-> CallOf(c).issue, transition |-> CallOf(c).transition,
                  run |-> CallOf(c).run, handoffSent |-> FALSE,
                  completed |-> FALSE]]
       \/ /\ Serves(c, "advance")
          /\ receipts' = [receipts EXCEPT
                 ![CallOf(c).delivery].handoffSent = @ \/ CallOf(c).sent,
                 ![CallOf(c).delivery].completed = @ \/ CallOf(c).done]
    /\ EndTxn(c)
    /\ UNCHANGED <<issueOf, status, log, bound>>

-----------------------------------------------------------------------------
PgStart(c) ==
    /\ Before(c, "idle")
    /\ \/ \E d \in Arriving, i \in Issues, r \in Runs : BeginAccept(c, d, i, r)
       \/ \E r \in Runs, e \in PgEvents : BeginAppend(c, r, e)
       \/ \E i \in Issues : BeginRetire(c, i)
       \/ \E d \in Arriving, i \in Issues, t \in {"abort", "resume"},
             r \in Runs \cup {Nil} : BeginClaim(c, d, i, t, r)
       \/ \E d \in Arriving, i \in Issues, t \in {"abort", "resume"},
             r \in Runs \cup {Nil}, sent, done \in BOOLEAN :
                 BeginAdvance(c, d, i, t, r, sent, done)

PgStatement(c) ==
    \/ Reserve(c) \/ ReadHolder(c) \/ InsertSummary(c) \/ CommitAccept(c)
    \/ FindHolder(c) \/ LockRun(c) \/ CheckEvent(c) \/ CheckRetire(c)
    \/ CommitEvent(c) \/ CheckTarget(c) \/ InsertReceipt(c) \/ LockReceipt(c)
    \/ CommitReceipt(c) \/ Rollback(c)

PgNext == \E c \in Clients : PgStart(c) \/ PgStatement(c)

PgSpec == PgInit /\ [][PgNext]_pgVars

-----------------------------------------------------------------------------
\* The operation of RunLedger that a call asks for.
Operation(a) ==
    \/ /\ a.op = "accept"
       /\ AcceptDelivery(a.delivery, a.issue, a.run)
    \/ /\ a.op = "append"
       /\ AppendEvent(a.run, a.event)
    \/ /\ a.op = "retire"
       /\ RetireRunClaim(a.issue)
    \/ /\ a.op = "claim"
       /\ ClaimControlDelivery(a.delivery, a.issue, a.transition, a.run)
    \/ /\ a.op = "advance"
       /\ AdvanceControlDelivery(a.delivery, a.issue, a.transition, a.run,
                                 a.sent, a.done)

\* A commit is the operation that its transaction was opened for.
CommitsItsCall == \E c \in Clients : ~Before(c, "idle") /\ Operation(CallOf(c))
=============================================================================
