------------------------------ MODULE LedgerParts ------------------------------
(***************************************************************************)
(* The parts of the factory that work on the run ledger beside its webhook *)
(* entry: diff capture, runner processes, notifier, gateway, worker        *)
(* reporter and Definition of Done, and the statements of the PostgreSQL   *)
(* store itself.  At the grain of their models they share the ledger's     *)
(* operations and no behaviour, so a behaviour moves one of them, the one  *)
(* `part` names, and leaves the others in their initial state.             *)
(***************************************************************************)
EXTENDS RunDiff, Runner, Notifier, Gateway, Reporter, RunLedgerPg,
        DoneLoop

VARIABLE part

diffOnly == <<snapshot>>
runnerOnly == <<ticket, plans, proc, overlap, faults>>
notifierOnly == <<pending, remembered, channel>>

partsVars == <<ledgerVars, diffOnly, runnerOnly, notifierOnly, gatewayOnly,
               reporterOnly, txn, doneOnly, part>>

LedgerPart == {"diff", "runner", "notifier", "gateway", "reporter", "postgres",
               "done"}

\* The part that moves is well typed; the others are where they began.
LedgerPartsTypeOK ==
    /\ part \in LedgerPart
    /\ part = "diff" => DiffTypeOK
    /\ part = "runner" => RunnerTypeOK
    /\ part = "notifier" => NotifierTypeOK
    /\ part = "gateway" => GatewayTypeOK
    /\ part = "reporter" => ReporterTypeOK
    /\ part = "postgres" => PgTypeOK
    /\ part = "done" => DoneTypeOK

LedgerPartsInit ==
    /\ part \in LedgerPart
    /\ DiffInit /\ RunnerInit /\ NotifierInit /\ GatewayInit /\ ReporterInit
    /\ PgInit /\ DoneInit

LedgerPartsNext ==
    /\ UNCHANGED part
    /\ \/ part = "diff" /\ DiffNext
       \/ part = "runner" /\ RunnerNext
       \/ part = "notifier" /\ NotifierNext
       \/ part = "gateway" /\ GatewayNext
       \/ part = "reporter" /\ ReporterNext
       \/ part = "postgres" /\ PgNext
       \/ part = "done" /\ DoneNext
    /\ part # "diff" => UNCHANGED diffOnly
    /\ part # "runner" => UNCHANGED runnerOnly
    /\ part # "notifier" => UNCHANGED notifierOnly
    /\ part # "gateway" => UNCHANGED gatewayOnly
    /\ part # "reporter" => UNCHANGED reporterOnly
    /\ part # "postgres" => UNCHANGED txn
    /\ part # "done" => UNCHANGED doneOnly

LedgerPartsSpec == LedgerPartsInit /\ [][LedgerPartsNext]_partsVars

-----------------------------------------------------------------------------
\* OutcomeIsEarned of module Runner, where the ledger is moved by runner
\* processes alone: the ticket and the ledger advertise what was earned.
RunnerOutcomeIsEarned == part = "runner" => OutcomeIsEarned

\* Whatever statements of other processes come between those of a
\* transaction, its COMMIT is the one operation of the ledger its caller asked
\* for (#328, #404): the interleaved PostgreSQL store implements the atomic
\* one.
PgImplementsLedger == [][part = "postgres" => CommitsItsCall]_ledgerVars
=============================================================================
