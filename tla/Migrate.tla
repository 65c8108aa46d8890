--------------------------------- MODULE Migrate ---------------------------------
(***************************************************************************)
(* Applying db/migrations to a hosted database (scripts/db-migrate.ts):    *)
(* processes started from checkouts that may differ plan against the table *)
(* schema_migrations, and apply under a session's advisory lock, one       *)
(* transaction for each file.  A process may die, and its session with it, *)
(* at any step, or lose the answer to a COMMIT.                            *)
(***************************************************************************)
EXTENDS Naturals, Sequences, FiniteSets, FiniteSetsExt, Functions

CONSTANTS
    Migrators,   \* processes of db:migrate
    Versions,    \* file names, numbers so that they are ordered
    Texts,       \* contents of a file, by their checksum
    NoTable      \* schema_migrations has not been created

ASSUME MigrateAssumption == Versions \subseteq Nat

VARIABLES
    migrator,   \* the processes
    table,      \* schema_migrations: the checksum of each version applied
    ran,        \* what the schema went through: the files committed, in order
    lastFrom,   \* the checkout the latest of them came from
    holders     \* the sessions that hold the advisory lock

migrateVars == <<migrator, table, ran, lastFrom, holders>>

FileSet == UNION {[s -> Texts] : s \in SUBSET Versions}

ASSUME NoTableAssumption == NoTable \notin FileSet

\* pending: the files still to apply; upToDate: the process reported that its
\* whole checkout is applied, of which alone it keeps the files.
Migrator == [at : {"idle", "plan", "lock", "ensure", "replan", "apply", "unlock"},
             action : {"status", "apply"}, files : FileSet,
             pending : SUBSET Versions, upToDate : BOOLEAN]

MigrateTypeOK ==
    /\ migrator \in [Migrators -> Migrator]
    /\ table \in FileSet \cup {NoTable}
    /\ \A i \in DOMAIN ran : ran[i] \in [version : Versions, text : Texts]
    /\ lastFrom \in FileSet
    /\ holders \subseteq Migrators

NoFiles == [v \in {} |-> NoTable]

Unstarted == [at |-> "idle", action |-> "status", files |-> NoFiles,
              pending |-> {}, upToDate |-> FALSE]

MigrateInit ==
    /\ migrator = [m \in Migrators |-> Unstarted]
    /\ table = NoTable
    /\ ran = <<>>
    /\ lastFrom = NoFiles
    /\ holders = {}

-----------------------------------------------------------------------------
\* loadApplied: no table is nothing applied.
Applied == IF table = NoTable THEN NoFiles ELSE table

\* computePlan: a version applied without a file here, or with another text.
HasDrift(files) ==
    ~ \A v \in DOMAIN Applied : v \in DOMAIN files /\ files[v] = Applied[v]

Pending(files) == DOMAIN files \ DOMAIN Applied

MigratorAt(m, place) == migrator[m].at = place

\* Drift, a failed file and files that wait are reported as such.
Reports(m, upToDate) == migrator' = [migrator EXCEPT ![m] =
    IF upToDate THEN [Unstarted EXCEPT !.files = migrator[m].files,
                                      !.upToDate = TRUE]
    ELSE Unstarted]

\* readMigrations: the files are read once, before anything else.
StartMigrate(m) ==
    /\ MigratorAt(m, "idle")
    /\ \E files \in FileSet, action \in {"status", "apply"} :
          migrator' = [migrator EXCEPT ![m] =
              [Unstarted EXCEPT !.at = "plan", !.action = action, !.files = files]]
    /\ UNCHANGED <<table, ran, lastFrom, holders>>

PlanMigrate(m) ==
    /\ MigratorAt(m, "plan")
    /\ LET files == migrator[m].files IN
       \/ HasDrift(files) /\ Reports(m, FALSE)
       \/ /\ ~HasDrift(files) /\ migrator[m].action = "status"
          /\ Reports(m, Pending(files) = {})
       \/ /\ ~HasDrift(files) /\ migrator[m].action = "apply"
          /\ migrator' = [migrator EXCEPT ![m].at = "lock",
                                          ![m].pending = Pending(files)]
    /\ UNCHANGED <<table, ran, lastFrom, holders>>

\* pg_advisory_lock
TakeLock(m) ==
    /\ MigratorAt(m, "lock") /\ holders = {}
    /\ holders' = {m}
    /\ migrator' = [migrator EXCEPT ![m].at = "ensure"]
    /\ UNCHANGED <<table, ran, lastFrom>>

\* ensureMigrationsTable
EnsureTable(m) ==
    /\ MigratorAt(m, "ensure")
    /\ table' = Applied
    /\ migrator' = [migrator EXCEPT ![m].at = "replan"]
    /\ UNCHANGED <<ran, lastFrom, holders>>

\* Mutant: the plan made before the lock is trusted.
ReplanTrusting(m) ==
    /\ MigratorAt(m, "replan")
    /\ migrator' = [migrator EXCEPT ![m].at = "apply"]
    /\ UNCHANGED <<table, ran, lastFrom, holders>>

\* The applied state is read again inside the lock.
Replan(m) ==
    /\ MigratorAt(m, "replan")
    /\ LET files == migrator[m].files IN
       migrator' = [migrator EXCEPT ![m] =
          IF HasDrift(files) THEN [@ EXCEPT !.at = "unlock", !.pending = {}]
          ELSE [@ EXCEPT !.at = "apply", !.pending = Pending(files)]]
    /\ UNCHANGED <<table, ran, lastFrom, holders>>

\* The next file, its row and the COMMIT: a row that is there already, or an
\* error of the SQL, rolls this file back and no later file runs.
ApplyFile(m) ==
    /\ MigratorAt(m, "apply") /\ migrator[m].pending # {}
    /\ LET version == Min(migrator[m].pending)
           text == migrator[m].files[version]
       IN \/ /\ version \notin DOMAIN table
             /\ table' = [v \in DOMAIN table \cup {version} |->
                             IF v = version THEN text ELSE table[v]]
             /\ ran' = Append(ran, [version |-> version, text |-> text])
             /\ lastFrom' = migrator[m].files
             /\ migrator' = [migrator EXCEPT ![m].pending = @ \ {version}]
          \/ /\ migrator' = [migrator EXCEPT ![m] =
                   [@ EXCEPT !.at = "unlock", !.pending = {}]]
             /\ UNCHANGED <<table, ran, lastFrom>>
    /\ UNCHANGED holders

ApplyEnds(m) ==
    /\ MigratorAt(m, "apply") /\ migrator[m].pending = {}
    /\ migrator' = [migrator EXCEPT ![m].at = "unlock", ![m].upToDate = TRUE]
    /\ UNCHANGED <<table, ran, lastFrom, holders>>

\* pg_advisory_unlock, in the finally.
Unlock(m) ==
    /\ MigratorAt(m, "unlock")
    /\ holders' = holders \ {m}
    /\ Reports(m, migrator[m].upToDate)
    /\ UNCHANGED <<table, ran, lastFrom>>

\* The process dies or its connection breaks (the rollback then throws, and so
\* does the unlock): a lock goes with the session that holds it.
LoseSession(m) ==
    /\ ~MigratorAt(m, "idle")
    /\ holders' = holders \ {m}
    /\ Reports(m, FALSE)
    /\ UNCHANGED <<table, ran, lastFrom>>

MigrateNext ==
    \E m \in Migrators :
        \/ StartMigrate(m) \/ PlanMigrate(m) \/ TakeLock(m) \/ EnsureTable(m)
        \/ Replan(m) \/ ApplyFile(m) \/ ApplyEnds(m) \/ Unlock(m) \/ LoseSession(m)

-----------------------------------------------------------------------------
\* Whoever applies, from whatever checkouts, dying wherever: each file ran
\* once and what ran is what is recorded; no file was run from a checkout that
\* disagreed with what had run before it, so the schema is always a part of one
\* checkout; and an apply that reported success left its whole checkout behind.
SchemaIsOneCheckout ==
    /\ \A i, j \in DOMAIN ran : ran[i].version = ran[j].version => i = j
    /\ {<<ran[i].version, ran[i].text>> : i \in DOMAIN ran}
           = {<<v, Applied[v]>> : v \in DOMAIN Applied}
    /\ \A i \in DOMAIN ran : /\ ran[i].version \in DOMAIN lastFrom
                             /\ lastFrom[ran[i].version] = ran[i].text
    /\ \A m \in Migrators :
          migrator[m].upToDate =>
              \A v \in DOMAIN migrator[m].files :
                  v \in DOMAIN Applied /\ Applied[v] = migrator[m].files[v]
=============================================================================
