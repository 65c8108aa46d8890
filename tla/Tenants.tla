-------------------------------- MODULE Tenants --------------------------------
(***************************************************************************)
(* The registry of customers (tenant-store-postgres.ts, at the grain of    *)
(* its statements; the SQLite and in-memory stores do the same calls each  *)
(* in one step), the operator's seed (scripts/seed-tenant-assignments.ts)  *)
(* and the attribution of a run (run-attribution.ts).                      *)
(*                                                                         *)
(* A seed lists the registry, refuses a repository that has another        *)
(* tenant, creates or renames its tenant and assigns its repositories one  *)
(* by one.  A run takes the tenant its repository has when it is accepted. *)
(* A tenant is its slug: the slug is unique in the table.                  *)
(***************************************************************************)
EXTENDS Naturals, FiniteSets

CONSTANTS
    Seeds,      \* runs of the seed script
    Slugs,      \* tenants
    Repos,      \* repositories
    Nobody,     \* the tenant of a repository that has none
    MaxTurns    \* status changes by an operator (a bound of the model)

ASSUME TenantAssumption == MaxTurns \in Nat /\ Nobody \notin Slugs

VARIABLES
    tenants,     \* df_tenants: status by slug, "none" without a row
    tenantOf,    \* df_tenant_repos
    seed,        \* where each seed is, and what it has read
    attributed,  \* tenant_id of the runs accepted, by repository
    word,        \* history: the operator's last word on a tenant
    turns,       \* history: status changes
    raced        \* history: two seeds at once, or a status set during a rename

tenantVars == <<tenants, tenantOf, seed, attributed, word, turns, raced>>

Statuses == {"active", "inactive"}
IdleSeed == [at |-> "idle", slug |-> Nobody, repos |-> {}, row |-> "none", todo |-> {},
             moving |-> Nobody]

TenantsTypeOK ==
    /\ tenants \in [Slugs -> Statuses \cup {"none"}]
    /\ tenantOf \in [Repos -> Slugs \cup {Nobody}]
    /\ seed \in [Seeds ->
           [at : {"idle", "owners", "upsert", "rename", "insert", "assign", "move",
                  "done"},
            slug : Slugs \cup {Nobody}, repos : SUBSET Repos,
            row : Statuses \cup {"none"}, todo : SUBSET Repos,
            moving : Repos \cup {Nobody}]]
    /\ attributed \in [Repos -> SUBSET Slugs]
    /\ word \in [Slugs -> Statuses]
    /\ turns \in 0..MaxTurns
    /\ raced \in BOOLEAN

TenantsInit ==
    /\ tenants = [t \in Slugs |-> "none"]
    /\ tenantOf = [r \in Repos |-> Nobody]
    /\ seed = [s \in Seeds |-> IdleSeed]
    /\ attributed = [r \in Repos |-> {}]
    /\ word = [t \in Slugs |-> "active"]
    /\ turns = 0 /\ raced = FALSE

-----------------------------------------------------------------------------
(* The seed                                                                *)

Seeding(s) == seed[s].at \notin {"idle", "done"}
MoveSeed(s, pc) == seed' = [seed EXCEPT ![s].at = pc]
EndSeed(s) == seed' = [seed EXCEPT ![s] = [IdleSeed EXCEPT !.at = "done"]]

\* seedTenantAssignments, for the tenant t and the repositories rs, up to
\* listTenants.
ListTenants(s, t, rs) ==
    /\ seed[s].at = "idle"
    /\ rs # {}
    /\ seed' = [seed EXCEPT ![s].at = "owners", ![s].row = tenants[t], ![s].slug = t,
                            ![s].repos = rs]
    /\ raced' = (raced \/ \E other \in Seeds : Seeding(other))
    /\ UNCHANGED <<tenants, tenantOf, attributed, word, turns>>

\* Repositories that already belong to a different tenant; all that belong to
\* anybody, when the seed's tenant was not listed.
Conflicts(s) ==
    {r \in seed[s].repos : tenantOf[r] # Nobody
                           /\ (seed[s].row = "none" \/ tenantOf[r] # seed[s].slug)}

\* listRepoAssignments: the refusal, or what there is left to assign.
ListAssignments(s) ==
    /\ seed[s].at = "owners"
    /\ \/ Conflicts(s) # {} /\ EndSeed(s)
       \/ /\ Conflicts(s) = {}
          /\ seed' = [seed EXCEPT ![s].at = "upsert",
                        ![s].todo = {r \in seed[s].repos : tenantOf[r] = Nobody}]
    /\ UNCHANGED <<tenants, tenantOf, attributed, word, turns, raced>>

\* upsertTenant reads the row, then inserts it or writes it back.
ReadTenant(s) ==
    /\ seed[s].at = "upsert"
    /\ seed' = [seed EXCEPT ![s].row = tenants[seed[s].slug],
                  ![s].at = IF tenants[seed[s].slug] = "none" THEN "insert"
                            ELSE "rename"]
    /\ UNCHANGED <<tenants, tenantOf, attributed, word, turns, raced>>

\* Mutant: an upsert without a status means an active tenant.
StatusKeptActive(s) == "active"

\* A seed gives a name and no status: the status that was read is kept.
StatusKept(s) == seed[s].row

RenameTenant(s) ==
    /\ seed[s].at = "rename"
    /\ tenants' = [tenants EXCEPT ![seed[s].slug] = StatusKept(s)]
    /\ MoveSeed(s, "assign")
    /\ UNCHANGED <<tenantOf, attributed, word, turns, raced>>

\* The slug is unique: an insert that comes second fails, and the seed with it.
InsertTenant(s) ==
    /\ seed[s].at = "insert"
    /\ IF tenants[seed[s].slug] = "none"
       THEN tenants' = [tenants EXCEPT ![seed[s].slug] = "active"] /\ MoveSeed(s, "assign")
       ELSE EndSeed(s) /\ UNCHANGED tenants
    /\ UNCHANGED <<tenantOf, attributed, word, turns, raced>>

\* assignRepo's reads: an inactive tenant takes no new work, and a repository
\* it already has stays as it is.  A row that is not there is inserted, and an
\* insert over somebody else's row moves it.
ReadAssignment(s, r) ==
    /\ seed[s].at = "assign"
    /\ r \in seed[s].todo
    /\ CASE tenants[seed[s].slug] # "active" -> EndSeed(s)
         [] tenants[seed[s].slug] = "active" /\ tenantOf[r] = seed[s].slug ->
                seed' = [seed EXCEPT ![s].todo = @ \ {r}]
         [] OTHER -> seed' = [seed EXCEPT ![s].at = "move", ![s].moving = r]
    /\ UNCHANGED <<tenants, tenantOf, attributed, word, turns, raced>>

WriteAssignment(s) ==
    /\ seed[s].at = "move"
    /\ tenantOf' = [tenantOf EXCEPT ![seed[s].moving] = seed[s].slug]
    /\ seed' = [seed EXCEPT ![s].at = "assign", ![s].todo = @ \ {seed[s].moving},
                            ![s].moving = Nobody]
    /\ UNCHANGED <<tenants, attributed, word, turns, raced>>

\* The seed is through, or a call of it failed or it was cut off.
StopSeed(s) ==
    /\ Seeding(s)
    /\ EndSeed(s)
    /\ UNCHANGED <<tenants, tenantOf, attributed, word, turns, raced>>

-----------------------------------------------------------------------------
(* The operator and the webhook                                            *)

\* setTenantStatus: one statement.
SetTenantStatus(t, status) ==
    /\ turns < MaxTurns
    /\ tenants[t] \notin {"none", status}
    /\ tenants' = [tenants EXCEPT ![t] = status]
    /\ word' = [word EXCEPT ![t] = status]
    /\ turns' = turns + 1
    /\ raced' = (raced \/ \E s \in Seeds : seed[s].slug = t /\ seed[s].at = "rename")
    /\ UNCHANGED <<tenantOf, seed, attributed>>

\* resolveTenantForRepo: the tenant of the assignment, active or not.
TenantForRepo(r) == tenantOf[r]

\* acceptDelivery of a run: resolveRunTenant and the run's row.  A run stays
\* unassigned where there is no tenant or the registry cannot be read.
AttributeRun(r) ==
    /\ TenantForRepo(r) # Nobody
    /\ attributed' = [attributed EXCEPT ![r] = @ \cup {TenantForRepo(r)}]
    /\ UNCHANGED <<tenants, tenantOf, seed, word, turns, raced>>

TenantsNext ==
    \/ \E s \in Seeds : \/ ListAssignments(s) \/ ReadTenant(s) \/ RenameTenant(s)
                        \/ InsertTenant(s) \/ WriteAssignment(s) \/ StopSeed(s)
    \/ \E s \in Seeds, t \in Slugs, rs \in SUBSET Repos : ListTenants(s, t, rs)
    \/ \E s \in Seeds, r \in Repos : ReadAssignment(s, r)
    \/ \E t \in Slugs, status \in Statuses : SetTenantStatus(t, status)
    \/ \E r \in Repos : AttributeRun(r)

TenantsSpec == TenantsInit /\ [][TenantsNext]_tenantVars

-----------------------------------------------------------------------------
(* Properties                                                              *)

\* What was attributed stays true: a run that has a tenant has the one its
\* repository still has, so no repository ever moved to another customer, and
\* a tenant has the status the operator gave it last, however often it was
\* seeded and wherever a seed was cut off; unless two seeds ran at once, or a
\* status was set between a seed's read and its write.
AttributionStands ==
    ~raced =>
        /\ \A r \in Repos : attributed[r] \subseteq {tenantOf[r]}
        /\ \A t \in Slugs : tenants[t] \in {word[t], "none"}
=============================================================================
