------------------------------ MODULE WorkerLease ------------------------------
(***************************************************************************)
(* A worker's sandbox and its credential: withWorker of                    *)
(* agent/lib/dark-factory/worker-env.ts over the LocalCredentialBroker of  *)
(* credentials.ts.                                                         *)
(*                                                                         *)
(* Each task gets a lease from the broker, a sandbox that is handed the    *)
(* lease, its context and its command, and a teardown on every path that   *)
(* has a sandbox.  The broker keeps a lease by its identifier until a      *)
(* later issue prunes it; a sandbox may ask with its lease at any time, as *)
(* long as it knows it.  Time passes between any two steps.  A lease is    *)
(* named by the task it was issued to (mintLeaseId is a fresh UUID).       *)
(***************************************************************************)
EXTENDS Naturals

CONSTANTS
    Tasks,          \* the tasks handed to withWorker
    Ttl,            \* the lifetime of a lease, at most MAX_TTL_SECONDS
    MaxClock        \* the broker's clock stops there (a bound of the model)

ASSUME LeaseAssumption == Ttl \in Nat \ {0} /\ MaxClock \in Nat

VARIABLES
    clock,     \* LocalBrokerOptions.now
    leases,    \* LocalCredentialBroker.leases
    task,      \* how far withWorker is with each task
    sandbox,   \* what the provider holds for each task
    denied     \* history: the tasks whose lease, once issued, was refused

leaseVars == <<clock, leases, task, sandbox, denied>>

\* "threw" is a withWorker that rejected: the provider threw while provisioning.
TaskStates == {"waiting", "issued", "provisioned", "running", "teardown",
               "revoking", "done", "threw"}

LeaseTypeOK ==
    /\ clock \in 0 .. MaxClock
    /\ DOMAIN leases \subseteq Tasks
    /\ \A t \in DOMAIN leases :
           leases[t] \in [expiresAt : 0 .. MaxClock + Ttl, revoked : BOOLEAN]
    /\ task \in [Tasks -> TaskStates]
    /\ sandbox \in [Tasks -> {"none", "empty", "ready", "destroyed"}]
    /\ denied \subseteq Tasks

LeaseInit ==
    /\ clock = 0
    /\ leases = [t \in {} |-> 0]
    /\ task = [t \in Tasks |-> "waiting"]
    /\ sandbox = [t \in Tasks |-> "none"]
    /\ denied = {}

LeaseTick ==
    /\ clock < MaxClock
    /\ clock' = clock + 1
    /\ UNCHANGED <<leases, task, sandbox, denied>>

-----------------------------------------------------------------------------
(* The broker                                                              *)

\* isExpired: the expiry instant is the first at which a lease is over.
IsExpired(t) == clock >= leases[t].expiresAt

\* authorize answers 200 (for the repo the lease names).
Authorizes(t) ==
    /\ t \in DOMAIN leases
    /\ ~leases[t].revoked
    /\ ~IsExpired(t)

\* pruneDead: only the leases that can never authorize again go.
Live == {t \in DOMAIN leases : ~leases[t].revoked /\ ~IsExpired(t)}

Keep(kept) == [t \in kept |-> leases[t]]

\* revoke: an unknown or revoked lease is a no-op.
Revoke(t) ==
    leases' = [u \in DOMAIN leases |->
        IF u = t THEN [leases[u] EXCEPT !.revoked = TRUE] ELSE leases[u]]

-----------------------------------------------------------------------------
(* withWorker                                                              *)

\* issue prunes even when it refuses (no token, a repo outside the
\* allow-list, a grant that does not validate).
Issue(t) ==
    /\ task[t] = "waiting"
    /\ \/ /\ leases' = [u \in Live \cup {t} |-> IF u = t
                 THEN [expiresAt |-> clock + Ttl, revoked |-> FALSE]
                 ELSE leases[u]]
          /\ task' = [task EXCEPT ![t] = "issued"]
       \/ /\ leases' = Keep(Live)
          /\ task' = [task EXCEPT ![t] = "done"]
    /\ UNCHANGED <<clock, sandbox, denied>>

\* withWorker's own allow-list refuses before the broker is asked.
RefuseRepo(t) ==
    /\ task[t] = "waiting"
    /\ task' = [task EXCEPT ![t] = "done"]
    /\ UNCHANGED <<clock, leases, sandbox, denied>>

\* provision: a sandbox, none (the lease is revoked), or an exception, which
\* leaves withWorker before its try: nothing revokes the lease.
Provision(t) ==
    /\ task[t] = "issued"
    /\ \/ /\ task' = [task EXCEPT ![t] = "provisioned"]
          /\ sandbox' = [sandbox EXCEPT ![t] = "empty"]
          /\ UNCHANGED leases
       \/ /\ task' = [task EXCEPT ![t] = "done"]
          /\ Revoke(t)
          /\ UNCHANGED sandbox
       \/ /\ task' = [task EXCEPT ![t] = "threw"]
          /\ UNCHANGED <<leases, sandbox>>
    /\ UNCHANGED <<clock, denied>>

\* pushContext: the files are inside, or it failed or threw.
PushContext(t) ==
    /\ task[t] = "provisioned"
    /\ \/ /\ task' = [task EXCEPT ![t] = "running"]
          /\ sandbox' = [sandbox EXCEPT ![t] = "ready"]
       \/ /\ task' = [task EXCEPT ![t] = "teardown"]
          /\ UNCHANGED sandbox
    /\ UNCHANGED <<clock, leases, denied>>

\* exec, whose end (a result or an exception) ends the attempt.
Exec(t) ==
    /\ task[t] = "running"
    /\ task' = [task EXCEPT ![t] = "teardown"]
    /\ UNCHANGED <<clock, leases, sandbox, denied>>

\* Mutant: a teardown that threw leaves withWorker.
DestroySandboxOrThrow(t) ==
    /\ task[t] = "teardown"
    /\ \/ /\ sandbox' = [sandbox EXCEPT ![t] = "destroyed"]
          /\ task' = [task EXCEPT ![t] = "revoking"]
       \/ /\ task' = [task EXCEPT ![t] = "done"]
          /\ UNCHANGED sandbox
    /\ UNCHANGED <<clock, leases, denied>>

\* destroy: its failure or exception is only noted, and the sandbox stays.
DestroySandbox(t) ==
    /\ task[t] = "teardown"
    /\ \/ sandbox' = [sandbox EXCEPT ![t] = "destroyed"]
       \/ UNCHANGED sandbox
    /\ task' = [task EXCEPT ![t] = "revoking"]
    /\ UNCHANGED <<clock, leases, denied>>

\* The lease goes with the sandbox.
Release(t) ==
    /\ task[t] = "revoking"
    /\ Revoke(t)
    /\ task' = [task EXCEPT ![t] = "done"]
    /\ UNCHANGED <<clock, sandbox, denied>>

\* A sandbox that still runs asks the credential endpoint, and is refused.
Deny(t) ==
    /\ sandbox[t] \in {"empty", "ready"}
    /\ ~Authorizes(t)
    /\ denied' = denied \cup {t}
    /\ UNCHANGED <<clock, leases, task, sandbox>>

LeaseNext ==
    \/ LeaseTick
    \/ \E t \in Tasks :
          \/ Issue(t)
          \/ RefuseRepo(t)
          \/ Provision(t)
          \/ PushContext(t)
          \/ Exec(t)
          \/ DestroySandbox(t)
          \/ Release(t)
          \/ Deny(t)

LeaseSpec == LeaseInit /\ [][LeaseNext]_leaseVars

-----------------------------------------------------------------------------
(* Properties                                                              *)

\* A completed task leaves nothing usable behind (#142 AC3, AC4): whatever
\* failed in its sandbox, and whoever else issued, pruned or revoked since, its
\* lease is refused, and a lease once refused is never good again.  Only a
\* provider that threw while provisioning leaves a lease to its expiry.
LeaseEndsWithItsTask ==
    \A t \in Tasks :
        \/ ~Authorizes(t)
        \/ task[t] \notin {"waiting", "done"} /\ t \notin denied
=============================================================================
