-------------------------------- MODULE Sandbox --------------------------------
(***************************************************************************)
(* The life of a coding sandbox: the OpenSandbox driver                    *)
(* (agent/lib/dark-factory/opensandbox-driver.ts), the reaper of           *)
(* sandbox-reaper.ts and runCodingPhase of the runner.                     *)
(*                                                                         *)
(* A coder is one runner process in its coding phase.  It first kills what *)
(* carries the label of its run, then works in one sandbox made at the     *)
(* first use, and kills it whichever way the phase ends.  Building one     *)
(* takes the server a while: a client that gave up waiting does not stop   *)
(* it.  Coders of one run may overlap, when two replies adopt one parked   *)
(* run.  A sandbox is named by the coder whose request it answers.         *)
(***************************************************************************)
EXTENDS Naturals

CONSTANTS
    Coders,   \* the runner processes in their coding phase
    RunOf     \* the run each works on: the label of its sandbox

VARIABLES
    coder,    \* where each coder is
    handle,   \* the driver's `pending`: what the coder has of its sandbox
    server,   \* what the OpenSandbox server has
    listed,   \* what the reaper of each coder still has to kill
    leaks     \* history: the coders that lost a sandbox they had asked for

sandboxVars == <<coder, handle, server, listed, leaks>>

SandboxTypeOK ==
    /\ coder \in [Coders -> {"waiting", "reaping", "phase", "disposing", "over", "crashed"}]
    /\ handle \in [Coders -> {"none", "creating", "vault", "ready", "rejected"}]
    /\ server \in [Coders -> {"none", "building", "alive", "reaped", "dead"}]
    /\ listed \in [Coders -> SUBSET Coders]
    /\ leaks \subseteq Coders

SandboxInit ==
    /\ coder = [c \in Coders |-> "waiting"]
    /\ handle = [c \in Coders |-> "none"]
    /\ server = [c \in Coders |-> "none"]
    /\ listed = [c \in Coders |-> {}]
    /\ leaks = {}

MoveCoder(c, from, to) ==
    coder[c] = from /\ coder' = [coder EXCEPT ![c] = to]

-----------------------------------------------------------------------------
(* Reaping, before the phase                                               *)

\* listSandboxInfos, filtered by the label of the run.
SandboxesOf(r) == {c \in Coders : server[c] = "alive" /\ RunOf[c] = r}

\* reapSandboxesByRun begins; a listing that fails only warns.
ListSandboxes(c) ==
    /\ MoveCoder(c, "waiting", "reaping")
    /\ \/ listed' = [listed EXCEPT ![c] = SandboxesOf(RunOf[c])]
       \/ UNCHANGED listed
    /\ UNCHANGED <<handle, server, leaks>>

\* One of the listed goes; a kill that fails is swallowed.
KillListed(c, s) ==
    /\ coder[c] = "reaping"
    /\ s \in listed[c]
    /\ listed' = [listed EXCEPT ![c] = @ \ {s}]
    /\ \/ server' = [server EXCEPT ![s] = IF @ = "alive" THEN "reaped" ELSE @]
          /\ UNCHANGED leaks
       \/ leaks' = leaks \cup {s} /\ UNCHANGED server
    /\ UNCHANGED <<coder, handle>>

BeginPhase(c) ==
    /\ listed[c] = {}
    /\ MoveCoder(c, "reaping", "phase")
    /\ UNCHANGED <<handle, server, listed, leaks>>

-----------------------------------------------------------------------------
(* The phase                                                               *)

\* sandbox(): the first use asks for one, every later use awaits the same.
CreateSandbox(c) ==
    /\ coder[c] = "phase"
    /\ handle[c] = "none"
    /\ handle' = [handle EXCEPT ![c] = "creating"]
    /\ server' = [server EXCEPT ![c] = "building"]
    /\ UNCHANGED <<coder, listed, leaks>>

\* The server has it built, or gives up.
BuildSandbox(c) ==
    /\ server[c] = "building"
    /\ \E made \in {"alive", "dead"} : server' = [server EXCEPT ![c] = made]
    /\ UNCHANGED <<coder, handle, listed, leaks>>

\* createSandbox returns the handle, or rejects: the server answered with an
\* error, or (the client timed out) may answer later.
CreateReturns(c) ==
    /\ coder[c] = "phase"
    /\ handle[c] = "creating"
    /\ \/ /\ server[c] = "alive"
          /\ handle' = [handle EXCEPT ![c] = "vault"]
          /\ UNCHANGED leaks
       \/ /\ handle' = [handle EXCEPT ![c] = "rejected"]
          /\ leaks' = leaks \cup {c}
    /\ UNCHANGED <<coder, server, listed>>

\* provisionGitPushCredential, on the vault path: no vault, a blank token or
\* a failed call reject what every use awaits, the sandbox being there.
SeedVault(c) ==
    /\ coder[c] = "phase"
    /\ handle[c] = "vault"
    /\ \/ handle' = [handle EXCEPT ![c] = "ready"] /\ UNCHANGED leaks
       \/ handle' = [handle EXCEPT ![c] = "rejected"] /\ leaks' = leaks \cup {c}
    /\ UNCHANGED <<coder, server, listed>>

\* The phase returns or throws (a rejected use throws), between two uses.
EndPhase(c) ==
    /\ handle[c] \in {"none", "ready", "rejected"}
    /\ MoveCoder(c, "phase", "disposing")
    /\ UNCHANGED <<handle, server, listed, leaks>>

\* dispose: the sandbox of a handle is killed (a failure is swallowed), of a
\* rejected one nothing is known.
Dispose(c) ==
    /\ MoveCoder(c, "disposing", "over")
    /\ \/ /\ server' = [server EXCEPT ![c] =
                 IF handle[c] = "ready" /\ @ = "alive" THEN "dead" ELSE @]
          /\ UNCHANGED leaks
       \/ /\ handle[c] = "ready"
          /\ leaks' = leaks \cup {c}
          /\ UNCHANGED server
    /\ handle' = [handle EXCEPT ![c] = "none"]
    /\ UNCHANGED listed

\* The server ends a sandbox after timeoutSeconds.
ExpireSandbox(c) ==
    /\ server[c] = "alive"
    /\ server' = [server EXCEPT ![c] = "dead"]
    /\ UNCHANGED <<coder, handle, listed, leaks>>

CrashCoder(c) ==
    /\ coder[c] \in {"reaping", "phase", "disposing"}
    /\ coder' = [coder EXCEPT ![c] = "crashed"]
    /\ handle' = [handle EXCEPT ![c] = "none"]
    /\ listed' = [listed EXCEPT ![c] = {}]
    /\ leaks' = leaks \cup {c}
    /\ UNCHANGED server

SandboxNext ==
    \E c \in Coders :
        \/ ListSandboxes(c)
        \/ \E s \in Coders : KillListed(c, s)
        \/ BeginPhase(c)
        \/ CreateSandbox(c)
        \/ BuildSandbox(c)
        \/ CreateReturns(c)
        \/ SeedVault(c)
        \/ EndPhase(c)
        \/ Dispose(c)
        \/ ExpireSandbox(c)
        \/ CrashCoder(c)

SandboxSpec == SandboxInit /\ [][SandboxNext]_sandboxVars

-----------------------------------------------------------------------------
(* Properties                                                              *)

\* A sandbox is never left running (#281 B2, B4) by a coder that is over: only
\* a create or a vault call that failed, a kill that failed or a crash leaves
\* one behind, for the server or a coder of the same run to end.  And a coder
\* that has its run to itself never loses its sandbox to a reaper.
SandboxIsDisposed ==
    \A c \in Coders :
        /\ coder[c] = "over" /\ c \notin leaks => server[c] \notin {"building", "alive"}
        /\ server[c] = "reaped" =>
               \E d \in Coders \ {c} : RunOf[d] = RunOf[c] /\ coder[d] # "waiting"
=============================================================================
