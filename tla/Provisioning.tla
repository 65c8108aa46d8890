----------------------------- MODULE Provisioning -----------------------------
(***************************************************************************)
(* df:sandbox-up: provisionSandbox of agent/lib/dark-factory/              *)
(* sandbox-provisioning.ts, the state file of sandbox-state.ts that lets a *)
(* run skip what an earlier one did, and the adapters of                   *)
(* scripts/sandbox-up.ts.                                                  *)
(*                                                                         *)
(* One run after another goes through the stages for a lock digest, a      *)
(* cluster context and a port.  The state is read at the start and written *)
(* after the teardown; a run that is killed writes nothing, and its        *)
(* detached port-forward goes on.  Helm is told the context, kubectl (the  *)
(* rollout wait and the port-forward) works on its current one.            *)
(*                                                                         *)
(* A context is one cluster: the recorded inputs name the context but not  *)
(* the cluster.kubeconfig Helm is given, so a second kubeconfig that uses  *)
(* the same name for another cluster makes the code skip what the model    *)
(* would not. A port is the one both sides use: startForward of sandbox-   *)
(* up.ts listens on FORWARD_PORT (or 18082) whatever --forward-port says,  *)
(* so with that flag the wait asks a port nothing forwards, which is here  *)
(* a forward that does not answer.                                         *)
(***************************************************************************)
EXTENDS Naturals

CONSTANTS
    Digests,    \* digests of artifacts.lock.json
    Contexts,   \* kubernetes contexts
    Ports,      \* forward ports
    Absent,     \* not there
    MaxUps      \* runs of the command in a behaviour (a bound of the model)

ASSUME ProvisionAssumption ==
    Absent \notin Digests \cup Contexts \cup Ports /\ MaxUps \in Nat

VARIABLES
    saved,     \* the state file: the inputs of each completed stage
    up,        \* the run in progress: its inputs, its state, what it has done
    cluster,   \* the digest of what is deployed in each context
    forwards,  \* the ports something listens on, and the context behind them
    proven,    \* history: what the vault proof passed on
    astray     \* history: a run was killed or not saved, or kubectl's current
               \* context was not the one asked for

provisionVars == <<saved, up, cluster, forwards, proven, astray>>

Stages == {"vendor", "cluster", "deploy", "forward", "proof"}
Inputs == {<<d>> : d \in Digests} \cup {<<c>> : c \in Contexts}
          \cup (Digests \X Contexts) \cup (Ports \X Contexts)
          \cup {<<p>> : p \in Ports}
ASSUME InputsAssumption == Absent \notin Inputs

Recorded == [Stages -> Inputs \cup {Absent}]
Nothing == [s \in Stages |-> Absent]

ProvisionTypeOK ==
    /\ saved \in Recorded
    /\ up \in [pc : Stages \cup {"idle", "check", "teardown"}, runs : 0 .. MaxUps,
               digest : Digests \cup {Absent}, context : Contexts \cup {Absent},
               port : Ports \cup {Absent}, current : Contexts \cup {Absent},
               state : Recorded, forwarding : BOOLEAN, refused : BOOLEAN,
               disturbed : BOOLEAN]
    /\ cluster \in [Contexts -> Digests \cup {Absent}]
    /\ forwards \in [Ports -> Contexts \cup {Absent}]
    /\ proven \subseteq Contexts \X Digests
    /\ astray \in BOOLEAN

ProvisionInit ==
    /\ saved = Nothing
    /\ up = [pc |-> "idle", runs |-> 0, digest |-> Absent, context |-> Absent,
             port |-> Absent, current |-> Absent, state |-> Nothing,
             forwarding |-> FALSE, refused |-> FALSE, disturbed |-> FALSE]
    /\ cluster = [c \in Contexts |-> Absent]
    /\ forwards = [p \in Ports |-> Absent]
    /\ proven = {}
    /\ astray = FALSE

-----------------------------------------------------------------------------
(* The state file                                                          *)

\* DEPENDENTS, and invalidatedBy, which follows it transitively.
Dependents(s) ==
    CASE s = "vendor" -> {"deploy"}
      [] s = "cluster" -> {"deploy", "forward", "proof"}
      [] s = "deploy" -> {"forward", "proof"}
      [] s = "forward" -> {"proof"}
      [] s = "proof" -> {}
InvalidatedBy(s) == Dependents(s) \cup UNION {Dependents(t) : t \in Dependents(s)}

\* What each stage's success depends on.
InputsOf(s) ==
    CASE s = "vendor" -> <<up.digest>>
      [] s = "cluster" -> <<up.context>>
      [] s = "deploy" -> <<up.digest, up.context>>
      [] s = "forward" -> <<up.port, up.context>>
      [] s = "proof" -> <<up.port>>

CanSkipStage(s) == up.state[s] = InputsOf(s)

RecordStageSuccess(s) ==
    [t \in Stages |-> IF t = s THEN InputsOf(s)
                      ELSE IF t \in InvalidatedBy(s) THEN Absent ELSE up.state[t]]

InvalidateStage(s) ==
    [t \in Stages |-> IF t \in {s} \cup InvalidatedBy(s) THEN Absent ELSE up.state[t]]

-----------------------------------------------------------------------------
(* The stages                                                              *)

After(s) ==
    CASE s = "vendor" -> "cluster"
      [] s = "cluster" -> "deploy"
      [] s = "deploy" -> "forward"
      [] s = "forward" -> "proof"
      [] s = "proof" -> "teardown"

Skip(s) ==
    /\ up.pc = s
    /\ CanSkipStage(s)
    /\ up' = [up EXCEPT !.pc = After(s)]

Succeed(s) ==
    up' = [up EXCEPT !.pc = After(s), !.state = RecordStageSuccess(s)]

\* Mutant: the result does not tell that a command failed.
RefuseUntold(s) ==
    up' = [up EXCEPT !.pc = "teardown", !.disturbed = TRUE,
                     !.state = IF s \in Stages THEN InvalidateStage(s) ELSE @]

\* refuse, because a command failed.
Refuse(s) ==
    up' = [up EXCEPT !.pc = "teardown", !.refused = TRUE, !.disturbed = TRUE,
                     !.state = IF s \in Stages THEN InvalidateStage(s) ELSE @]

\* A run begins: the state file is read, a corrupt one as if there were none.
StartUp(d, c, p, current) ==
    /\ up.pc = "idle" /\ up.runs < MaxUps
    /\ \E loaded \in {saved, Nothing} :
          up' = [pc |-> "check", runs |-> up.runs + 1, digest |-> d, context |-> c,
                 port |-> p, current |-> current, state |-> loaded,
                 forwarding |-> FALSE, refused |-> FALSE, disturbed |-> FALSE]
    /\ astray' = (astray \/ current # c)
    /\ UNCHANGED <<saved, cluster, forwards, proven>>

\* checkPrerequisites refuses before anything is changed.
CheckPrerequisites ==
    /\ up.pc = "check"
    /\ up' = [up EXCEPT !.pc = "vendor"] \/ Refuse("check")
    /\ UNCHANGED <<saved, cluster, forwards, proven, astray>>

\* The lock and the images in the local store; the cluster, which is started.
PrepareStage(s) ==
    /\ s \in {"vendor", "cluster"} /\ up.pc = s
    /\ Skip(s) \/ (~CanSkipStage(s) /\ (Succeed(s) \/ Refuse(s)))
    /\ UNCHANGED <<saved, cluster, forwards, proven, astray>>

\* helm upgrades the context's release, kubectl waits for the rollout; a
\* refusal may come before or after the upgrade took.
Deploy ==
    /\ up.pc = "deploy"
    /\ \/ Skip("deploy") /\ UNCHANGED cluster
       \/ /\ ~CanSkipStage("deploy")
          /\ \/ Succeed("deploy") /\ cluster' = [cluster EXCEPT ![up.context] = up.digest]
             \/ Refuse("deploy") /\ cluster' = [cluster EXCEPT ![up.context] = up.digest]
             \/ Refuse("deploy") /\ UNCHANGED cluster
    /\ UNCHANGED <<saved, forwards, proven, astray>>

\* startForward waits until the port answers; it is also content when nothing
\* does within its deadline.
Forward ==
    /\ up.pc = "forward"
    /\ \/ Skip("forward") /\ UNCHANGED forwards
       \/ /\ ~CanSkipStage("forward")
          /\ \/ /\ up' = [up EXCEPT !.pc = "proof", !.state = RecordStageSuccess("forward"),
                                    !.forwarding = forwards[up.port] = Absent]
                /\ forwards' = [forwards EXCEPT ![up.port] =
                                    IF @ = Absent THEN up.current ELSE @]
             \/ /\ up' = [up EXCEPT !.pc = "proof", !.disturbed = TRUE,
                                    !.state = RecordStageSuccess("forward")]
                /\ UNCHANGED forwards
             \/ Refuse("forward") /\ UNCHANGED forwards
    /\ UNCHANGED <<saved, cluster, proven, astray>>

\* What answers at the port the run probes.
Answering == forwards[up.port] # Absent /\ cluster[forwards[up.port]] # Absent

\* The reachability probe and the vault proof.
Proof ==
    /\ up.pc = "proof"
    /\ \/ Skip("proof") /\ UNCHANGED proven
       \/ /\ ~CanSkipStage("proof")
          /\ \/ /\ Answering
                /\ Succeed("proof")
                /\ proven' = proven \cup {<<forwards[up.port], cluster[forwards[up.port]]>>}
             \/ /\ Answering
                /\ Refuse("proof")
                /\ UNCHANGED proven
             \/ /\ ~Answering
                /\ up' = [up EXCEPT !.pc = "teardown", !.refused = TRUE,
                                    !.state = InvalidateStage("proof")]
                /\ UNCHANGED proven
    /\ UNCHANGED <<saved, cluster, forwards, astray>>

\* finally: the forward this run started ends, then the state is saved; a save
\* that fails is only reported.
Teardown ==
    /\ up.pc = "teardown"
    /\ up' = [up EXCEPT !.pc = "idle", !.forwarding = FALSE]
    /\ forwards' = IF up.forwarding THEN [forwards EXCEPT ![up.port] = Absent] ELSE forwards
    /\ \/ saved' = up.state /\ UNCHANGED astray
       \/ astray' = TRUE /\ UNCHANGED saved
    /\ UNCHANGED <<cluster, proven>>

\* The command is killed: its forward, a detached process, is not.
KillUp ==
    /\ up.pc # "idle"
    /\ up' = [up EXCEPT !.pc = "idle", !.forwarding = FALSE, !.refused = TRUE,
                        !.disturbed = TRUE]
    /\ astray' = TRUE
    /\ UNCHANGED <<saved, cluster, forwards, proven>>

ProvisionNext ==
    \/ \E d \in Digests, c, current \in Contexts, p \in Ports : StartUp(d, c, p, current)
    \/ CheckPrerequisites
    \/ \E s \in {"vendor", "cluster"} : PrepareStage(s)
    \/ Deploy
    \/ Forward
    \/ Proof
    \/ Teardown
    \/ KillUp

ProvisionSpec == ProvisionInit /\ [][ProvisionNext]_provisionVars

-----------------------------------------------------------------------------
(* Properties                                                              *)

\* "A stale skip cannot masquerade as a successful provision" (#585 AC4):
\* whatever earlier runs did for other digests, contexts and ports, refused or
\* left half done, a run that reports ok has its digest deployed in its
\* context, and a proof passed there: as long as every run was allowed to save
\* what it did, and kubectl looked where helm did.
ProvisionIsReal ==
    up.pc = "idle" /\ up.runs > 0 /\ ~up.refused /\ ~astray =>
        /\ cluster[up.context] = up.digest
        /\ <<up.context, up.digest>> \in proven
=============================================================================
