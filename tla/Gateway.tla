-------------------------------- MODULE Gateway --------------------------------
(***************************************************************************)
(* The governed model gateway (agent/lib/dark-factory/llm-gateway.ts, its  *)
(* route app/api/llm-gateway/route.ts and gateway-recorder.ts) over the    *)
(* run ledger.                                                             *)
(*                                                                         *)
(* A sandbox presents the lease of its run with each model call.  The      *)
(* gateway asks the governor first, forwards an admitted call, settles its *)
(* reservation and records the spend on the run; a refusal is recorded as  *)
(* the failure of the run.  What the history cannot or will not write is   *)
(* swallowed.  The governor is abstracted to its answer (module CostBudget *)
(* models it); the usage sink the gateway builds is handed to              *)
(* runGovernedLlmCall, which has no such option, so nothing is written     *)
(* there.                                                                  *)
(***************************************************************************)
EXTENDS RunLedger

CONSTANTS
    Requests,     \* calls of POST
    Refusals,     \* COST_REFUSALS: the reasons a call is refused for
    MaxOutages,   \* failed ledger writes in a behaviour (a bound of the model)
    MaxServed     \* runs with a sandbox in a behaviour (a bound of the model)

ASSUME GatewayAssumption ==
    /\ {MaxOutages, MaxServed} \subseteq Nat
    /\ "not_configured" \in Refusals
    /\ {Nil, "accepted"} \cap Refusals = {}
    /\ Nil \notin {200, 400, 401, 402, 502}

VARIABLES
    leased,    \* createInMemoryLeaseAuthority: the runs a live token names
    request,   \* where each POST is
    held,      \* reservations that are not settled, by request
    outages    \* history: ledger writes that failed

gatewayOnly == <<leased, request, held, outages>>
gatewayVars == <<ledgerVars, gatewayOnly>>

Responses == {200, 400, 401, 402, 502}

\* at: "answered" once it has an answer; "gone" if the process died before.
\* seen, lost: history, the status the run had when the gateway wrote to the
\* ledger, and whether that write failed.
Request == [at : {"idle", "admit", "forward", "record", "refuse", "answered",
                  "gone"},
            run : Runs \cup {Nil}, reason : Refusals \cup {Nil},
            answer : Responses \cup {Nil}, seen : RunStatus \cup {Nil},
            lost : BOOLEAN]

Unsent == [at |-> "idle", run |-> Nil, reason |-> Nil, answer |-> Nil,
           seen |-> Nil, lost |-> FALSE]

GatewayTypeOK ==
    /\ TypeOK
    /\ leased \subseteq Runs
    /\ request \in [Requests -> Request]
    /\ held \subseteq Requests
    /\ outages \in 0..MaxOutages

-----------------------------------------------------------------------------
(* The events                                                              *)

CostId(q) == <<"gateway-usage", q>>
RefusalId(reason) == <<"cost-refusal", reason>>

\* What happens to a run that is not the gateway's doing.
RunEvents ==
    {[id |-> <<"run", "asked">>, type |-> "worker.question", status |-> "blocked"],
     [id |-> <<"run", "begun">>, type |-> "dispatch.started", status |-> "running"],
     [id |-> <<"run", "ended">>, type |-> "run.terminal", status |-> "succeeded"]}

GatewayEventIds ==
    {CostId(q) : q \in Requests} \cup {RefusalId(n) : n \in Refusals}
    \cup {e.id : e \in RunEvents} \cup {RetireId}
    \cup {AcceptedId(d) : d \in Deliveries}

ASSUME GatewayIdsAssumption == GatewayEventIds \subseteq EventIds

\* createGatewayRecorder: the spend of a forwarded call.
CostEvent(q) == [id |-> CostId(q), type |-> "run.cost", status |-> "succeeded"]

\* Mutant: a refusal is noted without ending the run.
RefusalNoted(n) == [id |-> RefusalId(n), type |-> "run.cost", status |-> "failed"]

\* recordCostRefusal: the failure of the run, with the reason.
RefusalEvent(n) == [id |-> RefusalId(n), type |-> "run.terminal",
                    status |-> "failed"]

-----------------------------------------------------------------------------
(* A request                                                               *)

Respond(q, code) == [request[q] EXCEPT !.at = "answered", !.answer = code]

\* handleGatewayRequest up to its first await: the lease, the allow-list, and
\* the refusal of a gateway without a governor.
Arrive(q, r, allowed, governed) ==
    /\ request[q].at = "idle"
    /\ request' = [request EXCEPT ![q] =
           CASE r \notin leased -> Respond(q, 401)
             [] r \in leased /\ ~allowed -> [Respond(q, 400) EXCEPT !.run = r]
             [] r \in leased /\ allowed /\ ~governed ->
                    [@ EXCEPT !.at = "refuse", !.run = r,
                              !.reason = "not_configured"]
             [] OTHER -> [@ EXCEPT !.at = "admit", !.run = r]]
    /\ UNCHANGED <<ledgerVars, leased, held, outages>>

\* runGovernedLlmCall: admitted with a reservation, or refused.
Admit(q) ==
    /\ request[q].at = "admit"
    /\ \/ /\ request' = [request EXCEPT ![q].at = "forward"]
          /\ held' = held \cup {q}
       \/ /\ \E n \in Refusals :
                 request' = [request EXCEPT ![q].at = "refuse", ![q].reason = n]
          /\ UNCHANGED held
    /\ UNCHANGED <<ledgerVars, leased, outages>>

\* The upstream answers or throws; the reservation is settled either way, and
\* what settle answers is not looked at.
ForwardCall(q, answered, settled) ==
    /\ request[q].at = "forward"
    /\ request' = [request EXCEPT ![q] =
           IF answered THEN [@ EXCEPT !.at = "record"] ELSE Respond(q, 502)]
    /\ held' = IF settled THEN held \ {q} ELSE held
    /\ UNCHANGED <<ledgerVars, leased, outages>>

\* appendEvent with its failure swallowed: the event is recorded if the ledger
\* takes it, and dropped if it refuses it or cannot be reached.
WriteOnRun(q, e, code) ==
    LET r == request[q].run
        taken == ~EventIsLogged(r, e.id) /\ Applies(e, status[r])
        told == [Respond(q, code) EXCEPT !.seen = status[r]]
    IN  /\ \/ /\ IF taken THEN AppendEvent(r, e) ELSE UNCHANGED ledgerVars
              /\ request' = [request EXCEPT ![q] = told]
              /\ UNCHANGED outages
           \/ /\ outages < MaxOutages
              /\ outages' = outages + 1
              /\ request' = [request EXCEPT ![q] = [told EXCEPT !.lost = TRUE]]
              /\ UNCHANGED ledgerVars
        /\ UNCHANGED <<leased, held>>

RecordUsage(q) == request[q].at = "record" /\ WriteOnRun(q, CostEvent(q), 200)

RecordRefusal(q) ==
    request[q].at = "refuse" /\ WriteOnRun(q, RefusalEvent(request[q].reason), 402)

-----------------------------------------------------------------------------
(* Around it                                                               *)

\* A token is issued for a run (by the composition that starts its sandbox).
IssueLease(r) ==
    /\ status[r] \in Active
    /\ leased' = leased \cup {r}
    /\ UNCHANGED <<ledgerVars, request, held, outages>>

\* DELETE: revoking is idempotent, and does not stop a call under way.
RevokeLease(r) ==
    /\ leased' = leased \ {r}
    /\ UNCHANGED <<ledgerVars, request, held, outages>>

\* The server process dies: its leases and its requests with it.
GatewayRestart ==
    /\ leased' = {}
    /\ request' = [q \in Requests |->
           IF request[q].at \in {"idle", "answered"} THEN request[q]
           ELSE [request[q] EXCEPT !.at = "gone"]]
    /\ UNCHANGED <<ledgerVars, held, outages>>

\* The reaper of the cost governor gives back what was never settled.
ReapReservation(q) ==
    /\ q \in held /\ request[q].at \in {"gone", "answered"}
    /\ held' = held \ {q}
    /\ UNCHANGED <<ledgerVars, leased, request, outages>>

RunLives ==
    /\ \/ /\ Cardinality({r \in Runs : status[r] # "none"}) < MaxServed
          /\ \E d \in Deliveries, i \in Issues, r \in Runs : AcceptDelivery(d, i, r)
       \/ \E r \in Runs, e \in RunEvents : AppendEvent(r, e)
       \/ \E i \in Issues : RetireRunClaim(i)
    /\ UNCHANGED gatewayOnly

GatewayInit ==
    /\ Init
    /\ leased = {}
    /\ request = [q \in Requests |-> Unsent]
    /\ held = {}
    /\ outages = 0

GatewayNext ==
    \/ RunLives
    \/ \E r \in Runs : IssueLease(r) \/ RevokeLease(r)
    \/ \E q \in Requests, r \in Runs, allowed, governed \in BOOLEAN :
           Arrive(q, r, allowed, governed)
    \/ \E q \in Requests, answered, settled \in BOOLEAN :
           ForwardCall(q, answered, settled)
    \/ \E q \in Requests :
           \/ Admit(q) \/ RecordUsage(q) \/ RecordRefusal(q)
           \/ ReapReservation(q)
    \/ GatewayRestart

GatewaySpec == GatewayInit /\ [][GatewayNext]_gatewayVars

-----------------------------------------------------------------------------
(* Properties                                                              *)

\* A refusal is seen on the run, whatever else happens to it meanwhile: once a
\* sandbox has been told 402 its run is ended in the ledger, and if the run was
\* alive until then it failed with that reason (#281, #270).  A call that is
\* forwarded holds a reservation, and none is held for a call that was refused.
RefusalIsOnTheRun ==
    \A q \in Requests :
        LET r == request[q].run IN
        /\ request[q].answer = 402 /\ ~request[q].lost =>
               /\ status[r] \in Terminal
               /\ request[q].seen \in Active =>
                      /\ status[r] = "failed"
                      /\ EventIsLogged(r, RefusalId(request[q].reason))
        /\ request[q].at = "forward" => q \in held
        /\ request[q].answer \in {400, 401, 402} => q \notin held

\* docs/adr/0033: the spend of a forwarded call is an event of its run.
SpendIsOnTheRun ==
    \A q \in Requests :
        /\ request[q].answer = 200
        /\ ~request[q].lost
        /\ request[q].seen = "running"
        => EventIsLogged(request[q].run, CostId(q))
=============================================================================
