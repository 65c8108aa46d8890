----------------------------- MODULE OperatorGate -----------------------------
(***************************************************************************)
(* The operator's gate of the self-improvement loop: decisions armed with  *)
(* the operator CLI (scripts/self-improve-operator.ts over                 *)
(* agent/lib/dark-factory/operator-cli.ts), kept in the state store        *)
(* (state.ts, state-provider.ts) and consulted by the gate a cycle asks    *)
(* (self-improve-state.ts).                                                *)
(*                                                                         *)
(* All decisions are one JSON array under one key: an order reads the      *)
(* array, replaces its own entry and saves the whole, without a            *)
(* compare-and-set, and an array that cannot be read is taken for an empty *)
(* one.  An order is a process of its own with its own handle of the file. *)
(***************************************************************************)
EXTENDS Naturals

CONSTANTS
    Orders,      \* invocations of the operator CLI
    Consults,    \* calls of approve
    Widenings,   \* surfaces, with the kind access-widening
    Tunings,     \* surfaces, with the kind bounded-tuning
    Horizon,     \* MAX_EXPIRY_HORIZON_MS, in the unit of the clock
    Amounts,     \* the numbers in an expiry
    MaxHour,     \* a bound of the model
    NoExpiry, Unreadable, Unarmed

GateTargets == Widenings \cup Tunings
Decision == [answer : {"allow", "deny"}, until : Nat \cup {NoExpiry}, by : Orders]

ASSUME GateAssumption ==
    /\ {Horizon, MaxHour} \subseteq Nat /\ Amounts \subseteq Nat
    /\ Widenings \cap Tunings = {} /\ GateTargets # {}
    /\ NoExpiry \notin Nat /\ Unreadable \notin Nat /\ NoExpiry # Unreadable
    /\ Unarmed \notin Decision

VARIABLES
    opened,      \* what createStateStore made of the environment
    decisions,   \* the array under self-improve:operator-decisions
    order,       \* the place of each order, what it asks and has read
    consult,     \* what each approve answered, on which decision
    hour,
    ordered,     \* history: what the last order carried out on a target asked
    ordersMet,   \* history: two orders that write were under way at once
    blanked      \* history: an order took an array it could not read for empty

gateVars == <<opened, decisions, order, consult, hour, ordered, ordersMet, blanked>>

\* DF_STATE_DRIVER, and where DF_STATE_DB_PATH leads seen from DF_STATE_DB_DIR.
StoreEnvironments == [driver : {"", "sqlite", "other"}, path : BOOLEAN, rooted : BOOLEAN,
                 inside : BOOLEAN, lands : {"inside", "outside", "unverified"}]

\* createStateStore: no driver is the console provider, which refuses all; a
\* path is opened within the root, by its text and by where its links lead.
CreateStateStore(env) ==
    CASE env.driver = "" -> "console"
      [] /\ env.driver = "sqlite" /\ env.path
         /\ env.rooted => env.inside /\ env.lands = "inside" -> "sqlite"
      [] OTHER -> "thrown"

\* What an order asks of a target; only to grant a capability must it say who.
OrderAsks == [verb : {"allow"}, about : Widenings, named : BOOLEAN]
        \cup [verb : {"allow"}, about : Tunings, named : {FALSE}]
        \cup [verb : {"deny", "clear"}, about : GateTargets, named : {FALSE}]
Expiries == [form : {"absolute", "relative"}, amount : Amounts]
            \cup [form : {"never", "malformed"}, amount : {0}]

Arrays == [GateTargets -> Decision \cup {Unarmed}]
NoDecisions == [t \in GateTargets |-> Unarmed]

\* An order that is not about to write; a proposal nobody asked about yet.
NoAsk == [verb |-> "clear", about |-> CHOOSE t \in GateTargets : TRUE, named |-> FALSE]
IdleOrder == [at |-> "idle", ask |-> NoAsk, until |-> NoExpiry, seen |-> NoDecisions,
              handle |-> FALSE]
IdleConsult == [answer |-> "none", about |-> NoAsk.about, on |-> Unarmed,
                asked |-> Unarmed, at |-> 0]

GateTypeOK ==
    /\ opened \in {"console", "sqlite", "thrown"}
    /\ decisions \in Arrays /\ ordered \in Arrays
    /\ order \in [Orders -> [at : {"idle", "load", "save", "done"}, ask : OrderAsks,
                             until : Nat \cup {NoExpiry}, seen : Arrays,
                             handle : BOOLEAN]]
    /\ consult \in [Consults -> [answer : {"none", "approved", "declined"},
                                 about : GateTargets, on : Decision \cup {Unarmed},
                                 asked : Decision \cup {Unarmed}, at : Nat]]
    /\ hour \in Nat
    /\ ordersMet \in BOOLEAN /\ blanked \in BOOLEAN

GateInit ==
    /\ opened \in {CreateStateStore(env) : env \in StoreEnvironments}
    /\ decisions = NoDecisions /\ ordered = NoDecisions
    /\ order = [o \in Orders |-> IdleOrder]
    /\ consult = [k \in Consults |-> IdleConsult]
    /\ hour = 0
    /\ ordersMet = FALSE /\ blanked = FALSE

-----------------------------------------------------------------------------
(* An order                                                                *)

\* resolveExpiry.
ResolveExpiry(e) ==
    CASE e.form = "never" -> NoExpiry
      [] e.form = "relative" -> hour + e.amount
      [] e.form = "absolute" -> e.amount
      [] e.form = "malformed" -> Unreadable

\* The refusals of runOperatorCli: to grant a capability takes a name, and an
\* expiry lies ahead, within the horizon.
MayArm(ask, until) ==
    /\ ask.verb = "allow" /\ ask.about \in Widenings => ask.named
    /\ until # Unreadable
    /\ until # NoExpiry => until > hour /\ until <= hour + Horizon

\* main and runOperatorCli up to the store.  `list`, a command line that does
\* not parse, a refused order and a store that cannot be made write nothing;
\* they are steps that change nothing here.
MakeOrder(o, ask, expires) ==
    LET until == IF ask.verb = "clear" THEN NoExpiry ELSE ResolveExpiry(expires)
    IN /\ order[o].at = "idle"
       /\ opened # "thrown"
       /\ ask.verb = "clear" \/ MayArm(ask, until)
       /\ order' = [order EXCEPT ![o] = [IdleOrder EXCEPT
              !.at = "load", !.ask = ask, !.until = until]]
       /\ ordersMet' = (ordersMet \/ \E p \in Orders : order[p].at \in {"load", "save"})
       /\ UNCHANGED <<opened, decisions, consult, hour, ordered, blanked>>

\* What get may come to: the value, no handle of the file (an opening that
\* failed is remembered, so the save fails too), or a statement that failed.
Outcomes == IF opened = "sqlite" THEN {"read", "unopened", "failed"} ELSE {"unopened"}

\* loadAll: what could not be read is no decision.
LoadAll(reading) == IF reading = "read" THEN decisions ELSE NoDecisions

Load(o, reading) ==
    /\ order[o].at = "load"
    /\ reading \in Outcomes
    /\ order' = [order EXCEPT ![o] = [@ EXCEPT !.at = "save",
           !.seen = LoadAll(reading), !.handle = (reading # "unopened")]]
    /\ blanked' = (blanked \/ reading = "failed")
    /\ UNCHANGED <<opened, decisions, consult, hour, ordered, ordersMet>>

\* record and clear: the array that was read, with one entry per target.
EntryOf(o) ==
    IF order[o].ask.verb = "clear" THEN Unarmed
    ELSE [answer |-> order[o].ask.verb, until |-> order[o].until, by |-> o]

Upsert(o) == [order[o].seen EXCEPT ![order[o].ask.about] = EntryOf(o)]

\* saveAll: the whole array.  A save that fails is told and changes nothing; the
\* operator of a process that died with the save made does not know of it.
Save(o, saves) ==
    /\ order[o].at = "save"
    /\ saves => order[o].handle
    /\ decisions' = IF saves THEN Upsert(o) ELSE decisions
    /\ ordered' = IF saves THEN [ordered EXCEPT ![order[o].ask.about] = EntryOf(o)]
                  ELSE ordered
    /\ order' = [order EXCEPT ![o] = [@ EXCEPT !.at = "done", !.seen = NoDecisions,
           !.until = NoExpiry, !.handle = FALSE]]
    /\ UNCHANGED <<opened, consult, hour, ordersMet, blanked>>

-----------------------------------------------------------------------------
(* The gate                                                                *)

\* Mutant: a decision is in force until it is replaced.
IsLapsedNever(d) == FALSE

\* isExpired.
IsLapsed(d) == d.until # NoExpiry /\ hour >= d.until

\* operatorGateFromStore: nothing recorded, expired, or a deny all refuse.
Approves(seen, t) ==
    /\ seen[t] # Unarmed
    /\ ~IsLapsed(seen[t])
    /\ seen[t].answer = "allow"

\* approve, which a cycle calls about a proposal that widens access.
Approve(k, t, reading) ==
    /\ consult[k].answer = "none"
    /\ reading \in Outcomes
    /\ consult' = [consult EXCEPT ![k] =
           [answer |-> IF Approves(LoadAll(reading), t) THEN "approved" ELSE "declined",
            about |-> t, on |-> LoadAll(reading)[t], asked |-> ordered[t], at |-> hour]]
    /\ UNCHANGED <<opened, decisions, order, hour, ordered, ordersMet, blanked>>

HourPasses ==
    /\ hour < MaxHour
    /\ hour' = hour + 1
    /\ UNCHANGED <<opened, decisions, order, consult, ordered, ordersMet, blanked>>

GateNext ==
    \/ \E o \in Orders, ask \in OrderAsks, expires \in Expiries : MakeOrder(o, ask, expires)
    \/ \E o \in Orders, reading \in {"read", "unopened", "failed"} : Load(o, reading)
    \/ \E o \in Orders, saves \in BOOLEAN : Save(o, saves)
    \/ \E k \in Consults, t \in Widenings, reading \in {"read", "unopened", "failed"} :
           Approve(k, t, reading)
    \/ HourPasses

GateSpec == GateInit /\ [][GateNext]_gateVars

-----------------------------------------------------------------------------
(* Properties                                                              *)

\* Every decision in force is one an operator ordered for that target, by name
\* where it grants a capability and for no longer than the horizon.
DecisionsWereOrdered ==
    \A t \in GateTargets : decisions[t] # Unarmed =>
        LET d == decisions[t]
            ask == order[d.by].ask
        IN /\ ask.about = t /\ ask.verb = d.answer
           /\ d.answer = "allow" /\ t \in Widenings => ask.named
           /\ d.until # NoExpiry => d.until <= hour + Horizon

\* The store holds what was last ordered of each target.  An array that could
\* not be read loses decisions, and so refuses what was allowed, but revives
\* none; two orders at once may undo one another.
StoreFollowsOrders ==
    ~ordersMet => \A t \in GateTargets :
        /\ decisions[t] \in {ordered[t], Unarmed}
        /\ ~blanked => decisions[t] = ordered[t]

\* A widening was let through only on an allow that had not expired and, unless
\* two orders met, that no later order had withdrawn.
ApprovalsWereOrdered ==
    \A k \in Consults : consult[k].answer = "approved" =>
        /\ consult[k].on # Unarmed
        /\ consult[k].on.answer = "allow"
        /\ order[consult[k].on.by].ask.about = consult[k].about
        /\ consult[k].on.until # NoExpiry => consult[k].at < consult[k].on.until
        /\ ~ordersMet => consult[k].on = consult[k].asked

\* The gate opens only for what an operator ordered, and as long as he ordered.
GateIsOrdered == DecisionsWereOrdered /\ StoreFollowsOrders /\ ApprovalsWereOrdered
=============================================================================
