------------------------------ MODULE MCServices ------------------------------
(* The parts with state of their own, one to a behaviour, on their small     *)
(* instances.  The cap the global budget starts with holds both its calls,    *)
(* the one an operator may set only the larger.  Of the three files the       *)
(* Architect may read, one is empty and one longer than the bound.            *)
EXTENDS Services, TLC

CONSTANTS call1, call2, call3, proc1, proc2, global, tenant,
          c1, c2, c3, runA, runB, n1, n2, n3, n4, n5, ta, tb, y1, y2

MCProcOf == call1 :> proc1 @@ call2 :> proc2 @@ call3 :> proc2
MCBudgetOf == call1 :> global @@ call2 :> global @@ call3 :> tenant
MCEstimate == call1 :> 2 @@ call2 :> 1 @@ call3 :> 1
MCContents == <<[chars |-> 2, breaks |-> {}], [chars |-> 0, breaks |-> {}],
               [chars |-> 4, breaks |-> {2}]>>
MCUseOf == n1 :> [at |-> 1, tenant |-> ta, cost |-> 2]
           @@ n2 :> [at |-> 2, tenant |-> tb, cost |-> Unmeasured]
           @@ n3 :> [at |-> 2, tenant |-> Unassigned, cost |-> 3]
           @@ n4 :> [at |-> 1, tenant |-> ta, cost |-> 4]
           @@ n5 :> [at |-> 2, tenant |-> ta, cost |-> 1]
MCReadings == {<<>>, <<2>>, <<1, 1, 1, 1, 1, 1, 1, 1, 1, 9>>}
MCDearest == [known |-> TRUE, input |-> 1, output |-> 2]
MCPriceBooks == {[known |-> TRUE, input |-> 1, output |-> 1],
                 [known |-> FALSE, input |-> 0, output |-> 0]}
MCTaskHistories == {[samples |-> 0, successes |-> 0], [samples |-> 2, successes |-> 1]}
\* A measurer that does not look at the value, and one whose cases come out
\* better with either change, at a cost it does not always measure.
Adding(passed, iterations, costed) ==
    [cases |-> 2, passed |-> passed, iterations |-> iterations, costed |-> costed,
     cost |-> costed]
MCQualities == {[v \in SUBSET Cycles |-> Adding(1, 2, 1)],
                [v \in SUBSET Cycles |->
                     CASE v = {} -> Adding(0, 2, 1) [] v = {y1} -> Adding(2, 2, 0)
                       [] v = {y2} -> Adding(1, 3, 2) [] OTHER -> Adding(2, 4, 1)]}
MCRunOf == c1 :> runA @@ c2 :> runA @@ c3 :> runB
=============================================================================
