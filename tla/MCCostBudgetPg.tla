--------------------------- MODULE MCCostBudgetPg ---------------------------
(* Calls of three processes on one budget, each of cost 1.                   *)
EXTENDS CostBudgetPg, TLC

CONSTANTS p1, p2, p3, c1, c2, c3, c4, global

MCProcOf == [c \in Calls |-> CASE c \in {c1, c2} -> p1 [] c = c3 -> p2 [] c = c4 -> p3]
MCBudgetOf == [c \in Calls |-> global]
MCEstimate == [c \in Calls |-> 1]
=============================================================================
