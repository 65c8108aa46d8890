----------------------------- MODULE MCLedgerParts -----------------------------
(* The parts over the ledger, one to a behaviour, on their small instances.  *)
EXTENDS LedgerParts, TLC

CONSTANT i1

MCMessages == {<<"progress", 1>>, <<"progress", 2>>, <<"question", 1>>}
MCPgEvents ==
    {[id |-> <<"pg", "question">>, type |-> "worker.question",
      status |-> "blocked"],
     [id |-> <<"pg", "resumed">>, type |-> "run.resumed",
      status |-> "running"],
     [id |-> <<"pg", "ended">>, type |-> "run.terminal",
      status |-> "succeeded"]}
MCEventIds == DiffEventIds \cup GatewayEventIds \cup RunnerEventIds
              \cup NoticeEventIds \cup ReportEventIds
              \cup DoneEventIds \cup {e.id : e \in MCPgEvents}
MCAbout == [d \in Deliveries |-> i1]
MCSymmetry == Permutations(Deliveries) \cup Permutations(Runs)
=============================================================================
