--------------------------- MODULE MCOrchestrator ---------------------------
(***************************************************************************)
(* Two runs over one database that already remembers two earlier ones, of  *)
(* which only the newest three entries are looked at.  The first run's     *)
(* goal shares tokens with everything, the second one's with the first run *)
(* and the older of the past ones.                                         *)
(***************************************************************************)
EXTENDS Orchestrator

CONSTANTS p1, p2, old1, old2

MCProcs == {p1, p2, old1, old2}

MCPast == <<old1, old2>>

MCRelevance ==
  [p \in MCProcs |-> [q \in MCProcs |->
     CASE p = p1 -> IF q = p2 THEN 1 ELSE 2
       [] p = p2 -> IF q \in {p1, old1} THEN 1 ELSE 0
       [] OTHER  -> 0]]
=============================================================================
