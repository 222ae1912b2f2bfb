------------------------- MODULE MCRouteScheduler -------------------------
(* One interactive job and two batch jobs on one route.  The batch job b1  *)
(* needs two chunks; the flag of b2 may be raised.                         *)
EXTENDS RouteScheduler

CONSTANTS i1, b1, b2

MCJobs     == {i1, b1, b2}
MCPriority == [j \in MCJobs |-> IF j = i1 THEN "interactive" ELSE "batch"]
MCSegments == [j \in MCJobs |-> CASE j = b1 -> 3 [] j = i1 -> 3 [] OTHER -> 1]
MCFlagged  == {b2}
============================================================================
