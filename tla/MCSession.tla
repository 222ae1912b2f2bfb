----------------------------- MODULE MCSession -----------------------------
(* dragomanctl translating with an update check beside it, and a search    *)
(* front end that may give up, beside another update check: four calls,    *)
(* and two daemons, at most.                                               *)
EXTENDS Session

CONSTANTS c1, c2

Beside(what) == [c \in {c1, c2} |-> IF c = c1 THEN what ELSE "check"]

MCCommands == {Beside("translate"), Beside("search")}
============================================================================
