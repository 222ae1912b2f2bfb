--------------------------- MODULE MCModelStore ---------------------------
(* Two callers in the daemon and one run of dragomanctl.  Versions 1 and 3  *)
(* are packaged, 3 of a major version the engine does not support.          *)
EXTENDS ModelStore

CONSTANTS d1, d2, d3, ctl, daemon, dragomanctl, f1, f2

MCCallers == {d1, d2, ctl}
MCProcOf  == [c \in MCCallers |-> IF c = ctl THEN dragomanctl ELSE daemon]
MCThreads == [p \in {daemon, dragomanctl} |-> IF p = daemon THEN 2 ELSE 1]

\* As many callers in the daemon as its two threads and one more.
BusyCallers == {d1, d2, d3}
BusyProcOf  == [c \in BusyCallers |-> daemon]
BusyThreads == [p \in {daemon} |-> 2]

===========================================================================
