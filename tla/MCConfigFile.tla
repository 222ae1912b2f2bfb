--------------------------- MODULE MCConfigFile ---------------------------
(* A number, a switch, both at once, and the refusals: a value below its   *)
(* range next to a good one, a key nobody knows, a number for a switch.    *)
EXTENDS ConfigFile, TLC

CONSTANTS c1, c2

Sets(changes) == [n \in Names |-> IF n \in DOMAIN changes THEN changes[n] ELSE Unset]

MCChanges ==
    {Sets(("memory_budget_mb" :> Number(64)) @@ ("allow_prerelease" :> Bool(TRUE))),
     Sets("allow_prerelease" :> Bool(FALSE)),
     Sets("memory_budget_mb" :> Number(1048576)),
     Sets(("memory_budget_mb" :> Number(63)) @@ ("network" :> Bool(FALSE))),
     Sets("misspelt" :> Number(64)), Sets("network" :> Number(1))}

\* A file of the user's, one with a key nobody knows, and no TOML at all.
MCEdits == {Sets(("memory_budget_mb" :> Number(1)) @@ ("network" :> Bool(FALSE))),
            Sets("misspelt" :> Number(1)), Torn}

TwoChanges == {Sets("memory_budget_mb" :> Number(64)), Sets("network" :> Bool(FALSE))}
NoEdits    == {}
============================================================================
