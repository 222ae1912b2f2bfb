--------------------------- MODULE MCPairWorkers ---------------------------
(* Bulgarian to German, which pivots through English until somebody        *)
(* installs the direct model, and Bulgarian to English, one of the legs.   *)
EXTENDS PairWorkers

CONSTANTS t1, t2, t3

BgDe == <<"bg", "de">>
BgEn == <<"bg", "en">>
EnDe == <<"en", "de">>

MCTasks == {t1, t2, t3}
MCPairs == {BgEn, EnDe}
Asks(kind, route, allow) == [kind |-> kind, route |-> route, allow_pivot |-> allow]

\* Two requests for the pivot route and one for its first leg.
MCCall == [t \in MCTasks |->
    CASE t = t1 -> Asks("translate", BgDe, TRUE)
      [] t = t2 -> Asks("prepare", BgDe, TRUE)
      [] OTHER  -> Asks("translate", BgEn, FALSE)]

MCInstalled == {BgEn, EnDe}
MCRemovable == {BgEn}
============================================================================
