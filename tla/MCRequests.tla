---------------------------- MODULE MCRequests ----------------------------
(* Three calls of one client that stays, with tokens of their own, so that *)
(* the third can hit a cap of two; or two calls and one that is refused for *)
(* its token: both of a client that may leave, with tokens of their own or *)
(* one token, or one of it and one of another client.                      *)
EXTENDS Requests

CONSTANTS r1, r2, r3, c1, c2

Calls(a, b, c) == [r \in {r1, r2, r3} |-> CASE r = r1 -> a [] r = r2 -> b [] OTHER -> c]
From(c, t)     == [client |-> c, token |-> t]

MCRequestSet == {r1, r2, r3}
MCClients    == {c1, c2}
MCTokens     == {"t1", "t2", "t3", "bad"}
MCValid      == MCTokens \ {"bad"}

OwnTokens   == Calls(From(c1, "t1"), From(c1, "t2"), From(c1, "t3"))
LeaverOwn   == Calls(From(c2, "t1"), From(c2, "t2"), From(c1, "bad"))
TwoClients  == Calls(From(c2, "t1"), From(c1, "t1"), From(c1, "bad"))
LeaverReuse == Calls(From(c2, "t1"), From(c2, "t1"), From(c2, "bad"))

MCAssignments == {OwnTokens, LeaverOwn, TwoClients, LeaverReuse}
MCLeaverOwn   == {LeaverOwn}
============================================================================
