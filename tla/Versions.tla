----------------------------- MODULE Versions -----------------------------
(***************************************************************************)
(* The order of model versions (crates/dragoman-models/src/version.rs),    *)
(* which accepted_sets, resolve and check_for_updates all go by.           *)
(*                                                                         *)
(* A version is the sequence of its dotted parts, so "3" and "3.0" are two *)
(* versions that neither is older than the other; text that does not parse *)
(* is the empty sequence.  The letters of a part are a number: 0 for none. *)
(***************************************************************************)
EXTENDS Integers, Sequences

\* number, is_final, alpha, pre_number: compared in this order.
Part     == Nat \X {0, 1} \X Nat \X Nat
Versions == Seq(Part)

Final(n)        == <<n, 1, 0, 0>>
Letter(n, a, p) == <<n, 0, a, p>>     \* 0a1 is Letter(0, 1, 1)

Parsed(v) == v # <<>>
Major(v)  == v[1][1]

PartLess(a, b) == \E f \in 1 .. 4 : a[f] < b[f] /\ \A e \in 1 .. f - 1 : a[e] = b[e]

\* Missing trailing parts count as zero-final.
PartAt(v, i) == IF i \in 1 .. Len(v) THEN v[i] ELSE Final(0)

Older(v, w) ==
    \E i \in 1 .. (Len(v) + Len(w)) :
        /\ PartLess(PartAt(v, i), PartAt(w, i))
        /\ \A j \in 1 .. i - 1 : PartAt(v, j) = PartAt(w, j)
=============================================================================
