---------------------------- MODULE MCProvider ----------------------------
(* Catalogs as they grow, file by file: a nightly build after a release, a *)
(* candidate after its release, one version spelled in two ways, split     *)
(* vocabularies and a filter nobody can read, a version outside the window *)
(* or that does not parse, and a variant: each with one caller.  And one   *)
(* catalog of which two callers refresh their copy at the same time.       *)
EXTENDS Provider

CONSTANTS p1, p2

Is(field, negate, literal) == [field |-> field, negate |-> negate, literal |-> literal]
Nightly  == <<<<Is("channel", FALSE, "nightly")>>>>
Linux    == <<<<Is("os", FALSE, "Darwin")>>, <<Is("os", FALSE, "Linux"), Is("channel", TRUE, "beta")>>>>
Puzzling == <<<<Is("channel", FALSE, "nightly"), Is("locale", FALSE, "bg")>>, <<Is("locale", TRUE, "bg")>>>>

File(pair, variant, version, type, filter) ==
    [pair |-> pair, variant |-> variant, version |-> version, type |-> type, filter |-> filter]
BgEn(version, type, filter) == File("bg-en", "", version, type, filter)

V30  == <<Final(3), Final(0)>>
V3   == <<Final(3)>>
V30a == <<Final(3), Letter(0, 1, 1)>>
V31a == <<Final(3), Letter(1, 1, 0)>>
V40  == <<Final(4), Final(0)>>

Growing   == <<BgEn(V30, "model", <<>>), BgEn(V30, "vocab", <<>>),
               BgEn(V31a, "model", Nightly), BgEn(V31a, "vocab", Nightly)>>
Candidate == <<BgEn(V3, "model", Linux), BgEn(V3, "vocab", <<>>),
               BgEn(V30a, "model", <<>>), BgEn(V30a, "vocab", <<>>)>>
Spelled   == <<BgEn(V30, "model", <<>>), BgEn(V3, "model", <<>>),
               BgEn(V30, "vocab", <<>>), BgEn(V3, "vocab", <<>>)>>
Split     == <<BgEn(V30, "model", <<>>), BgEn(V30, "srcvocab", <<>>),
               BgEn(V30, "trgvocab", <<>>), BgEn(V30, "model", Puzzling)>>
Outside   == <<BgEn(V40, "model", <<>>), BgEn(V40, "vocab", <<>>), BgEn(<<>>, "model", <<>>),
               File("bg-en", "tiny", V30, "model", <<>>)>>

Contended == <<BgEn(V30, "model", <<>>), BgEn(V30, "vocab", <<>>), BgEn(V31a, "model", Nightly)>>

MCScripts == {Growing, Candidate, Spelled, Split, Outside, Contended}

MCPurposes ==
    [s \in MCScripts |-> [p \in {p1, p2} |->
        IF s = Contended THEN IF p = p1 THEN {"check"} ELSE {"list"}
        ELSE IF p = p1 THEN {"install", "check", "list"} ELSE {}]]

MCSystem == {[pair |-> "bg-en", version |-> V30a, origin |-> "system"]}
===========================================================================
