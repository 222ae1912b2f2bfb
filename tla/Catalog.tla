------------------------------ MODULE Catalog ------------------------------
(***************************************************************************)
(* From the records of the server to the models that are offered           *)
(* (crates/dragoman-models/src/records.rs), and from the offers and the    *)
(* store to the updates and to the rows of ListLanguagePairs.              *)
(*                                                                         *)
(* A record is one file: its pair, variant ("" for none), version, type    *)
(* and filter; names, hashes and sizes are left out.  A filter is a        *)
(* sequence of ||-clauses, each a sequence of &&-terms, without            *)
(* parentheses; the empty one lets everybody have the record.              *)
(***************************************************************************)
EXTENDS Versions, FiniteSets

Term   == [field : STRING, negate : BOOLEAN, literal : STRING]
Record == [pair : STRING, variant : STRING, version : Versions, type : STRING,
           filter : Seq(Seq(Term))]

MODEL_MAJOR_MIN == 3
MODEL_MAJOR_MAX == 3

FilterEnv(prerelease) ==
    [channel |-> IF prerelease THEN "nightly" ELSE "release", os |-> "Linux"]

\* A term is [field, negate, literal]; one that eval_term cannot read has
\* another field.
Readable(t)      == t.field \in {"channel", "os"}
EvalTerm(t, env) == (env[t.field] = t.literal) # t.negate

\* all_terms && eval_term(..)?: a false term hides the rest of its clause.
Reached(clause, i, env) ==
    \A j \in 1 .. i - 1 : Readable(clause[j]) /\ EvalTerm(clause[j], env)

Refused(filter, env) ==
    \E c \in DOMAIN filter : \E i \in DOMAIN filter[c] :
        Reached(filter[c], i, env) /\ ~Readable(filter[c][i])

FilterMatches(filter, env) ==
    \/ filter = <<>>
    \/ /\ ~Refused(filter, env)
       /\ \E c \in DOMAIN filter : \A i \in DOMAIN filter[c] :
             Readable(filter[c][i]) /\ EvalTerm(filter[c][i], env)

Usable(r, env) ==
    /\ FilterMatches(r.filter, env) /\ Parsed(r.version)
    /\ Major(r.version) \in MODEL_MAJOR_MIN .. MODEL_MAJOR_MAX

ModelSet == [pair : STRING, variant : STRING, version : Versions]
SetOf(r) == [pair |-> r.pair, variant |-> r.variant, version |-> r.version]

Complete(types) ==
    "model" \in types /\ ("vocab" \in types \/ {"srcvocab", "trgvocab"} \subseteq types)

\* A version is what parse makes of its text.  (The code groups by the text:
\* two spellings with the same parts, "3.0" and "3.00", are one set here.)
CompleteSets(records, env) ==
    LET usable == {i \in DOMAIN records : Usable(records[i], env)}
        Types(s) == {records[i].type : i \in {j \in usable : SetOf(records[j]) = s}}
    IN  {s \in {SetOf(records[i]) : i \in usable} : Complete(Types(s))}

\* The comparison the wrong way round.
KeptOldest(s, t) == ~Older(t.version, s.version)

\* Whether s is kept when t is met: sets come in the order of their text, so
\* of two spellings of one version, "3" and "3.0", the shorter one stays.
Kept(s, t) ==
    \/ Older(t.version, s.version)
    \/ ~Older(s.version, t.version) /\ Len(s.version) <= Len(t.version)

AcceptedSets(records, env) ==
    LET sets == CompleteSets(records, env)
    IN  {s \in sets : \A t \in sets : t.pair = s.pair /\ t.variant = s.variant => Kept(s, t)}
-----------------------------------------------------------------------------
(* The store is a set of [pair, version, origin]. *)

OfPair(things, pair) == {x \in things : x.pair = pair}

\* The first of installed_by_pair: the newest, whatever its major version.
Best(store, pair) ==
    CHOOSE m \in OfPair(store, pair) :
        \A n \in OfPair(store, pair) : ~Older(m.version, n.version)

\* InstallPair installs the set without a variant, and only that.
Offers(sets, pair) == {s \in OfPair(sets, pair) : s.variant = ""}

\* Any other version than the installed one.
UpdatesOther(sets, store) ==
    {s \in sets : OfPair(store, s.pair) # {} /\ Best(store, s.pair).version # s.version}

\* check_for_updates
Updates(sets, store) ==
    {s \in sets : /\ OfPair(store, s.pair) # {}
                  /\ Older(Best(store, s.pair).version, s.version)}

\* list_language_pairs: a later set of the pair, a variant, takes the row's
\* available_version over.
Available(sets, pair) ==
    IF \E s \in OfPair(sets, pair) : s.variant # ""
    THEN {s \in OfPair(sets, pair) : s.variant # ""}
    ELSE Offers(sets, pair)
============================================================================
