----------------------------- MODULE Provider -----------------------------
(***************************************************************************)
(* The Remote Settings provider: installations and update checks from the  *)
(* call to the store (crates/dragoman-models/src/remote_settings.rs,       *)
(* service.rs), through the ETag cache they share with dragomanctl         *)
(* (http.rs) and the model registry (registry.rs).                         *)
(*                                                                         *)
(* The server publishes documents: the catalog's records, its own          *)
(* description ("server-info") and the model registry ("models").  The     *)
(* n-th version of a document has ETag n; the n-th catalog holds the first *)
(* n records of a script.  A cache file is two files, body and ETag, each  *)
(* truncated and then filled; 0 is a missing file, Torn one that was only  *)
(* truncated.  What an installation does in the store is ModelStore's; it  *)
(* is one step here.                                                       *)
(***************************************************************************)
EXTENDS Catalog

CONSTANTS Callers,    \* tasks of the daemon, runs of dragomanctl
          Pairs,
          Scripts,    \* the catalogs' records, in the order of publication
          Latest,     \* the last version of the other two documents
          Purposes,   \* a bound: what each caller calls for, by script
          System,     \* the models of the system's store
          Warm        \* documents the cache holds at the start

Documents == {"records", "server-info", "models"}

Torn  == -1
Files == Nat \cup {Torn}

Model == [pair : Pairs, version : Versions, origin : {"system", "user"}]

ASSUME ProviderAssumption ==
    /\ Latest \in Nat \ {0} /\ Warm \subseteq Documents
    /\ Scripts \subseteq Seq(Record) \ {<<>>}
    /\ Purposes \in [Scripts -> [Callers -> SUBSET {"install", "check", "list"}]]
    /\ System \subseteq Model /\ IsFiniteSet(System) /\ \A m \in System : Parsed(m.version)

VARIABLES
    script,      \* what the catalog comes to hold
    published,   \* [Documents -> Nat]: the version the server has
    prerelease,  \* RemoteSettingsProvider::allow_prerelease
    body, etag,  \* [Documents -> Nat \cup {Torn}]: the cache
    doubtful,    \* documents whose present version the cache may hold wrongly
    store,       \* what is installed
    pc,
    task,        \* the call: what for, and for which pair
    document,    \* the one that is being fetched
    cached,      \* the body and the etag that cached_get has read
    fetched,     \* the version the response was about, 0 without a response
    got,         \* the body cached_get returns
    catalog,     \* the records' version this call works from
    chosen       \* the set that InstallPair installs

server == <<script, published>>
cache  == <<body, etag, doubtful>>
call   == <<task, document, cached, fetched, got, catalog, chosen>>
vars   == <<server, prerelease, cache, store, pc, call>>

Records(n) == SubSeq(script, 1, n)
Last(d)    == IF d = "records" THEN Len(script) ELSE Latest
Sets(n)    == AcceptedSets(Records(n), FilterEnv(prerelease))

NoTask  == [for |-> "nothing", pair |-> ""]
Tasks   == [for : {"install"}, pair : Pairs] \cup [for : {"check", "list"}, pair : {""}]
NoSet   == [pair |-> "", variant |-> "", version |-> <<>>]

Init ==
    /\ script \in Scripts /\ published = [d \in Documents |-> 1]
    /\ prerelease \in BOOLEAN
    /\ body = [d \in Documents |-> IF d \in Warm THEN 1 ELSE 0] /\ etag = body
    /\ doubtful = {}
    /\ store = System
    /\ pc = [p \in Callers |-> "idle"]
    /\ task = [p \in Callers |-> NoTask]
    /\ document = [p \in Callers |-> "records"]
    /\ cached = [p \in Callers |-> [body |-> 0, etag |-> 0]]
    /\ fetched = [p \in Callers |-> 0] /\ got = [p \in Callers |-> 0]
    /\ catalog = [p \in Callers |-> 0] /\ chosen = [p \in Callers |-> NoSet]

Goto(p, from, to) == pc[p] = from /\ pc' = [pc EXCEPT ![p] = to]

\* Nobody else has anything of the document in hand.
Alone(p) ==
    \A q \in Callers \ {p} : document[q] = document[p] => pc[q] \in {"idle", "body", "install"}

Writing(p) == pc[p] \in {"fetched", "fill", "filled", "tag"}

\* p has received the version that the server has now, and nothing newer.
IsPresent(p) == fetched[p] = published[document[p]]

\* If that is so, what the cache holds of p's document is in doubt.
DoubtIf(condition, p) == doubtful' = IF condition THEN doubtful \cup {document[p]} ELSE doubtful

\* The call is over, answered or dead; nothing of it is left in memory.
End(p) ==
    /\ pc' = [pc EXCEPT ![p] = "idle"] /\ task' = [task EXCEPT ![p] = NoTask]
    /\ document' = [document EXCEPT ![p] = "records"]
    /\ cached' = [cached EXCEPT ![p] = [body |-> 0, etag |-> 0]]
    /\ fetched' = [fetched EXCEPT ![p] = 0] /\ got' = [got EXCEPT ![p] = 0]
    /\ catalog' = [catalog EXCEPT ![p] = 0] /\ chosen' = [chosen EXCEPT ![p] = NoSet]
-----------------------------------------------------------------------------
(* cached_get *)

\* The daemon begins only while Config::network allows it, dragomanctl's
\* "store install" and "store available" always: no state here tells.
Begin(p, t) ==
    /\ Goto(p, "idle", "body") /\ t.for \in Purposes[script][p]
    /\ task' = [task EXCEPT ![p] = t]
    /\ UNCHANGED <<server, prerelease, cache, store, document, cached, fetched, got, catalog, chosen>>

ReadBody(p) ==
    /\ Goto(p, "body", "etag")
    /\ cached' = [cached EXCEPT ![p].body = body[document[p]]]
    /\ DoubtIf(\E q \in Callers : document[q] = document[p] /\ Writing(q) /\ IsPresent(q), p)
    /\ UNCHANGED <<server, prerelease, body, etag, store, task, document, fetched, got, catalog, chosen>>

\* The etag is sent only with a body to fall back on.
ReadEtag(p) ==
    /\ Goto(p, "etag", "sent")
    /\ cached' = [cached EXCEPT ![p].etag = IF cached[p].body = 0 THEN 0 ELSE etag[document[p]]]
    /\ UNCHANGED <<server, prerelease, cache, store, task, document, fetched, got, catalog, chosen>>

Return(p, d) == got' = [got EXCEPT ![p] = d] /\ UNCHANGED <<task, document, cached, catalog, chosen>>

\* 304: the body that was read before the request.
NotModified(p) ==
    /\ Goto(p, "sent", "returned") /\ cached[p].etag = published[document[p]]
    /\ fetched' = [fetched EXCEPT ![p] = published[document[p]]]
    /\ Return(p, cached[p].body)
    /\ UNCHANGED <<server, prerelease, cache, store>>

Fetched(p) ==
    /\ Goto(p, "sent", "fetched") /\ cached[p].etag # published[document[p]]
    /\ fetched' = [fetched EXCEPT ![p] = published[document[p]]]
    /\ Return(p, published[document[p]])
    /\ DoubtIf(~Alone(p), p)
    /\ UNCHANGED <<server, prerelease, body, etag, store>>

\* No network, or a status that is neither: a stale copy beats nothing.
Stale(p) ==
    /\ Goto(p, "sent", "returned") /\ cached[p].body # 0
    /\ Return(p, cached[p].body)
    /\ UNCHANGED <<server, prerelease, cache, store, fetched>>

Unreachable(p) ==
    /\ pc[p] = "sent" /\ End(p) /\ cached[p].body = 0
    /\ UNCHANGED <<server, prerelease, cache, store>>

Write(file, p, d) == file' = [file EXCEPT ![document[p]] = d]

\* The etag first, and then the body.
EtagThenTruncate(p) ==
    /\ Goto(p, "fetched", "fill") /\ Write(body, p, Torn) /\ Write(etag, p, fetched[p])
    /\ UNCHANGED <<server, prerelease, doubtful, store, call>>

TruncateBody(p) ==
    /\ Goto(p, "fetched", "fill") /\ Write(body, p, Torn)
    /\ UNCHANGED <<server, prerelease, etag, doubtful, store, call>>

FillBody(p) ==
    /\ Goto(p, "fill", "filled") /\ Write(body, p, fetched[p])
    /\ doubtful' = IF Alone(p) /\ IsPresent(p) THEN doubtful \ {document[p]} ELSE doubtful
    /\ UNCHANGED <<server, prerelease, etag, store, call>>

\* Its result is thrown away: the etag is written all the same.
BodyFails(p) ==
    /\ pc[p] \in {"fetched", "fill"} /\ pc' = [pc EXCEPT ![p] = "filled"]
    /\ DoubtIf(IsPresent(p), p)
    /\ UNCHANGED <<server, prerelease, body, etag, store, call>>

TruncateEtag(p) ==
    /\ Goto(p, "filled", "tag") /\ Write(etag, p, Torn)
    /\ UNCHANGED <<server, prerelease, body, doubtful, store, call>>

FillEtag(p) ==
    /\ Goto(p, "tag", "returned") /\ Write(etag, p, fetched[p])
    /\ UNCHANGED <<server, prerelease, body, doubtful, store, call>>

EtagFails(p) ==
    /\ pc[p] \in {"filled", "tag"} /\ pc' = [pc EXCEPT ![p] = "returned"]
    /\ UNCHANGED <<server, prerelease, cache, store, call>>

CachedGet(p) ==
    \/ ReadBody(p) \/ ReadEtag(p) \/ NotModified(p) \/ Fetched(p) \/ Stale(p)
    \/ Unreachable(p) \/ TruncateBody(p) \/ FillBody(p) \/ BodyFails(p)
    \/ TruncateEtag(p) \/ FillEtag(p) \/ EtagFails(p)
-----------------------------------------------------------------------------
(* available, install_pair, check_for_updates *)

\* On to the next document, with nothing of the last fetch but its result.
Fetch(p, d) ==
    /\ document' = [document EXCEPT ![p] = d]
    /\ cached' = [cached EXCEPT ![p] = [body |-> 0, etag |-> 0]]
    /\ fetched' = [fetched EXCEPT ![p] = 0] /\ got' = [got EXCEPT ![p] = 0]

\* The catalog parses; the server's description says where the files are.
ParseRecords(p) ==
    /\ Goto(p, "returned", "body") /\ document[p] = "records" /\ got[p] # Torn
    /\ catalog' = [catalog EXCEPT ![p] = got[p]] /\ Fetch(p, "server-info")
    /\ UNCHANGED <<server, prerelease, cache, store, task, chosen>>

BadResponse(p) ==
    /\ pc[p] = "returned" /\ document[p] # "models" /\ got[p] = Torn /\ End(p)
    /\ UNCHANGED <<server, prerelease, cache, store>>

Parsing(p) == pc[p] = "returned" /\ document[p] = "server-info" /\ got[p] # Torn

ChooseSet(p) ==
    /\ Parsing(p) /\ task[p].for = "install" /\ pc' = [pc EXCEPT ![p] = "install"]
    /\ \E s \in Offers(Sets(catalog[p]), task[p].pair) : chosen' = [chosen EXCEPT ![p] = s]
    /\ UNCHANGED <<server, prerelease, cache, store, task, document, cached, fetched, got, catalog>>

NoSuchPair(p) ==
    /\ Parsing(p) /\ task[p].for = "install" /\ End(p)
    /\ Offers(Sets(catalog[p]), task[p].pair) = {}
    /\ UNCHANGED <<server, prerelease, cache, store>>

\* The comparison with the store is Updates; then the registry's turn.
CompareWithStore(p) ==
    /\ Parsing(p) /\ task[p].for = "check"
    /\ pc' = [pc EXCEPT ![p] = "body"] /\ Fetch(p, "models")
    /\ UNCHANGED <<server, prerelease, cache, store, task, catalog, chosen>>

\* dragomanctl store available
ListSets(p) ==
    /\ Parsing(p) /\ task[p].for = "list" /\ End(p)
    /\ UNCHANGED <<server, prerelease, cache, store>>

Install(p) ==
    /\ pc[p] = "install" /\ End(p)
    /\ store' = store \cup {[pair |-> chosen[p].pair, version |-> chosen[p].version,
                             origin |-> "user"]}
    /\ UNCHANGED <<server, prerelease, cache>>

InstallFails(p) ==
    /\ pc[p] = "install" /\ End(p) /\ UNCHANGED <<server, prerelease, cache, store>>

\* A registry that cannot be refreshed or parsed fails nothing.
AnswerCheck(p) ==
    /\ document[p] = "models" /\ pc[p] = "returned" /\ End(p)
    /\ UNCHANGED <<server, prerelease, cache, store>>

Provide(p) ==
    \/ ParseRecords(p) \/ BadResponse(p) \/ ChooseSet(p) \/ NoSuchPair(p)
    \/ CompareWithStore(p) \/ ListSets(p) \/ Install(p) \/ InstallFails(p) \/ AnswerCheck(p)
-----------------------------------------------------------------------------
(* Around it *)

\* The process dies, or the request is cancelled at one of its awaits.
Die(p) ==
    /\ pc[p] # "idle" /\ End(p) /\ UNCHANGED <<server, prerelease, cache, store>>

Publish(d) ==
    /\ published[d] < Last(d) /\ published' = [published EXCEPT ![d] = @ + 1]
    /\ doubtful' = doubtful \ {d}
    /\ UNCHANGED <<script, prerelease, body, etag, store, pc, call>>

\* SetConfig
Configure ==
    /\ prerelease' \in BOOLEAN
    /\ UNCHANGED <<server, cache, store, pc, call>>

RemovePair(pair) ==
    /\ store' = {m \in store : m.pair # pair \/ m.origin # "user"}
    /\ UNCHANGED <<server, prerelease, cache, pc, call>>

Next ==
    \/ \E p \in Callers : (\E t \in Tasks : Begin(p, t)) \/ CachedGet(p) \/ Provide(p) \/ Die(p)
    \/ (\E d \in Documents : Publish(d)) \/ Configure
    \/ \E pair \in Pairs : RemovePair(pair)

Spec == Init /\ [][Next]_vars
-----------------------------------------------------------------------------
Steps == {"idle", "body", "etag", "sent", "fetched", "fill", "filled", "tag", "returned",
          "install"}

TypeOK ==
    /\ script \in Scripts /\ prerelease \in BOOLEAN
    /\ published \in [Documents -> Nat \ {0}]
    /\ \A d \in Documents : published[d] <= Last(d)
    /\ doubtful \subseteq Documents /\ body \in [Documents -> Files] /\ etag \in [Documents -> Files]
    /\ store \subseteq Model /\ \A m \in store : Parsed(m.version)
    /\ pc \in [Callers -> Steps] /\ task \in [Callers -> Tasks \cup {NoTask}]
    /\ document \in [Callers -> Documents]
    /\ cached \in [Callers -> [body : Files, etag : Files]]
    /\ fetched \in [Callers -> Nat] /\ got \in [Callers -> Files]
    /\ catalog \in [Callers -> Nat] /\ chosen \in [Callers -> ModelSet \cup {NoSet}]
    /\ \A p \in Callers : /\ document[p] # "records" => catalog[p] > 0
                          /\ pc[p] = "install" => chosen[p].pair = task[p].pair

\* "The server said the cached copy is current" (http.rs:21): wherever
\* earlier refreshes were cut off, a refresh that reached the server returns
\* the document the server has, unless the cached copy of that very version is
\* in doubt: its body could not be written (http.rs:120-123), or another
\* refresh of the document was under way while it was.  Only the next version
\* to be published, or a body written by a refresh on its own, ends the doubt.
AnswerCurrent ==
    \A p \in Callers :
        pc[p] = "returned" /\ fetched[p] # 0 /\ IsPresent(p)
            => got[p] = fetched[p] \/ document[p] \in doubtful

Plain(n, pair) == \A i \in 1 .. n : script[i].pair = pair => script[i].variant = ""

\* An update that is announced can be had, and installing it ends it: from
\* one catalog, InstallPair installs the announced version, and the check
\* after it has nothing to say about that pair, whatever the store and the
\* system's packages hold.  For pairs without variants.
UpdatesSettle ==
    LET n      == published["records"]
        sets   == Sets(n)
        With(s) == store \cup {[pair |-> s.pair, version |-> s.version, origin |-> "user"]}
    IN  \A pair \in {q \in Pairs : Plain(n, q)} :
            /\ OfPair(Updates(sets, store), pair) \subseteq Offers(sets, pair)
            /\ \A s \in Offers(sets, pair) : OfPair(Updates(sets, With(s)), pair) = {}

\* What ListLanguagePairs calls available, from whatever is in the cache,
\* InstallPair finds at the server: never NoSuchPair, never an older model.
ListedIsInstallable ==
    LET n == body["records"]
    IN  n > 0 /\ body["server-info"] > 0 =>
        \A pair \in {q \in Pairs : Plain(published["records"], q)} :
            \A s \in Available(Sets(n), pair) :
                \E t \in Offers(Sets(published["records"]), pair) : ~Older(t.version, s.version)
===========================================================================
