-------------------------- MODULE Provider_proofs --------------------------
(***************************************************************************)
(* The versions, the catalog and the provider that uses them, for versions *)
(* of any length, any catalogs and stores, and any number of callers.      *)
(*                                                                         *)
(* First Older is shown to be the strict part of a total order on versions: *)
(* what resolve, accepted_sets and check_for_updates take for the newest   *)
(* does not depend on the order they look in, and two versions of which    *)
(* neither is older differ in trailing zeros only.  So each of them finds a *)
(* newest one, and they find the same: UpdatesSettle, ListedIsInstallable. *)
(* Last comes the cache: AnswerCurrent, whoever else refreshes it.         *)
(***************************************************************************)
EXTENDS Provider, FiniteSetTheorems, SequenceTheorems, WellFoundedInduction, TLAPS

-----------------------------------------------------------------------------
(* Versions *)

\* The order of parts, written out.
LEMMA PartFields ==
    ASSUME NEW a \in Part, NEW b \in Part
    PROVE  /\ PartLess(a, b) <=>
                \/ a[1] < b[1]
                \/ a[1] = b[1] /\ a[2] < b[2]
                \/ a[1] = b[1] /\ a[2] = b[2] /\ a[3] < b[3]
                \/ a[1] = b[1] /\ a[2] = b[2] /\ a[3] = b[3] /\ a[4] < b[4]
           /\ a[1] \in Nat /\ a[2] \in Nat /\ a[3] \in Nat /\ a[4] \in Nat
           /\ a = <<a[1], a[2], a[3], a[4]>>
<1>1. a[1] \in Nat /\ a[2] \in {0, 1} /\ a[3] \in Nat /\ a[4] \in Nat
  BY DEF Part
<1>2. a = <<a[1], a[2], a[3], a[4]>>
  BY DEF Part
<1>3. 1 .. 4 = {1, 2, 3, 4} /\ 1 .. 1 - 1 = {} /\ 1 .. 2 - 1 = {1}
      /\ 1 .. 3 - 1 = {1, 2} /\ 1 .. 4 - 1 = {1, 2, 3}
  OBVIOUS
<1>4. PartLess(a, b) <=>
         \/ a[1] < b[1] /\ \A e \in 1 .. 1 - 1 : a[e] = b[e]
         \/ a[2] < b[2] /\ \A e \in 1 .. 2 - 1 : a[e] = b[e]
         \/ a[3] < b[3] /\ \A e \in 1 .. 3 - 1 : a[e] = b[e]
         \/ a[4] < b[4] /\ \A e \in 1 .. 4 - 1 : a[e] = b[e]
  BY <1>3 DEF PartLess
<1>5. PartLess(a, b) <=>
         \/ a[1] < b[1]
         \/ a[1] = b[1] /\ a[2] < b[2]
         \/ a[1] = b[1] /\ a[2] = b[2] /\ a[3] < b[3]
         \/ a[1] = b[1] /\ a[2] = b[2] /\ a[3] = b[3] /\ a[4] < b[4]
  BY <1>3, <1>4
<1> QED BY <1>1, <1>2, <1>5

\* Parts are totally ordered.
LEMMA PartOrder ==
    ASSUME NEW a \in Part, NEW b \in Part
    PROVE  /\ ~PartLess(a, a)
           /\ PartLess(a, b) \/ PartLess(b, a) \/ a = b
           /\ \A c \in Part : PartLess(a, b) /\ PartLess(b, c) => PartLess(a, c)
<1>1. ~PartLess(a, a)
  BY PartFields
<1>2. PartLess(a, b) \/ PartLess(b, a) \/ a = b
  BY PartFields
<1>3. ASSUME NEW c \in Part, PartLess(a, b), PartLess(b, c) PROVE PartLess(a, c)
  BY <1>3, PartFields
<1> QED BY <1>1, <1>2, <1>3

\* What a version is padded with, and where it ends.
LEMMA Padding ==
    ASSUME NEW v \in Versions
    PROVE  /\ Len(v) \in Nat
           /\ \A i \in Nat : PartAt(v, i) \in Part
           /\ \A i \in Nat : i > Len(v) => PartAt(v, i) = Final(0)
<1>1. Final(0) \in Part
  BY DEF Final, Part
<1>2. Len(v) \in Nat /\ \A i \in 1 .. Len(v) : v[i] \in Part
  BY DEF Versions
<1> QED BY <1>1, <1>2 DEF PartAt

\* Older, with the first difference anywhere: past both ends there is none.
LEMMA OlderAnywhere ==
    ASSUME NEW v \in Versions, NEW w \in Versions
    PROVE  Older(v, w) <=> \E i \in Nat \ {0} :
              /\ PartLess(PartAt(v, i), PartAt(w, i))
              /\ \A j \in 1 .. i - 1 : PartAt(v, j) = PartAt(w, j)
<1>1. ASSUME NEW i \in Nat \ {0}, PartLess(PartAt(v, i), PartAt(w, i))
      PROVE  i \in 1 .. (Len(v) + Len(w))
  <2>1. CASE i > Len(v) /\ i > Len(w)
    BY <1>1, <2>1, Padding, PartOrder
  <2>2. CASE ~(i > Len(v) /\ i > Len(w))
    BY <2>2, Padding
  <2> QED BY <2>1, <2>2
<1>2. ASSUME NEW i \in 1 .. (Len(v) + Len(w)) PROVE i \in Nat \ {0}
  BY Padding
<1> QED BY <1>1, <1>2 DEF Older

\* No version is older than itself: an up-to-date model is not an update.
THEOREM OlderIrreflexive == \A v \in Versions : ~Older(v, v)
<1> SUFFICES ASSUME NEW v \in Versions, Older(v, v) PROVE FALSE
  OBVIOUS
<1>1. PICK i \in Nat \ {0} : PartLess(PartAt(v, i), PartAt(v, i))
  BY OlderAnywhere
<1> QED BY <1>1, Padding, PartOrder

\* A newer version of a newer version is newer: maxima do not depend on the
\* order in which copies or records are compared.
THEOREM OlderTransitive ==
    \A u, v, w \in Versions : Older(u, v) /\ Older(v, w) => Older(u, w)
<1> SUFFICES ASSUME NEW u \in Versions, NEW v \in Versions, NEW w \in Versions,
                    Older(u, v), Older(v, w)
             PROVE  Older(u, w)
  OBVIOUS
<1>1. PICK i \in Nat \ {0} : /\ PartLess(PartAt(u, i), PartAt(v, i))
                             /\ \A j \in 1 .. i - 1 : PartAt(u, j) = PartAt(v, j)
  BY OlderAnywhere
<1>2. PICK k \in Nat \ {0} : /\ PartLess(PartAt(v, k), PartAt(w, k))
                             /\ \A j \in 1 .. k - 1 : PartAt(v, j) = PartAt(w, j)
  BY OlderAnywhere
<1>3. \A j \in Nat : PartAt(u, j) \in Part /\ PartAt(v, j) \in Part /\ PartAt(w, j) \in Part
  BY Padding
<1>4. CASE i < k
  <2>1. PartAt(v, i) = PartAt(w, i) /\ \A j \in 1 .. i - 1 : PartAt(v, j) = PartAt(w, j)
    BY <1>2, <1>4
  <2> QED BY <1>1, <2>1, OlderAnywhere
<1>5. CASE k < i
  <2>1. PartAt(u, k) = PartAt(v, k) /\ \A j \in 1 .. k - 1 : PartAt(u, j) = PartAt(v, j)
    BY <1>1, <1>5
  <2> QED BY <1>2, <2>1, OlderAnywhere
<1>6. CASE i = k
  <2>1. PartLess(PartAt(u, i), PartAt(w, i))
    BY <1>1, <1>2, <1>3, <1>6, PartOrder
  <2> QED BY <1>1, <1>2, <1>6, <2>1, OlderAnywhere
<1> QED BY <1>4, <1>5, <1>6

\* Two versions of which neither is older have the same parts, but for
\* trailing zeros: "3" and "3.0" are the only kind of tie.
THEOREM OlderTotal ==
    \A v, w \in Versions :
        Older(v, w) \/ Older(w, v) \/ \A i \in Nat \ {0} : PartAt(v, i) = PartAt(w, i)
<1> SUFFICES ASSUME NEW v \in Versions, NEW w \in Versions,
                    NEW n \in Nat \ {0}, PartAt(v, n) # PartAt(w, n)
             PROVE  Older(v, w) \/ Older(w, v)
  OBVIOUS
<1> DEFINE Apart == {i \in Nat : i # 0 /\ PartAt(v, i) # PartAt(w, i)}
<1>1. PICK i \in Apart : \A j \in Apart : ~(j < i)
  <2>1. IsWellFoundedOn(OpToRel(<, Nat), Nat)
    BY NatLessThanWellFounded
  <2>2. Apart \subseteq Nat /\ Apart # {}
    OBVIOUS
  <2>3. PICK i \in Apart : \A j \in Apart : ~(<<j, i>> \in OpToRel(<, Nat))
    BY <2>1, <2>2, WFMin
  <2> QED BY <2>3 DEF OpToRel
<1>2. i \in Nat \ {0} /\ \A j \in 1 .. i - 1 : PartAt(v, j) = PartAt(w, j)
  BY <1>1
<1>3. PartLess(PartAt(v, i), PartAt(w, i)) \/ PartLess(PartAt(w, i), PartAt(v, i))
  BY <1>1, Padding, PartOrder
<1> QED BY <1>2, <1>3, OlderAnywhere

\* Versions that are no newer than one another are older than the same ones.
LEMMA OlderOrTie ==
    ASSUME NEW u \in Versions, NEW v \in Versions, NEW w \in Versions, Older(u, w)
    PROVE  Older(u, v) \/ Older(v, w)
<1> SUFFICES ASSUME ~Older(v, w) PROVE Older(u, v)
  OBVIOUS
<1>1. CASE Older(w, v)
  BY <1>1, OlderTransitive
<1>2. CASE ~Older(w, v)
  <2>1. \A i \in Nat \ {0} : PartAt(v, i) = PartAt(w, i)
    BY <1>2, OlderTotal
  <2>2. PICK i \in Nat \ {0} : /\ PartLess(PartAt(u, i), PartAt(w, i))
                               /\ \A j \in 1 .. i - 1 : PartAt(u, j) = PartAt(w, j)
    BY OlderAnywhere
  <2>3. \A j \in 1 .. i - 1 : PartAt(u, j) = PartAt(v, j)
    BY <2>1, <2>2
  <2>4. PartLess(PartAt(u, i), PartAt(v, i))
    BY <2>1, <2>2
  <2> QED BY <2>3, <2>4, OlderAnywhere
<1> QED BY <1>1, <1>2

\* A finite set has an element that no other comes after, in whatever strict
\* order After: none has a smaller set of those that come after it.
LEMMA HasLast ==
    ASSUME NEW S, IsFiniteSet(S), S # {}, NEW After \in SUBSET (S \X S),
           \A x \in S : <<x, x>> \notin After,
           \A x, y, z \in S : <<x, y>> \in After /\ <<y, z>> \in After => <<x, z>> \in After
    PROVE  \E x \in S : \A y \in S : <<x, y>> \notin After
<1> DEFINE Beyond(x) == {y \in S : <<x, y>> \in After}
           All == {Beyond(x) : x \in S}
<1>1. IsWellFoundedOn(StrictSubsetOrdering(S), SUBSET S)
  <2>1. FiniteSubsetsOf(S) = SUBSET S
    BY FS_FiniteSubsetsOfFinite, Zenon
  <2>2. IsWellFoundedOn(StrictSubsetOrdering(S), FiniteSubsetsOf(S))
    BY FS_StrictSubsetOrderingWellFounded, Zenon
  <2> QED BY <2>1, <2>2, Zenon
<1>2. All \subseteq SUBSET S /\ All # {}
  <2>1. \A x \in S : Beyond(x) \in SUBSET S
    OBVIOUS
  <2> HIDE DEF Beyond
  <2> QED BY <2>1
<1>3. PICK T \in All : \A U \in All : <<U, T>> \notin StrictSubsetOrdering(S)
  <2> HIDE DEF All
  <2> QED BY <1>1, <1>2, WFMin
<1>4. PICK x \in S : T = Beyond(x)
  OBVIOUS
<1>5. ASSUME NEW y \in S, <<x, y>> \in After PROVE FALSE
  <2>1. Beyond(y) \subseteq Beyond(x) /\ y \in Beyond(x) /\ y \notin Beyond(y)
    BY <1>5
  <2>2. <<Beyond(y), Beyond(x)>> \in StrictSubsetOrdering(S)
    BY <2>1 DEF StrictSubsetOrdering
  <2> QED BY <1>3, <1>4, <2>2
<1> QED BY <1>5
-----------------------------------------------------------------------------
(* The catalog *)

\* A record is usable or not, and the sets are made of the usable ones.
LEMMA SetsAreRecords ==
    ASSUME NEW records \in Seq(Record), NEW env, NEW x \in CompleteSets(records, env)
    PROVE  \E i \in DOMAIN records :
              /\ x = SetOf(records[i]) /\ records[i] \in Record
              /\ x \in ModelSet /\ x.version \in Versions /\ Parsed(x.version)
<1>1. PICK i \in DOMAIN records : x = SetOf(records[i]) /\ Usable(records[i], env)
  BY DEF CompleteSets
<1>2. records[i] \in Record
  OBVIOUS
<1> QED BY <1>1, <1>2 DEF SetOf, Usable, Record, ModelSet

LEMMA SetsAreFinite ==
    ASSUME NEW records \in Seq(Record), NEW env
    PROVE  IsFiniteSet(CompleteSets(records, env))
<1> DEFINE f == [i \in 1 .. Len(records) |-> SetOf(records[i])]
           All == {f[i] : i \in 1 .. Len(records)}
<1>1. IsFiniteSet(1 .. Len(records))
  BY FS_Interval
<1>2. f \in Surjection(1 .. Len(records), All)
  BY DEF Surjection
<1>3. IsFiniteSet(All)
  <2> HIDE DEF f, All
  <2> QED BY <1>1, <1>2, FS_Surjection
<1>4. CompleteSets(records, env) \subseteq All
  BY DEF CompleteSets
<1> QED BY <1>3, <1>4, FS_Subset

\* A set that is complete stays complete when records are added.
LEMMA SetsGrow ==
    ASSUME NEW records \in Seq(Record), NEW env,
           NEW n \in 0 .. Len(records), NEW m \in 0 .. n
    PROVE  CompleteSets(SubSeq(records, 1, m), env)
               \subseteq CompleteSets(SubSeq(records, 1, n), env)
<1> DEFINE a == SubSeq(records, 1, m)
           b == SubSeq(records, 1, n)
           usable(r) == {i \in DOMAIN r : Usable(r[i], env)}
           types(r, s) == {r[i].type : i \in {j \in usable(r) : SetOf(r[j]) = s}}
<1>1. \A i \in DOMAIN a : i \in DOMAIN b /\ a[i] = b[i]
  OBVIOUS
<1>2. \A i \in usable(a) : i \in usable(b) /\ a[i] = b[i]
  <2> HIDE DEF a, b
  <2> QED BY <1>1
<1>3. ASSUME NEW s PROVE Complete(types(a, s)) => Complete(types(b, s))
  <2>1. types(a, s) \subseteq types(b, s)
    <3> HIDE DEF a, b, usable
    <3> QED BY <1>2
  <2> HIDE DEF types
  <2> QED BY <2>1 DEF Complete
<1>4. CompleteSets(a, env) = {s \in {SetOf(a[i]) : i \in usable(a)} : Complete(types(a, s))}
  BY DEF CompleteSets
<1>5. CompleteSets(b, env) = {s \in {SetOf(b[i]) : i \in usable(b)} : Complete(types(b, s))}
  BY DEF CompleteSets
<1> HIDE DEF a, b, usable, types
<1>6. CompleteSets(a, env) \subseteq CompleteSets(b, env)
  BY <1>2, <1>3, <1>4, <1>5
<1> QED BY <1>6 DEF a, b

\* accepted_sets loses no pair or variant: what replaces a set is no older.
LEMMA NewestIsAccepted ==
    ASSUME NEW records \in Seq(Record), NEW env, NEW s \in CompleteSets(records, env)
    PROVE  \E t \in AcceptedSets(records, env) :
              t.pair = s.pair /\ t.variant = s.variant /\ ~Older(t.version, s.version)
<1> DEFINE Rivals == {x \in CompleteSets(records, env) : x.pair = s.pair /\ x.variant = s.variant}
           After == {e \in Rivals \X Rivals : ~Kept(e[1], e[2])}
<1>1. \A x \in Rivals : x.version \in Versions /\ Len(x.version) \in Nat
  BY SetsAreRecords, Padding
<1>2. IsFiniteSet(Rivals) /\ Rivals # {} /\ After \in SUBSET (Rivals \X Rivals)
  BY SetsAreFinite, FS_Subset
<1>3. \A x \in Rivals : <<x, x>> \notin After
  BY <1>1, OlderIrreflexive DEF Kept
<1>4. ASSUME NEW x \in Rivals, NEW y \in Rivals, NEW z \in Rivals, ~Kept(x, y), ~Kept(y, z)
      PROVE  ~Kept(x, z)
  <2>1. x.version \in Versions /\ y.version \in Versions /\ z.version \in Versions
    BY <1>1
  <2>2. ~Older(y.version, x.version) /\ ~Older(z.version, y.version)
    BY <1>4 DEF Kept
  <2>3. ~Older(z.version, x.version)
    BY <2>1, <2>2, OlderOrTie
  <2>4. CASE Older(x.version, z.version)
    BY <2>3, <2>4 DEF Kept
  <2>5. CASE ~Older(x.version, z.version)
    <3>1. ~Older(x.version, y.version)
      BY <2>1, <2>2, <2>5, OlderOrTie
    <3>2. ~Older(y.version, z.version)
      BY <2>1, <2>2, <2>5, OlderOrTie
    <3> QED BY <1>1, <1>4, <2>2, <2>3, <3>1, <3>2 DEF Kept
  <2> QED BY <2>4, <2>5
<1>5. PICK t \in Rivals : \A x \in Rivals : <<t, x>> \notin After
  <2>1. \A x, y, z \in Rivals : <<x, y>> \in After /\ <<y, z>> \in After => <<x, z>> \in After
    BY <1>4
  <2> HIDE DEF Rivals, After
  <2> QED BY <1>2, <1>3, <2>1, HasLast
<1>6. \A x \in Rivals : Kept(t, x)
  BY <1>5
<1>7. t \in AcceptedSets(records, env)
  BY <1>6 DEF AcceptedSets
<1>8. ~Older(t.version, s.version)
  BY <1>1, <1>6, OlderTransitive, OlderIrreflexive DEF Kept
<1> QED BY <1>7, <1>8

\* accepted_sets offers one set of a pair and variant: of two spellings of one
\* version, which Older does not tell apart, the shorter one is left.
THEOREM OneSetPerVariant ==
    ASSUME NEW records \in Seq(Record), NEW env,
           NEW s \in AcceptedSets(records, env), NEW t \in AcceptedSets(records, env),
           s.pair = t.pair, s.variant = t.variant
    PROVE  s = t
<1>1. s \in CompleteSets(records, env) /\ t \in CompleteSets(records, env)
      /\ Kept(s, t) /\ Kept(t, s)
  BY DEF AcceptedSets
<1>2. s \in ModelSet /\ t \in ModelSet /\ s.version \in Versions /\ t.version \in Versions
      /\ Len(s.version) \in Nat /\ Len(t.version) \in Nat
  BY <1>1, SetsAreRecords, Padding
<1>3. ~Older(s.version, t.version) /\ ~Older(t.version, s.version)
      /\ Len(s.version) = Len(t.version)
  BY <1>1, <1>2, OlderTransitive, OlderIrreflexive DEF Kept
<1>4. \A i \in Nat \ {0} : PartAt(s.version, i) = PartAt(t.version, i)
  BY <1>2, <1>3, OlderTotal
<1>5. \A i \in 1 .. Len(s.version) : s.version[i] = t.version[i]
  BY <1>2, <1>3, <1>4 DEF PartAt
<1>6. s.version = t.version
  BY <1>2, <1>3, <1>5 DEF Versions
<1> QED BY <1>2, <1>6 DEF ModelSet

\* installed_by_pair has a first, the newest, for every pair that is installed.
LEMMA BestIsNewest ==
    ASSUME NEW S \in SUBSET Model, IsFiniteSet(S), NEW pair, OfPair(S, pair) # {}
    PROVE  /\ Best(S, pair) \in OfPair(S, pair)
           /\ \A n \in OfPair(S, pair) : ~Older(Best(S, pair).version, n.version)
<1> DEFINE Copies == OfPair(S, pair)
           After == {e \in Copies \X Copies : Older(e[1].version, e[2].version)}
<1>1. \A x \in Copies : x.version \in Versions
  BY DEF OfPair, Model
<1>2. IsFiniteSet(Copies) /\ After \in SUBSET (Copies \X Copies)
  BY FS_Subset DEF OfPair
<1>3. \A x \in Copies : <<x, x>> \notin After
  BY <1>1, OlderIrreflexive
<1>4. \A x, y, z \in Copies : <<x, y>> \in After /\ <<y, z>> \in After => <<x, z>> \in After
  BY <1>1, OlderTransitive
<1>5. \E x \in Copies : \A y \in Copies : <<x, y>> \notin After
  <2> HIDE DEF Copies, After
  <2> QED BY <1>2, <1>3, <1>4, HasLast DEF Copies
<1>6. \E x \in Copies : \A y \in Copies : ~Older(x.version, y.version)
  BY <1>5
<1> QED BY <1>6 DEF Best
-----------------------------------------------------------------------------
(* The provider's types *)

USE DEF server, cache, call, Last

\* Nothing in the cache is newer than the server; what a call fetches and has
\* in hand are documents that exist, and what it installs is a set of the catalog.
InHand ==
    /\ IsFiniteSet(store)
    /\ \A d \in Documents : body[d] <= published[d] /\ etag[d] <= published[d]
    /\ \A p \in Callers :
          /\ fetched[p] <= published[document[p]] /\ got[p] <= published[document[p]]
          /\ cached[p].body <= published[document[p]] /\ catalog[p] <= published["records"]
          /\ pc[p] # "idle" => task[p] \in Tasks
          /\ pc[p] = "sent" /\ cached[p].body = 0 => cached[p].etag = 0
          /\ pc[p] \in {"fetched", "fill", "filled", "tag", "returned"} => got[p] # 0
          /\ pc[p] = "install" => /\ task[p].for = "install"
                                  /\ chosen[p] \in ModelSet /\ Parsed(chosen[p].version)

Inv == TypeOK /\ InHand

\* Every document has a last version.
LEMMA LastVersions ==
    ASSUME script \in Scripts, NEW d \in Documents
    PROVE  Last(d) \in Nat \ {0}
<1>1. script \in Seq(Record) /\ script # <<>> /\ Latest \in Nat \ {0}
  BY ProviderAssumption DEF ProviderAssumption
<1>2. Len(script) \in Nat \ {0}
  BY <1>1, EmptySeq
<1> QED BY <1>1, <1>2 DEF Last

LEMMA InitInv == Init => Inv
<1> SUFFICES ASSUME Init PROVE Inv
  OBVIOUS
<1> USE ProviderAssumption DEF ProviderAssumption
<1>0. \A d \in Documents : Last(d) \in Nat \ {0}
  BY LastVersions DEF Init
<1>1. TypeOK
  <2>1. published \in [Documents -> Nat \ {0}] /\ \A d \in Documents : published[d] <= Last(d)
    BY <1>0 DEF Init
  <2>2. body \in [Documents -> Files] /\ etag \in [Documents -> Files]
    BY DEF Init, Files
  <2>3. /\ document \in [Callers -> Documents] /\ catalog \in [Callers -> Nat]
        /\ cached \in [Callers -> [body : Files, etag : Files]]
        /\ fetched \in [Callers -> Nat] /\ got \in [Callers -> Files]
        /\ pc \in [Callers -> Steps] /\ task \in [Callers -> Tasks \cup {NoTask}]
    BY DEF Init, Files, Steps, Documents
  <2>4. \A p \in Callers : document[p] = "records" /\ pc[p] = "idle"
    BY DEF Init
  <2> QED BY <2>1, <2>2, <2>3, <2>4 DEF Init, TypeOK
<1>2. InHand
  BY DEF Init, InHand, Documents
<1> QED BY <1>1, <1>2 DEF Inv

\* The published catalog is a beginning of a script of records.
LEMMA RecordsOf ==
    ASSUME TypeOK, NEW n \in 0 .. published["records"]
    PROVE  /\ script \in Seq(Record) /\ n \in 0 .. Len(script)
           /\ Records(n) \in Seq(Record) /\ DOMAIN Records(n) = 1 .. n
           /\ \A i \in 1 .. n : Records(n)[i] = script[i]
<1>1. script \in Seq(Record)
  BY ProviderAssumption DEF TypeOK, ProviderAssumption
<1>2. published["records"] \in Nat /\ published["records"] <= Len(script)
  BY DEF TypeOK, Documents, Last
<1>3. n \in 0 .. Len(script)
  BY <1>1, <1>2
<1> QED BY <1>1, <1>3 DEF Records

\* A call that is over leaves nothing behind.
LEMMA EndTypes ==
    ASSUME Inv, NEW p \in Callers, End(p), UNCHANGED <<server, prerelease, cache>>,
           store' \subseteq Model, IsFiniteSet(store'), \A m \in store' : Parsed(m.version)
    PROVE  Inv'
<1> USE DEF Inv
<1>1. TypeOK'
  <2>1. [body |-> 0, etag |-> 0] \in [body : Files, etag : Files] /\ 0 \in Files
    BY DEF Files
  <2>2. "records" \in Documents /\ "idle" \in Steps /\ "idle" # "install"
    BY DEF Documents, Steps
  <2> QED BY <2>1, <2>2 DEF End, TypeOK
<1>2. InHand'
  BY DEF End, InHand, TypeOK, Documents
<1> QED BY <1>1, <1>2

LEMMA CachedGetTypes ==
    ASSUME Inv, NEW p \in Callers, CachedGet(p)
    PROVE  Inv'
<1> USE DEF Inv, Goto
<1>0. /\ document[p] \in Documents /\ published[document[p]] \in Nat \ {0}
      /\ body[document[p]] \in Files /\ etag[document[p]] \in Files
      /\ body[document[p]] <= published[document[p]]
      /\ cached[p].body <= published[document[p]]
      /\ cached[p].body \in Files /\ cached[p].etag \in Files
      /\ cached[p] \in [body : Files, etag : Files]
      /\ fetched[p] \in Nat /\ fetched[p] <= published[document[p]]
      /\ 0 \in Files /\ Nat \subseteq Files
  BY DEF TypeOK, InHand, Files
<1>1. CASE ReadBody(p)
  <2>1. /\ cached' \in [Callers -> [body : Files, etag : Files]]
        /\ doubtful' \subseteq Documents
    BY <1>0, <1>1 DEF ReadBody, DoubtIf, TypeOK
  <2>2. TypeOK'
    BY <1>1, <2>1 DEF ReadBody, TypeOK, Steps
  <2>3. InHand'
    BY <1>0, <1>1 DEF ReadBody, TypeOK, InHand
  <2> QED BY <2>2, <2>3
<1>2. CASE ReadEtag(p)
  <2>1. cached' \in [Callers -> [body : Files, etag : Files]]
    BY <1>0, <1>2 DEF ReadEtag, TypeOK
  <2>2. TypeOK'
    BY <1>2, <2>1 DEF ReadEtag, TypeOK, Steps
  <2>3. InHand'
    BY <1>0, <1>2 DEF ReadEtag, TypeOK, InHand
  <2> QED BY <2>2, <2>3
<1>3. CASE NotModified(p) \/ Fetched(p) \/ Stale(p)
  <2>1. PICK g \in Files : got' = [got EXCEPT ![p] = g] /\ g # 0 /\ g <= published[document[p]]
    BY <1>0, <1>3 DEF NotModified, Fetched, Stale, Return, InHand
  <2>2. fetched' = fetched \/ fetched' = [fetched EXCEPT ![p] = published[document[p]]]
    BY <1>3 DEF NotModified, Fetched, Stale
  <2>3. \E to \in {"returned", "fetched"} : pc' = [pc EXCEPT ![p] = to]
    BY <1>3 DEF NotModified, Fetched, Stale
  <2>4. /\ pc[p] = "sent"
        /\ UNCHANGED <<server, prerelease, body, etag, store, task, document, cached, catalog,
                       chosen>>
        /\ doubtful' \subseteq Documents
    BY <1>0, <1>3 DEF NotModified, Fetched, Stale, Return, DoubtIf, TypeOK
  <2>5. TypeOK'
    BY <1>0, <2>1, <2>2, <2>3, <2>4 DEF TypeOK, Steps
  <2>6. InHand'
    BY <1>0, <2>1, <2>2, <2>3, <2>4 DEF TypeOK, InHand
  <2> QED BY <2>5, <2>6
<1>4. CASE Unreachable(p)
  BY <1>4, EndTypes DEF Unreachable, TypeOK, InHand
<1>5. CASE \/ TruncateBody(p) \/ FillBody(p) \/ BodyFails(p)
           \/ TruncateEtag(p) \/ FillEtag(p) \/ EtagFails(p)
  <2>1. /\ \/ body' = body
           \/ \E d \in {Torn, fetched[p]} : body' = [body EXCEPT ![document[p]] = d]
        /\ \/ etag' = etag
           \/ \E d \in {Torn, fetched[p]} : etag' = [etag EXCEPT ![document[p]] = d]
    BY <1>5 DEF TruncateBody, FillBody, BodyFails, TruncateEtag, FillEtag, EtagFails, Write
  <2>2. /\ pc[p] \in {"fetched", "fill", "filled", "tag"}
        /\ \E to \in {"fill", "filled", "tag", "returned"} : pc' = [pc EXCEPT ![p] = to]
        /\ UNCHANGED <<server, prerelease, store, call>>
    BY <1>5 DEF TruncateBody, FillBody, BodyFails, TruncateEtag, FillEtag, EtagFails
  <2>3. doubtful' \subseteq Documents
    BY <1>0, <1>5 DEF TruncateBody, FillBody, BodyFails, TruncateEtag, FillEtag, EtagFails, DoubtIf,
       TypeOK
  <2>4. \A d \in {Torn, fetched[p]} : d \in Files /\ d <= published[document[p]]
    BY <1>0 DEF Files, Torn
  <2>5. /\ body' \in [Documents -> Files] /\ etag' \in [Documents -> Files]
        /\ \A d \in Documents : body'[d] <= published[d] /\ etag'[d] <= published[d]
    <3>1. ASSUME NEW file, NEW file1, file \in [Documents -> Files],
                 \A d \in Documents : file[d] <= published[d],
                 \/ file1 = file
                 \/ \E d \in {Torn, fetched[p]} : file1 = [file EXCEPT ![document[p]] = d]
          PROVE  file1 \in [Documents -> Files] /\ \A d \in Documents : file1[d] <= published[d]
      BY <1>0, <2>4, <3>1
    <3> QED BY <2>1, <3>1 DEF TypeOK, InHand
  <2>6. TypeOK'
    BY <2>2, <2>3, <2>5 DEF TypeOK, Steps
  <2>7. InHand'
    BY <2>2, <2>5 DEF TypeOK, InHand
  <2> QED BY <2>6, <2>7
<1> QED BY <1>1, <1>2, <1>3, <1>4, <1>5 DEF CachedGet
LEMMA ProvideTypes ==
    ASSUME Inv, NEW p \in Callers, Provide(p)
    PROVE  Inv'
<1> USE DEF Inv, Goto
<1>1. CASE ParseRecords(p)
  <2>1. /\ got[p] \in Nat \ {0} /\ got[p] <= published["records"]
        /\ pc[p] = "returned" /\ [body |-> 0, etag |-> 0] \in [body : Files, etag : Files]
        /\ 0 \in Files /\ "server-info" \in Documents
    BY <1>1 DEF ParseRecords, TypeOK, InHand, Files, Documents
  <2>2. TypeOK'
    BY <1>1, <2>1 DEF ParseRecords, Fetch, TypeOK, Steps
  <2>3. InHand'
    BY <1>1, <2>1 DEF ParseRecords, Fetch, TypeOK, InHand
  <2> QED BY <2>2, <2>3
<1>2. CASE BadResponse(p) \/ NoSuchPair(p) \/ ListSets(p) \/ InstallFails(p) \/ AnswerCheck(p)
  <2>1. End(p) /\ UNCHANGED <<server, prerelease, cache, store>>
    BY <1>2 DEF BadResponse, NoSuchPair, ListSets, InstallFails, AnswerCheck
  <2> QED BY <2>1, EndTypes DEF TypeOK, InHand
<1>3. CASE ChooseSet(p)
  <2>1. /\ pc[p] = "returned" /\ document[p] # "records" /\ task[p].for = "install"
        /\ pc' = [pc EXCEPT ![p] = "install"]
        /\ UNCHANGED <<server, prerelease, cache, store, task, document, cached, fetched, got,
                       catalog>>
    BY <1>3 DEF ChooseSet, Parsing
  <2>2. PICK s \in Offers(Sets(catalog[p]), task[p].pair) : chosen' = [chosen EXCEPT ![p] = s]
    BY <1>3 DEF ChooseSet
  <2>3. s.pair = task[p].pair /\ s \in CompleteSets(Records(catalog[p]), FilterEnv(prerelease))
    BY <2>2 DEF Offers, OfPair, Sets, AcceptedSets
  <2>4. catalog[p] \in 0 .. published["records"]
    BY DEF TypeOK, InHand, Documents
  <2>5. s \in ModelSet /\ Parsed(s.version)
    BY <2>3, <2>4, RecordsOf, SetsAreRecords
  <2>6. TypeOK'
    BY <2>1, <2>2, <2>3, <2>5 DEF TypeOK, Steps
  <2>7. InHand'
    BY <2>1, <2>2, <2>3, <2>5 DEF TypeOK, InHand
  <2> QED BY <2>6, <2>7
<1>4. CASE CompareWithStore(p)
  <2>1. /\ pc[p] = "returned" /\ document[p] # "records"
        /\ [body |-> 0, etag |-> 0] \in [body : Files, etag : Files]
        /\ 0 \in Files /\ "models" \in Documents
    BY <1>4 DEF CompareWithStore, Parsing, Files, Documents
  <2>2. TypeOK'
    BY <1>4, <2>1 DEF CompareWithStore, Fetch, TypeOK, Steps
  <2>3. InHand'
    BY <1>4, <2>1 DEF CompareWithStore, Fetch, TypeOK, InHand
  <2> QED BY <2>2, <2>3
<1>5. CASE Install(p)
  <2> DEFINE new == [pair |-> chosen[p].pair, version |-> chosen[p].version, origin |-> "user"]
  <2>1. /\ pc[p] = "install" /\ End(p) /\ UNCHANGED <<server, prerelease, cache>>
        /\ store' = store \cup {new}
    BY <1>5 DEF Install
  <2>2. task[p] \in Tasks /\ task[p].for = "install" /\ chosen[p].pair = task[p].pair
    BY <2>1 DEF InHand, TypeOK
  <2>3. chosen[p].pair \in Pairs
    BY <2>2 DEF Tasks
  <2>4. chosen[p].version \in Versions /\ Parsed(chosen[p].version)
    BY <2>1 DEF InHand, TypeOK, ModelSet
  <2>5. new \in Model /\ Parsed(new.version)
    BY <2>3, <2>4 DEF Model
  <2>6. IsFiniteSet(store')
    BY <2>1, FS_AddElement DEF InHand
  <2>7. store' \subseteq Model /\ \A m \in store' : Parsed(m.version)
    BY <2>1, <2>5 DEF TypeOK
  <2> QED BY <2>1, <2>6, <2>7, EndTypes
<1> QED BY <1>1, <1>2, <1>3, <1>4, <1>5 DEF Provide

LEMMA AroundTypes ==
    ASSUME Inv,
           \/ \E p \in Callers : (\E t \in Tasks : Begin(p, t)) \/ Die(p)
           \/ (\E d \in Documents : Publish(d)) \/ Configure
           \/ \E pair \in Pairs : RemovePair(pair)
    PROVE  Inv'
<1> USE DEF Inv, Goto
<1>1. ASSUME NEW p \in Callers, NEW t \in Tasks, Begin(p, t)
      PROVE  Inv'
  <2>1. TypeOK'
    BY <1>1 DEF Begin, TypeOK, Steps
  <2>2. InHand'
    BY <1>1 DEF Begin, TypeOK, InHand
  <2> QED BY <2>1, <2>2
<1>2. ASSUME NEW p \in Callers, Die(p)
      PROVE  Inv'
  BY <1>2, EndTypes DEF Die, TypeOK, InHand
<1>3. ASSUME NEW d \in Documents, Publish(d)
      PROVE  Inv'
  <2>1. /\ \A e \in Documents : /\ published[e] <= published'[e] /\ published'[e] <= Last(e)'
                               /\ published'[e] \in Nat \ {0} /\ published[e] \in Nat
        /\ published' \in [Documents -> Nat \ {0}]
        /\ UNCHANGED <<script, prerelease, body, etag, store, pc, call>>
        /\ doubtful' = doubtful \ {d}
    <3>1. \A e \in Documents :
            published[e] \in Nat \ {0} /\ Last(e) \in Nat /\ published[e] <= Last(e)
      BY LastVersions DEF TypeOK
    <3>2. published' = [published EXCEPT ![d] = published[d] + 1] /\ published[d] < Last(d)
      BY <1>3 DEF Publish
    <3>3. published' \in [Documents -> Nat \ {0}]
      BY <3>1, <3>2 DEF TypeOK
    <3>4. \A e \in Documents : published'[e] = IF e = d THEN published[e] + 1 ELSE published[e]
      BY <3>2 DEF TypeOK
    <3>5. /\ UNCHANGED <<script, prerelease, body, etag, store, pc, call>>
          /\ doubtful' = doubtful \ {d} /\ \A e \in Documents : Last(e)' = Last(e)
      BY <1>3 DEF Publish, Last
    <3> QED BY <3>1, <3>2, <3>3, <3>4, <3>5
  <2>2. TypeOK'
    BY <2>1 DEF TypeOK
  <2>3. \A e \in Documents : body[e] \in Int /\ etag[e] \in Int
    BY DEF TypeOK, Files, Torn
  <2>4. \A p \in Callers :
            /\ document[p] \in Documents /\ fetched[p] \in Nat /\ got[p] \in Int
            /\ cached[p].body \in Int /\ catalog[p] \in Nat /\ "records" \in Documents
    BY DEF TypeOK, Files, Torn, Documents
  <2>5. \A e \in Documents : body'[e] <= published'[e] /\ etag'[e] <= published'[e]
    BY <2>1, <2>3 DEF InHand
  <2>6. \A p \in Callers :
            /\ fetched[p] <= published'[document[p]] /\ got[p] <= published'[document[p]]
            /\ cached[p].body <= published'[document[p]]
            /\ catalog[p] <= published'["records"]
    BY <2>1, <2>4 DEF InHand
  <2>7. InHand'
    BY <2>1, <2>5, <2>6 DEF InHand
  <2> QED BY <2>2, <2>7
<1>4. CASE Configure
  BY <1>4 DEF Configure, TypeOK, InHand
<1>5. ASSUME NEW pair \in Pairs, RemovePair(pair)
      PROVE  Inv'
  <2>1. store' \subseteq store /\ UNCHANGED <<server, prerelease, cache, pc, call>>
    BY <1>5 DEF RemovePair
  <2>2. IsFiniteSet(store')
    BY <2>1, FS_Subset DEF InHand
  <2> QED BY <2>1, <2>2 DEF TypeOK, InHand
<1> QED BY <1>1, <1>2, <1>3, <1>4, <1>5

LEMMA NextInv == Inv /\ [Next]_vars => Inv'
<1> SUFFICES ASSUME Inv, [Next]_vars PROVE Inv'
  OBVIOUS
<1>1. CASE UNCHANGED vars
  BY <1>1 DEF vars, Inv, TypeOK, InHand
<1>2. CASE Next
  BY <1>2, CachedGetTypes, ProvideTypes, AroundTypes DEF Next
<1> QED BY <1>1, <1>2

LEMMA InvAlways == Spec => []Inv
  BY InitInv, NextInv, PTL DEF Spec

\* Every variable of the provider has its type; what is fetched exists, and what
\* is installed has a version and is what was asked for.
THEOREM TypeCorrect == Spec => []TypeOK
  BY InvAlways, PTL DEF Inv
-----------------------------------------------------------------------------
(* The calls agree about what is newest *)

\* A set of the n-th catalog comes from one of its records; those of a pair
\* without variants have none.
LEMMA SetsOfCatalog ==
    ASSUME TypeOK, NEW n \in 0 .. published["records"], NEW x \in Sets(n)
    PROVE  /\ x \in CompleteSets(Records(n), FilterEnv(prerelease)) /\ x.version \in Versions
           /\ \A m \in n .. published["records"] : Plain(m, x.pair) => x.variant = ""
<1>1. /\ x \in CompleteSets(Records(n), FilterEnv(prerelease))
      /\ \A t \in CompleteSets(Records(n), FilterEnv(prerelease)) :
            t.pair = x.pair /\ t.variant = x.variant => Kept(x, t)
  BY DEF Sets, AcceptedSets
<1>2. PICK i \in 1 .. n : x = SetOf(script[i]) /\ x.version \in Versions
  BY <1>1, RecordsOf, SetsAreRecords
<1>3. x.pair = script[i].pair /\ x.variant = script[i].variant
  BY <1>2 DEF SetOf
<1>4. ASSUME NEW m \in n .. published["records"], Plain(m, x.pair)
      PROVE  x.variant = ""
  <2>1. i \in 1 .. m
    BY DEF TypeOK, Documents
  <2> QED BY <1>3, <1>4, <2>1 DEF Plain
<1> QED BY <1>1, <1>2, <1>4

\* An announced update can be had, and having it ends the announcements: the
\* newest installed model is then no older than the offer, and no accepted set
\* of the pair is newer than that.
LEMMA UpdatesSettleAlways == Inv => UpdatesSettle
<1> SUFFICES ASSUME Inv, NEW pair \in Pairs, Plain(published["records"], pair)
             PROVE  LET sets    == Sets(published["records"])
                        With(s) == store \cup {[pair |-> s.pair, version |-> s.version, origin |-> "user"]}
                    IN  /\ OfPair(Updates(sets, store), pair) \subseteq Offers(sets, pair)
                        /\ \A s \in Offers(sets, pair) : OfPair(Updates(sets, With(s)), pair) = {}
  BY DEF UpdatesSettle
<1> DEFINE n    == published["records"]
           sets == Sets(n)
           new(s) == [pair |-> s.pair, version |-> s.version, origin |-> "user"]
<1>1. n \in 0 .. published["records"] /\ n \in n .. published["records"]
  BY DEF Inv, TypeOK, Documents
<1>2. \A x \in OfPair(sets, pair) : x.variant = "" /\ x.version \in Versions
  BY <1>1, SetsOfCatalog DEF Inv, OfPair
<1>3. OfPair(Updates(sets, store), pair) \subseteq Offers(sets, pair)
  BY <1>2 DEF OfPair, Updates, Offers
<1>4. ASSUME NEW s \in Offers(sets, pair), NEW u \in OfPair(Updates(sets, store \cup {new(s)}), pair)
      PROVE  FALSE
  <2> DEFINE S == store \cup {new(s)}
             best == Best(S, pair)
  <2>1. /\ s \in sets /\ s.pair = pair /\ s.variant = "" /\ s.version \in Versions
        /\ u \in sets /\ u.pair = pair /\ u.variant = "" /\ u.version \in Versions
        /\ Older(best.version, u.version)
    BY <1>2, <1>4 DEF Offers, OfPair, Updates
  <2>2. new(s) \in Model /\ S \in SUBSET Model /\ IsFiniteSet(S)
    <3>1. new(s) \in Model
      BY <2>1 DEF Model
    <3>2. store \subseteq Model /\ IsFiniteSet(store)
      BY DEF Inv, TypeOK, InHand
    <3>3. IsFiniteSet(S)
      BY <3>2, FS_AddElement
    <3> QED BY <3>1, <3>2, <3>3
  <2>3. new(s) \in OfPair(S, pair)
    BY <2>1 DEF OfPair
  <2>4. best \in OfPair(S, pair) /\ ~Older(best.version, s.version)
    <3>1. best \in OfPair(S, pair) /\ \A m \in OfPair(S, pair) : ~Older(best.version, m.version)
      <4> HIDE DEF S
      <4> QED BY <2>2, <2>3, BestIsNewest
    <3> QED BY <2>3, <3>1
  <2>5. best.version \in Versions
    BY <2>2, <2>4 DEF OfPair, Model
  <2>6. ~Older(s.version, u.version)
    <3>1. Kept(s, u)
      BY <2>1 DEF Sets, AcceptedSets
    <3> QED BY <2>1, <3>1, OlderTransitive, OlderIrreflexive DEF Kept
  <2> HIDE DEF best
  <2> QED BY <2>1, <2>4, <2>5, <2>6, OlderOrTie
<1> QED BY <1>3, <1>4 DEF OfPair

\* What the cached catalog lists is a set of the server's too, and either
\* accepted there or replaced by one that is no older.
LEMMA ListedIsInstallableAlways == Inv => ListedIsInstallable
<1> SUFFICES ASSUME Inv, body["records"] > 0, NEW pair \in Pairs, Plain(published["records"], pair),
                    NEW s \in Available(Sets(body["records"]), pair)
             PROVE  \E t \in Offers(Sets(published["records"]), pair) : ~Older(t.version, s.version)
  BY DEF ListedIsInstallable
<1> DEFINE n == published["records"]
           m == body["records"]
           env == FilterEnv(prerelease)
<1>1. m \in 0 .. n /\ n \in 0 .. published["records"] /\ n \in m .. published["records"]
  BY DEF Inv, TypeOK, InHand, Documents, Files, Torn
<1>2. s \in Sets(m) /\ s.pair = pair
  BY DEF Available, Offers, OfPair
<1>3. s \in CompleteSets(Records(m), env) /\ s.variant = ""
  BY <1>1, <1>2, SetsOfCatalog DEF Inv
<1>4. s \in CompleteSets(Records(n), env)
  BY <1>1, <1>3, RecordsOf, SetsGrow DEF Inv, Records
<1>5. PICK t \in AcceptedSets(Records(n), env) :
          t.pair = s.pair /\ t.variant = s.variant /\ ~Older(t.version, s.version)
  BY <1>1, <1>4, RecordsOf, NewestIsAccepted DEF Inv
<1> QED BY <1>2, <1>3, <1>5 DEF Sets, Offers, OfPair

\* check_for_updates announces what install_pair installs, and no longer after
\* it has, for any store, system packages and catalog.
THEOREM UpdatesCanBeHad == Spec => []UpdatesSettle
  BY InvAlways, UpdatesSettleAlways, PTL

\* list_language_pairs, from a catalog of any age, promises no more than
\* install_pair finds at the server.
THEOREM ListingIsHonest == Spec => []ListedIsInstallable
  BY InvAlways, ListedIsInstallableAlways, PTL
-----------------------------------------------------------------------------
(* The cache *)

Away(p) == pc[p] \in {"idle", "body", "install"}

\* The server's present etag stands beside its body, but for doubt.
EtagFits ==
    \A d \in Documents \ doubtful : etag[d] = published[d] => body[d] = published[d]

\* Whatever is in hand beside a write of the present version casts doubt on it.
Overlaps ==
    \A p, q \in Callers :
        p # q /\ document[p] = document[q] /\ Writing(p) /\ IsPresent(p) /\ ~Away(q)
            => document[p] \in doubtful

\* What a call has read fits, too, whether the cache is still the same or not.
Reading(p) ==
    LET d == document[p]
        n == published[d]
    IN  /\ pc[p] \in {"idle", "body", "etag", "sent"} => fetched[p] = 0
        /\ pc[p] = "sent" => cached[p].etag <= n
        /\ pc[p] \in {"etag", "sent"} /\ d \notin doubtful /\ etag[d] = n
             => cached[p].body = n /\ (pc[p] = "sent" => cached[p].etag = n)
        /\ pc[p] = "sent" /\ d \notin doubtful /\ cached[p].etag = n => cached[p].body = n

\* Until the body is written the etag is an older one; then it may follow.
Filling(p) ==
    LET d == document[p]
        n == published[d]
    IN  /\ Writing(p) => fetched[p] > 0 /\ got[p] = fetched[p]
        /\ pc[p] \in {"fetched", "fill"} /\ etag[d] = n => d \in doubtful
        /\ pc[p] \in {"filled", "tag"} /\ IsPresent(p) => body[d] = n \/ d \in doubtful

Current(p) ==
    pc[p] = "returned" /\ fetched[p] # 0 /\ IsPresent(p)
        => got[p] = fetched[p] \/ document[p] \in doubtful

CallInv(p) == Reading(p) /\ Filling(p) /\ Current(p)

CacheInv == Inv /\ EtagFits /\ Overlaps /\ \A p \in Callers : CallInv(p)

LEMMA CacheInit == Init => CacheInv
<1> SUFFICES ASSUME Init PROVE CacheInv
  OBVIOUS
<1>1. Inv
  BY InitInv
<1> QED
  BY <1>1 DEF CacheInv, EtagFits, Overlaps, CallInv, Reading, Filling, Current, Writing, Init

\* The numbers that the steps compare.
LEMMA Numbers ==
    ASSUME Inv
    PROVE  /\ \A d \in Documents : /\ published[d] \in Nat \ {0} /\ body[d] \in Int
                                   /\ etag[d] \in Int /\ etag[d] <= published[d]
           /\ \A p \in Callers : /\ document[p] \in Documents /\ fetched[p] \in Nat
                                 /\ fetched[p] <= published[document[p]]
                                 /\ cached[p].body \in Int /\ cached[p].etag \in Int
  BY DEF Inv, TypeOK, InHand, Files, Torn

\* A step that leaves the cache alone, of one caller, keeps what concerns the
\* others, and EtagFits.
LEMMA OthersKeep ==
    ASSUME CacheInv, NEW p \in Callers, UNCHANGED <<published, body, etag>>,
           doubtful \subseteq doubtful',
           \A q \in Callers \ {p} :
              /\ pc'[q] = pc[q] /\ document'[q] = document[q] /\ cached'[q] = cached[q]
              /\ fetched'[q] = fetched[q] /\ got'[q] = got[q]
    PROVE  EtagFits' /\ \A q \in Callers \ {p} : CallInv(q)'
<1>1. EtagFits'
  BY DEF CacheInv, EtagFits
<1>2. ASSUME NEW q \in Callers \ {p} PROVE CallInv(q)'
  BY <1>2 DEF CacheInv, CallInv, Reading, Filling, Current, Writing, IsPresent
<1> QED BY <1>1, <1>2

\* The steps of cached_get that read, and those that end it.
LEMMA ReadsKeep ==
    ASSUME CacheInv, Inv', NEW p \in Callers,
           \/ ReadBody(p) \/ ReadEtag(p) \/ NotModified(p) \/ Fetched(p) \/ Stale(p)
           \/ Unreachable(p) \/ EtagFails(p)
    PROVE  CacheInv'
<1> USE DEF Goto
<1> DEFINE d == document[p]
<1>1. /\ UNCHANGED <<published, body, etag>> /\ doubtful \subseteq doubtful'
      /\ doubtful' \subseteq doubtful \cup {d}
      /\ \A q \in Callers \ {p} :
            /\ pc'[q] = pc[q] /\ document'[q] = document[q] /\ cached'[q] = cached[q]
            /\ fetched'[q] = fetched[q] /\ got'[q] = got[q]
  BY DEF ReadBody, ReadEtag, NotModified, Fetched, Stale, Unreachable, EtagFails, DoubtIf, Return,
         End, Inv, TypeOK, CacheInv
<1>2. EtagFits' /\ \A q \in Callers \ {p} : CallInv(q)'
  BY <1>1, OthersKeep
<1>3. CallInv(p)' /\ Overlaps'
  <2> USE Numbers DEF CacheInv
  <2>0. /\ EtagFits /\ Reading(p) /\ Filling(p)
        /\ pc \in [Callers -> Steps] /\ cached \in [Callers -> [body : Files, etag : Files]]
        /\ fetched \in [Callers -> Nat] /\ got \in [Callers -> Files]
        /\ document \in [Callers -> Documents] /\ doubtful \subseteq Documents
    BY DEF CallInv, Inv, TypeOK
  <2>1. CASE ReadBody(p)
    <3>1. CallInv(p)'
      BY <2>0, <2>1, <1>1 DEF ReadBody, CallInv, EtagFits, Reading, Filling, Current, Writing
    <3>2. Overlaps'
      BY <2>0, <2>1, <1>1 DEF ReadBody, DoubtIf, Overlaps, Away, Writing, IsPresent
    <3> QED BY <3>1, <3>2
  <2>2. CASE ReadEtag(p)
    <3>1. CallInv(p)'
      BY <2>0, <2>2, <1>1 DEF ReadEtag, CallInv, EtagFits, Reading, Filling, Current, Writing
    <3>2. Overlaps'
      BY <2>0, <2>2, <1>1 DEF ReadEtag, Overlaps, Away, Writing, IsPresent
    <3> QED BY <3>1, <3>2
  <2>3. CASE NotModified(p) \/ Stale(p) \/ EtagFails(p)
    <3>1. CallInv(p)'
      BY <2>0, <2>3, <1>1 DEF NotModified, Stale, EtagFails, Return, CallInv, Reading, Filling,
         Current, Writing, IsPresent
    <3>2. Overlaps'
      BY <2>0, <2>3, <1>1 DEF NotModified, Stale, EtagFails, Return, Overlaps, Away, Writing, IsPresent
    <3> QED BY <3>1, <3>2
  <2>4. CASE Fetched(p)
    <3>1. CallInv(p)'
      BY <2>0, <2>4, <1>1 DEF Fetched, Return, DoubtIf, CallInv, Reading, Filling, Current, Writing
    <3>2. Overlaps'
      BY <2>0, <2>4, <1>1 DEF Fetched, Return, DoubtIf, Alone, Overlaps, Away, Writing, IsPresent
    <3> QED BY <3>1, <3>2
  <2>5. CASE Unreachable(p)
    <3>1. CallInv(p)'
      BY <2>0, <2>5, <1>1 DEF Unreachable, End, CallInv, Reading, Filling, Current, Writing
    <3>2. Overlaps'
      BY <2>0, <2>5, <1>1 DEF Unreachable, End, Overlaps, Away, Writing, IsPresent
    <3> QED BY <3>1, <3>2
  <2> QED BY <2>1, <2>2, <2>3, <2>4, <2>5
<1> QED BY <1>2, <1>3 DEF CacheInv
\* What the steps that write to the cache have in common: the doubt about a
\* document they leave to the others who have it in hand, if there are any.
LEMMA WritesFrame ==
    ASSUME CacheInv, NEW p \in Callers,
           TruncateBody(p) \/ FillBody(p) \/ BodyFails(p) \/ TruncateEtag(p) \/ FillEtag(p)
    PROVE  /\ Writing(p) /\ ~Away(p) /\ UNCHANGED <<published, call>>
           /\ \A q \in Callers \ {p} : pc'[q] = pc[q]
           /\ doubtful' \subseteq doubtful \cup {document[p]}
           /\ doubtful # doubtful' /\ document[p] \notin doubtful' => Alone(p) /\ FillBody(p)
           /\ \A e \in doubtful : e = document[p] \/ e \in doubtful'
           /\ \A q \in Callers \ {p} : document[q] = document[p] /\ ~Away(q)
                 => (document[p] \in doubtful => document[p] \in doubtful')
           /\ \A e \in Documents \ {document[p]} : body'[e] = body[e] /\ etag'[e] = etag[e]
  BY DEF CacheInv, Inv, TypeOK, TruncateBody, FillBody, BodyFails, TruncateEtag, FillEtag, Goto,
     Write, DoubtIf, Alone, Away, Writing

\* The steps of cached_get that write, each for the call itself, for the
\* others, and for the cache.
LEMMA WritesKeep ==
    ASSUME CacheInv, Inv', NEW p \in Callers,
           TruncateBody(p) \/ FillBody(p) \/ BodyFails(p) \/ TruncateEtag(p) \/ FillEtag(p)
    PROVE  CacheInv'
<1> DEFINE d == document[p]
<1>1. /\ Writing(p) /\ ~Away(p) /\ UNCHANGED <<published, call>>
      /\ \A q \in Callers \ {p} : pc'[q] = pc[q]
      /\ doubtful' \subseteq doubtful \cup {d}
      /\ \A e \in doubtful : e = d \/ e \in doubtful'
      /\ \A q \in Callers \ {p} : document[q] = d /\ ~Away(q) => (d \in doubtful => d \in doubtful')
      /\ \A e \in Documents \ {d} : body'[e] = body[e] /\ etag'[e] = etag[e]
  BY WritesFrame
<1>2. /\ d \in Documents /\ pc \in [Callers -> Steps]
      /\ body \in [Documents -> Files] /\ etag \in [Documents -> Files]
      /\ Reading(p) /\ Filling(p) /\ Current(p)
  BY Numbers DEF CacheInv, CallInv, Inv, TypeOK
<1>3. /\ body'[d] \in {body[d], Torn, fetched[p]} /\ etag'[d] \in {etag[d], Torn, fetched[p]}
      /\ pc'[p] \in {"fill", "filled", "tag", "returned"}
  BY <1>2 DEF TruncateBody, FillBody, BodyFails, TruncateEtag, FillEtag, Goto, Write
<1>4. EtagFits'
  <2> SUFFICES ASSUME NEW e \in Documents, e \notin doubtful', etag'[e] = published[e]
               PROVE  body'[e] = published[e]
    BY <1>1 DEF EtagFits
  <2>1. CASE e # d
    BY <1>1, <2>1 DEF CacheInv, EtagFits
  <2>2. CASE e = d /\ (TruncateBody(p) \/ BodyFails(p))
    BY <1>2, <2>2 DEF TruncateBody, BodyFails, Goto, Write, DoubtIf, Filling, CacheInv, EtagFits
  <2>3. CASE e = d /\ FillBody(p)
    BY <1>2, <2>3, Numbers DEF FillBody, Goto, Write, Filling, IsPresent, CacheInv
  <2>4. CASE e = d /\ TruncateEtag(p)
    BY <1>2, <2>4, Numbers DEF TruncateEtag, Goto, Write, Torn, CacheInv
  <2>5. CASE e = d /\ FillEtag(p)
    BY <1>2, <2>5, Numbers DEF FillEtag, Goto, Write, Filling, IsPresent, CacheInv
  <2> QED BY <2>1, <2>2, <2>3, <2>4, <2>5
<1>5. Overlaps'
  <2> SUFFICES ASSUME NEW q \in Callers, NEW r \in Callers, q # r, document[q] = document[r],
                      Writing(q)', IsPresent(q), ~Away(r)'
               PROVE  document[q] \in doubtful'
    BY <1>1 DEF Overlaps, IsPresent
  <2>1. Writing(q) /\ ~Away(r)
    BY <1>1 DEF Writing, Away
  <2>2. document[q] \in doubtful
    BY <2>1 DEF CacheInv, Overlaps
  <2>3. \E o \in {q, r} : o # p /\ ~Away(o) /\ document[o] = document[q]
    BY <2>1 DEF Writing, Away
  <2> QED BY <1>1, <2>2, <2>3
<1>6. ASSUME NEW q \in Callers \ {p} PROVE CallInv(q)'
  <2>1. CASE document[q] # d
    BY <1>1, <1>6, <2>1, Numbers DEF CacheInv, CallInv, Reading, Filling, Current, Writing, IsPresent
  <2>2. CASE Away(q)
    BY <1>1, <1>6, <2>2 DEF CacheInv, CallInv, Reading, Filling, Current, Writing, Away
  <2>3. CASE document[q] = d /\ ~Away(q)
    <3>1. d \in doubtful => d \in doubtful'
      BY <1>1, <2>3
    <3>2. IsPresent(p) \/ (Writing(q) /\ IsPresent(q)) => d \in doubtful
      BY <1>1, <1>6, <2>3 DEF CacheInv, Overlaps
    <3>3. etag'[d] = published[d] => etag[d] = published[d] \/ d \in doubtful
      BY <1>2, <1>3, <3>2, Numbers DEF CacheInv, Torn, IsPresent
    <3>4. Reading(q) /\ Filling(q) /\ Current(q)
      BY <1>6 DEF CacheInv, CallInv
    <3>5. Reading(q)'
      BY <1>1, <1>6, <2>3, <3>1, <3>3, <3>4 DEF Reading
    <3>6. Filling(q)' /\ Current(q)'
      BY <1>1, <1>6, <2>3, <3>1, <3>2, <3>3, <3>4 DEF Filling, Current, Writing, IsPresent
    <3> QED BY <3>5, <3>6 DEF CallInv
  <2> QED BY <2>1, <2>2, <2>3
<1>7. CallInv(p)'
  <2>1. Reading(p)'
    BY <1>1, <1>3 DEF Reading
  <2>2. got[p] = fetched[p] /\ fetched[p] > 0
    BY <1>1, <1>2 DEF Filling
  <2>3. Current(p)'
    BY <1>1, <2>2 DEF Current
  <2>4. Filling(p)'
    BY <1>1, <1>2, <2>2, Numbers DEF Filling, IsPresent, Writing, CacheInv, TruncateBody, FillBody,
       BodyFails, TruncateEtag, FillEtag, Goto, Write, DoubtIf
  <2> QED BY <2>1, <2>3, <2>4 DEF CallInv
<1> QED BY <1>4, <1>5, <1>6, <1>7 DEF CacheInv

LEMMA ProvideKeeps ==
    ASSUME CacheInv, Inv', NEW p \in Callers,
           Provide(p) \/ Die(p) \/ \E t \in Tasks : Begin(p, t)
    PROVE  CacheInv'
<1>1. /\ UNCHANGED <<server, cache>>
      /\ \A q \in Callers \ {p} :
            /\ pc'[q] = pc[q] /\ document'[q] = document[q] /\ cached'[q] = cached[q]
            /\ fetched'[q] = fetched[q] /\ got'[q] = got[q]
  BY DEF Provide, ParseRecords, BadResponse, ChooseSet, NoSuchPair, CompareWithStore,
     ListSets, Install, InstallFails, AnswerCheck, Die, Begin, Fetch, End, Goto, CacheInv, Inv, TypeOK
<1>2. Away(p)' /\ (fetched'[p] = 0 \/ pc'[p] = "install")
  BY DEF Provide, ParseRecords, BadResponse, ChooseSet, NoSuchPair, CompareWithStore,
     ListSets, Install, InstallFails, AnswerCheck, Die, Begin, Fetch, End, Goto, Away,
     CacheInv, CallInv, Reading, Inv, TypeOK
<1>3. EtagFits' /\ \A q \in Callers \ {p} : CallInv(q)'
  BY <1>1, OthersKeep
<1>4. CallInv(p)'
  BY <1>2 DEF CallInv, Reading, Filling, Current, Writing, Away
<1>5. Overlaps'
  BY <1>1, <1>2 DEF CacheInv, Overlaps, Writing, Away, IsPresent
<1> QED BY <1>3, <1>4, <1>5 DEF CacheInv

LEMMA AroundKeeps ==
    ASSUME CacheInv, Inv',
           (\E d \in Documents : Publish(d)) \/ Configure \/ \E pair \in Pairs : RemovePair(pair)
    PROVE  CacheInv'
<1>1. CASE Configure \/ \E pair \in Pairs : RemovePair(pair)
  BY <1>1 DEF Configure, RemovePair, CacheInv, EtagFits, Overlaps, CallInv, Reading, Filling,
     Current, Writing, Away, IsPresent
<1>2. ASSUME NEW d \in Documents, Publish(d)
      PROVE  CacheInv'
  <2>1. /\ published'[d] = published[d] + 1 /\ doubtful' = doubtful \ {d}
        /\ \A e \in Documents \ {d} : published'[e] = published[e]
        /\ UNCHANGED <<body, etag, pc, call>>
    BY <1>2 DEF Publish, CacheInv, Inv, TypeOK
  <2> USE Numbers DEF CacheInv
  <2>2. EtagFits'
    BY <2>1 DEF EtagFits
  <2>3. Overlaps'
    BY <2>1 DEF Overlaps, Writing, Away, IsPresent
  <2>4. ASSUME NEW p \in Callers PROVE CallInv(p)'
    <3>1. CASE document[p] = d
      BY <2>1, <3>1 DEF CallInv, Reading, Filling, Current, Writing, IsPresent
    <3>2. CASE document[p] # d
      BY <2>1, <3>2 DEF CallInv, Reading, Filling, Current, Writing, IsPresent
    <3> QED BY <3>1, <3>2
  <2> QED BY <2>2, <2>3, <2>4
<1> QED BY <1>1, <1>2

LEMMA CacheNext == CacheInv /\ [Next]_vars => CacheInv'
<1> SUFFICES ASSUME CacheInv, [Next]_vars PROVE CacheInv'
  OBVIOUS
<1>1. Inv'
  BY NextInv DEF CacheInv
<1>2. CASE UNCHANGED vars
  BY <1>1, <1>2 DEF vars, CacheInv, EtagFits, Overlaps, CallInv, Reading, Filling, Current,
     Writing, Away, IsPresent
<1>3. CASE Next
  BY <1>1, <1>3, ReadsKeep, WritesKeep, ProvideKeeps, AroundKeeps DEF Next, CachedGet
<1> QED BY <1>2, <1>3

\* "The server said the cached copy is current" is true of the copy, for any
\* number of callers and wherever earlier refreshes were cut off, unless the
\* copy of that version is in doubt: because the body could not be written, or
\* because two refreshes of the document overlapped.
THEOREM RefreshIsCurrent == Spec => []AnswerCurrent
<1>1. CacheInv => AnswerCurrent
  BY DEF CacheInv, CallInv, Current, AnswerCurrent
<1> QED BY <1>1, CacheInit, CacheNext, PTL DEF Spec
=============================================================================
