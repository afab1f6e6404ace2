------------------------------ MODULE Schemas ------------------------------
(***************************************************************************)
(* What a schema says, read before it is lowered                           *)
(* (compilers/openapi/internal/schema): which keyword family decides it,   *)
(* what it says of null, which branches of an allOf speak for it, which    *)
(* values it admits, whether an allOf refines one of its conjuncts, what a *)
(* union lowers to, and which discriminator tags a subtype.                *)
(*                                                                         *)
(* A world is a sequence of schemas; a schema is named by its index, each  *)
(* is written at one place, and ref names another schema, 0 for no $ref    *)
(* and -1 for one that lands nowhere.  A document is known by its version, *)
(* and 3.0 alone defines nullable.  A JSON value is its kind followed by   *)
(* what it is: an object or an array holds at most one value, an object    *)
(* under the property p, and <<"unread">> is one no reader converts.       *)
(***************************************************************************)
EXTENDS Integers, Sequences, SequencesExt, FiniteSets, FiniteSetsExt

CONSTANTS MaxNullConjuncts, MaxFlattenDepth, Widening

Blank == [form |-> "schema", doc |-> "3.1", ref |-> 0, dynamic |-> FALSE,
          type |-> <<>>, nullable |-> "", format |-> "", const |-> <<>>, enum |-> <<>>,
          items |-> 0, prop |-> 0, closed |-> FALSE, required |-> FALSE, disc |-> <<>>,
          oneOf |-> <<>>, anyOf |-> <<>>, allOf |-> <<>>,
          note |-> "", minimum |-> <<>>, pattern |-> <<>>, not |-> "", ident |-> 0]
Defines(doc) == doc = "3.0"
IsNull(v) == v = <<"null">>

----------------------------------------------------------------------------
(* The keyword families, and the flattened allOf.                          *)
WritesType(s) == \E i \in DOMAIN s.type : s.type[i] # ""
EffectiveTypes(s) == SelectSeq(s.type, LAMBDA t : t \notin {"", "null"})
EnumWritten(s) == s.enum # <<>>
DeclaresFamily(s, family) ==
    CASE family = "const" -> s.const # <<>>
      [] family = "enum"  -> EnumWritten(s)
      [] family = "allOf" -> s.allOf # <<>>
FamilyOrder == <<"const", "enum", "allOf">>
DispatchOf(s) ==
    LET declared == SelectSeq(FamilyOrder, LAMBDA f : DeclaresFamily(s, f))
    IN  [won     |-> IF declared = <<>> THEN "" ELSE Head(declared),
         skipped |-> IF declared = <<>> THEN <<>> ELSE Tail(declared)]
DeclaresUnion(s) == s.oneOf # <<>> \/ s.anyOf # <<>>
DeclaresShape(s) ==
    \/ s.prop # 0 \/ s.const # <<>> \/ EnumWritten(s) \/ s.allOf # <<>> \/ s.closed
    \/ EffectiveTypes(s) # <<>>
NarrowsInstance(s) == s.required \/ s.items # 0
HasUnionSiblings(s) == NarrowsInstance(s) \/ DeclaresShape(s)
AllOfDecides(s) == /\ s.allOf # <<>> /\ s.ref = 0 /\ DispatchOf(s).won = "allOf"
                   /\ ~DeclaresUnion(s) /\ ~s.dynamic

IsRef(w, n) == w[n].form = "schema" /\ w[n].ref # 0
WrapsAllOf(w, n) == ~IsRef(w, n) /\ w[n].form = "schema" /\ w[n].allOf # <<>>
\* Mutant: the wrapper is dropped once its entries stand in the list.
RECURSIVE WalkAllOf(_, _, _)
WalkWrapperless(w, list, path) ==
    FlattenSeq([i \in DOMAIN list |->
        IF WrapsAllOf(w, list[i]) THEN WalkAllOf(w, w[list[i]].allOf, Append(path, i))
        ELSE <<[n |-> list[i], path |-> Append(path, i), wrapper |-> FALSE, capped |-> FALSE]>>])
\* walkAllOf: a nested wrapper is replaced by its branches, then itself.
WalkAllOf(w, list, path) ==
    FlattenSeq([i \in DOMAIN list |->
        LET b == list[i]
            at == Append(path, i)
        IN  IF WrapsAllOf(w, b) /\ Len(path) < MaxFlattenDepth
            THEN Append(WalkAllOf(w, w[b].allOf, at), [n |-> b, path |-> at, wrapper |-> TRUE, capped |-> FALSE])
            ELSE <<[n |-> b, path |-> at, wrapper |-> FALSE, capped |-> WrapsAllOf(w, b)]>>])
Flattened(w, n) == WalkAllOf(w, w[n].allOf, <<>>)

\* The schemas a $ref passes, the last the one it ends on, and <<>> for a loop or
\* a $ref that lands nowhere.
RECURSIVE ChainFrom(_, _, _)
ChainFrom(w, n, passed) ==
    IF n = -1 \/ n \in ToSet(passed) THEN <<>>
    ELSE IF IsRef(w, n) THEN ChainFrom(w, w[n].ref, Append(passed, n))
    ELSE Append(passed, n)
Chain(w, n) == ChainFrom(w, w[n].ref, <<>>)
\* refBranchTarget: the schema a chain ends on, 0 for none and for a boolean.
RefTarget(w, n) ==
    LET chain == IF IsRef(w, n) THEN Chain(w, n) ELSE <<>>
    IN  IF chain # <<>> /\ w[Last(chain)].form = "schema" THEN Last(chain) ELSE 0

----------------------------------------------------------------------------
(* Voices: what the inline branches of an allOf write for the position.    *)
BoundEntries == {"minimum", "pattern"}
Entries(s) == {e \in {"note", "nullable", "not"} : s[e] # ""} \cup {e \in BoundEntries : s[e] # <<>>}
\* A value its reader refused states nothing.
BoundOf(s, e) == IF s[e] = <<-1>> THEN <<>> ELSE s[e]
Meets(e, a, b) == e = "minimum" \/ a = b
Met(e, a, b) == IF e = "minimum" THEN <<Max({a[1], b[1]})>> ELSE a
NoBound == [met |-> <<>>, unstated |-> FALSE, disjoint |-> FALSE]
AddBound(b, e, v) ==
    IF v = <<>> THEN [b EXCEPT !.unstated = TRUE]
    ELSE IF b.met = <<>> THEN [b EXCEPT !.met = v]
    ELSE IF ~Meets(e, b.met, v) THEN [b EXCEPT !.disjoint = TRUE]
    ELSE [b EXCEPT !.met = Met(e, b.met, v)]
NoAgreement == [first |-> [e \in {} |-> <<>>], split |-> {}, bounds |-> [e \in BoundEntries |-> NoBound]]
\* agreement.write: the first writer of an entry is compared with every later.
Write(a, s) ==
    [first  |-> [e \in DOMAIN a.first \cup Entries(s) |-> IF e \in DOMAIN a.first THEN a.first[e] ELSE <<s[e]>>],
     split  |-> a.split \cup {e \in Entries(s) \cap DOMAIN a.first : a.first[e] # <<s[e]>> \/ (e = "not" /\ s.not = "garbled")},
     bounds |-> [e \in BoundEntries |-> IF e \in Entries(s) THEN AddBound(a.bounds[e], e, BoundOf(s, e)) ELSE a.bounds[e]]]
\* Mutant: a bound agrees only where it is written alike.
ApartAlike(a, e) == e \in a.split
Apart(a, e) ==
    /\ e \in BoundEntries => a.bounds[e].unstated \/ a.bounds[e].disjoint
    /\ e \in a.split

\* The base branch i reads its $refs against: the nearest identifier at or above
\* it, else the position's, 1.
Holding(flat, i) == {j \in DOMAIN flat : flat[j].wrapper /\ IsStrictPrefix(flat[j].path, flat[i].path)}
UnderID(w, flat, i) == w[flat[i].n].ident # 0 \/ \E j \in Holding(flat, i) : w[flat[j].n].ident # 0
BaseOf(w, flat, i) ==
    LET naming == {j \in Holding(flat, i) \cup {i} : w[flat[j].n].ident # 0}
    IN  IF naming = {} THEN 1
        ELSE w[flat[CHOOSE j \in naming : \A k \in naming : Len(flat[k].path) <= Len(flat[j].path)].n].ident
\* Mutant: a branch reads its $refs against its own identifier alone.
RebasedOwn(w, flat, i) == w[flat[i].n].not = "relative" /\ w[flat[i].n].ident \notin {0, 1}
Rebased(w, flat, i) == UnderID(w, flat, i) /\ w[flat[i].n].not = "relative" /\ BaseOf(w, flat, i) # 1
Inline(w, n) == w[n].form = "schema" /\ ~IsRef(w, n)
\* readVoices: who speaks for n, and who lends a use what none before it does.
Voices(w, n) ==
    LET flat == Flattened(w, n)
        writes == [i \in DOMAIN flat |-> IF Inline(w, flat[i].n) /\ ~Rebased(w, flat, i) THEN Entries(w[flat[i].n]) ELSE {}]
        agreed == FoldLeft(LAMBDA a, i : IF writes[i] = {} THEN a ELSE Write(a, w[flat[i].n]),
                           Write(NoAgreement, w[n]), [i \in DOMAIN flat |-> i])
        speaks == [i \in DOMAIN flat |-> writes[i] # {} /\ \A e \in writes[i] : ~Apart(agreed, e)]
        lent(i) == Entries(w[n]) \cup UNION {writes[j] : j \in {k \in 1 .. i - 1 : speaks[k]}}
    IN  [speaks |-> speaks, lends |-> [i \in DOMAIN flat |-> speaks[i] /\ ~(writes[i] \subseteq lent(i))],
         rebased |-> [i \in DOMAIN flat |-> Inline(w, flat[i].n) /\ Rebased(w, flat, i)]]
\* nullableVoices: those whose nullable: true widens the whole of n.
NullableVoices(w, n) ==
    IF ~AllOfDecides(w[n]) THEN <<>>
    ELSE LET flat == Flattened(w, n)
             speaks == Voices(w, n).speaks
             wide == SelectSeq([i \in DOMAIN flat |-> i],
                               LAMBDA i : speaks[i] /\ w[flat[i].n].nullable = "true" /\ w[flat[i].n].prop = 0)
         IN  [k \in DOMAIN wide |-> flat[wide[k]].n]

----------------------------------------------------------------------------
(* Null.  A reading is declared, as the version defines its keywords, and  *)
(* lenient, as the widening policy reads them; a walk carries what its     *)
(* budget has left, -1 once it ran out, and what it found, each the schema *)
(* at whose keywords a null is read in.                                    *)
\* Mutant: a conjunct that is silent takes the null of its siblings away.
FoldVetoing(verdicts) ==
    IF "forbidden" \in verdicts THEN "forbidden"
    ELSE IF "silent" \in verdicts THEN "silent" ELSE "admitted"
Fold(verdicts) ==
    IF "forbidden" \in verdicts THEN "forbidden"
    ELSE IF "admitted" \in verdicts THEN "admitted" ELSE "silent"
Conjoined(a, b) == [declared |-> Fold({a.declared, b.declared}), lenient |-> Fold({a.lenient, b.lenient})]
Alike(v) == [declared |-> v, lenient |-> v]
Answer(r, left, found) == [r |-> r, left |-> left, found |-> found]

TypeNull(s) == IF ~WritesType(s) THEN "silent" ELSE IF "null" \in ToSet(s.type) THEN "admitted" ELSE "forbidden"
DeclaredTypeNull(s, nullable) ==
    IF TypeNull(s) = "forbidden" /\ nullable /\ s.nullable = "true" THEN "admitted" ELSE TypeNull(s)
ConstNull(s) == IF s.const = <<>> THEN "silent" ELSE IF IsNull(s.const[1]) THEN "admitted" ELSE "forbidden"
\* An enum that lists nothing is silent.
EnumNull(s) ==
    IF s.enum = <<>> \/ s.enum = <<<<>>>> THEN "silent"
    ELSE IF <<"null">> \in ToSet(s.enum[1]) THEN "admitted" ELSE "forbidden"
IsNullSchema(w, n) == w[n].form = "schema" /\ w[n].type = <<"null">>
HasNullBranch(w, s) == \E n \in ToSet(s.oneOf) \cup ToSet(s.anyOf) : IsNullSchema(w, n)
UnionNull(w, s) == IF HasNullBranch(w, s) /\ ~HasUnionSiblings(s) THEN "admitted" ELSE "silent"

\* Mutant: nullable: true is honoured and not reported.
WidenUnsaid(w, n, a, site) == IF w[n].nullable = "true" THEN [a EXCEPT !.r.lenient = "admitted"] ELSE a
\* widen: nullable: true admits null for the whole of n.
Widen(w, n, a, site) ==
    IF w[n].nullable # "true" THEN a
    ELSE Answer([a.r EXCEPT !.lenient = "admitted"], a.left,
                a.found \cup (IF site /\ a.r.declared # "admitted" THEN {n} ELSE {}))
\* widenRef: keywords beside a $ref that admit null do so for the whole usage.
WidenRef(n, own, a, site) ==
    IF own.lenient # "admitted" \/ a.r.lenient = "admitted" THEN a
    ELSE Answer([a.r EXCEPT !.lenient = "admitted"], a.left, a.found \cup (IF site THEN {n} ELSE {}))

RECURSIVE NullSchema(_, _, _, _, _), NullRef(_, _, _, _, _), NullConjunct(_, _, _, _, _), NullAllOf(_, _, _, _, _),
          NullLands(_, _, _), NullUsages(_, _, _)
\* keywords: the families conjoined, the allOf among them.
NullKeywords(w, n, nullable, site, left) ==
    LET s == w[n]
        values == {ConstNull(s), EnumNull(s), UnionNull(w, s)}
        all == NullAllOf(w, s.allOf, nullable, site, left)
    IN  Answer([declared |-> Fold({DeclaredTypeNull(s, nullable), all.r.declared} \cup values),
                lenient  |-> Fold({TypeNull(s), all.r.lenient} \cup values)], all.left, all.found)
NullAllOf(w, list, nullable, site, left) ==
    FoldLeft(LAMBDA a, b : LET c == NullConjunct(w, b, nullable, site, a.left)
                           IN  Answer(Conjoined(a.r, c.r), c.left, a.found \cup c.found),
             Answer(Alike("silent"), left, {}), list)
NullConjunct(w, n, nullable, site, left) ==
    IF w[n].form = "false" THEN Answer(Alike("forbidden"), left, {})
    ELSE IF w[n].form = "true" THEN Answer(Alike("silent"), left, {})
    ELSE IF IsRef(w, n) THEN NullRef(w, n, nullable, site, left)
    ELSE NullSchema(w, n, nullable, site, left)
\* widenByBranch: what a voice says of null widens the whole of n.
WidenByBranch(w, n, nullable, a, site) ==
    LET voices == NullableVoices(w, n)
        wide == [a EXCEPT !.r.lenient = "admitted"]
        Note(c, e) == IF a.r.declared = "admitted" THEN c
                      ELSE LET own == NullKeywords(w, e, nullable, FALSE, c.left)
                           IN  Answer(c.r, own.left, c.found \cup (IF own.r.declared = "admitted" THEN {e} ELSE {}))
    IN  IF voices = <<>> THEN a ELSE IF ~site THEN wide ELSE FoldLeft(Note, wide, voices)
NullSchema(w, n, nullable, site, left) ==
    IF left < 1 THEN Answer(Alike("silent"), -1, {})
    ELSE LET own == NullKeywords(w, n, nullable, site, left - 1)
         IN  WidenByBranch(w, n, nullable, Widen(w, n, own, site), site)
\* usage: n, which writes a $ref, over what the $ref lands on.
NullUsage(w, n, nullable, target, site) ==
    LET own == NullKeywords(w, n, nullable, site, target.left)
        both == Answer(Conjoined(own.r, target.r), own.left, own.found \cup target.found)
    IN  Widen(w, n, WidenRef(n, own.r, both, site), site)
NullRef(w, n, nullable, site, left) ==
    IF left < 1 THEN Answer(Alike("silent"), -1, {})
    ELSE NullUsage(w, n, nullable, NullLands(w, n, left - 1), site)
\* Each alias, the nearest to the end first, over what it lands on.
NullUsages(w, aliases, target) ==
    FoldRight(LAMBDA a, t : NullUsage(w, a, Defines(w[a].doc), t, FALSE), aliases, target)
\* Mutant: what a $ref lands on is read in the dialect of the schema that wrote it.
NullLandsHere(w, n, left) ==
    LET chain == Chain(w, n)
    IN  IF chain = <<>> THEN Answer(Alike("silent"), left, {})
        ELSE NullUsages(w, Front(chain), NullConjunct(w, Last(chain), Defines(w[n].doc), FALSE, left))
\* lands: the end of the chain and each alias on the way, each in its own dialect.
NullLands(w, n, left) ==
    LET chain == Chain(w, n)
    IN  IF chain = <<>> THEN Answer(Alike("silent"), left, {})
        ELSE NullUsages(w, Front(chain), NullConjunct(w, Last(chain), Defines(w[Last(chain)].doc), FALSE, left))

\* What the position of n takes its bit from (schemaNullRef, refNullRef).
PositionNull(w, n) ==
    IF IsRef(w, n) THEN NullRef(w, n, Defines(w[n].doc), TRUE, MaxNullConjuncts)
    ELSE NullSchema(w, n, Defines(w[n].doc), TRUE, MaxNullConjuncts)
\* nullRef: the bit, and whether it is inferred.
NullBit(r) ==
    IF ~Widening THEN [nullable |-> r.declared = "admitted", inferred |-> FALSE]
    ELSE [nullable |-> r.lenient = "admitted", inferred |-> r.lenient = "admitted" /\ r.declared # "admitted"]
Admits(r) == NullBit(r).nullable

----------------------------------------------------------------------------
(* The reference: which values JSON Schema says a schema admits, for a     *)
(* world whose $refs make no loop.  A properties with no type beside it is *)
(* read as claiming an object, the compiler's stated reading.              *)
AnyKind == {"string", "integer", "fraction", "boolean", "array", "object", "null"}
KindOfType(t) == IF t = "number" THEN {"integer", "fraction"} ELSE {t} \cap AnyKind
WrittenKinds(s, nullable) ==
    IF ~WritesType(s) THEN (IF s.prop # 0 THEN {"object"} ELSE AnyKind)
    ELSE UNION {KindOfType(t) : t \in ToSet(s.type)} \cup (IF nullable /\ s.nullable = "true" THEN {"null"} ELSE {})
FormHolds(format, v) ==
    CASE format = "email" -> v[1] = "string" => v = <<"string", "a">>
      [] format = "int64" -> v[1] # "fraction"
      [] format = "int32" -> v[1] # "fraction" /\ v # <<"integer", "big">>
      [] OTHER -> TRUE
RECURSIVE Satisfies(_, _, _)
Valid(w, n, v) == w[n].form = "true" \/ (w[n].form = "schema" /\ Satisfies(w, w[n], v))
Satisfies(w, s, v) ==
    /\ v[1] \in WrittenKinds(s, Defines(s.doc))
    /\ FormHolds(s.format, v)
    /\ s.const # <<>> => v = s.const[1]
    /\ s.enum # <<>> => v \in ToSet(s.enum[1])
    /\ (s.items # 0 /\ v[1] = "array" /\ Len(v) > 1) => Valid(w, s.items, Tail(v))
    /\ (s.prop # 0 /\ v[1] = "object" /\ Len(v) > 1) => Valid(w, s.prop, Tail(v))
    /\ (s.closed /\ s.prop = 0 /\ v[1] = "object") => Len(v) = 1
    /\ (s.required /\ v[1] = "object") => Len(v) > 1
    /\ \A i \in DOMAIN s.allOf : Valid(w, s.allOf[i], v)
    /\ s.anyOf # <<>> => \E i \in DOMAIN s.anyOf : Valid(w, s.anyOf[i], v)
    /\ s.oneOf # <<>> => Cardinality({i \in DOMAIN s.oneOf : Valid(w, s.oneOf[i], v)}) = 1
    /\ s.ref > 0 => Valid(w, s.ref, v)

\* The schemas n holds or reaches, each with what it holds.
Held(s) == ({s.items, s.prop, s.ref} \ {0, -1}) \cup ToSet(s.allOf \o s.oneOf \o s.anyOf)
RECURSIVE Reached(_, _)
Reached(w, n) == {n} \cup UNION {Reached(w, m) : m \in Held(w[n])}
UnionFree(w, n) == \A m \in Reached(w, n) : ~DeclaresUnion(w[m]) /\ w[m].prop = 0 /\ w[m].enum # <<<<>>>>

\* A walk that its budget did not cut reads null as JSON Schema does wherever no
\* union is written; cut or not, it forbids none that is valid, and the widening
\* policy takes none away that the version's own keywords admit.
NullsRead(w, n) ==
    LET a == PositionNull(w, n)
        valid == Valid(w, n, <<"null">>)
    IN  /\ a.r.declared = "forbidden" => ~valid
        /\ a.r.declared = "admitted" => a.r.lenient = "admitted"
        /\ (a.left # -1 /\ UnionFree(w, n)) => (valid <=> a.r.declared # "forbidden")
\* A null read in by the widening policy alone is reported at a position that
\* writes it: the one read, or one a $ref of it lands on.
Positions(w, n) == {n} \cup {m \in DOMAIN w : \E k \in Reached(w, n) : w[k].ref = m}
InferredTold(w, n) ==
    LET a == PositionNull(w, n)
    IN  (a.left # -1 /\ NullBit(a.r).inferred) => \E m \in Positions(w, n) : PositionNull(w, m).found # {}
\* {allOf: [{$ref: T}]} is a use of T, as {$ref: T} is.
WrapperReads(w, n) ==
    (IsRef(w, n) /\ w[n].ref # -1) =>
        LET x == Append(w, [Blank EXCEPT !.doc = w[n].doc, !.allOf = <<n>>])
        IN  PositionNull(x, Len(x)).r = PositionNull(w, n).r
\* The inline branches of a composition, at any depth, each with the base its
\* nearest identifier gives it.
RECURSIVE Branching(_, _, _)
Branching(w, n, base) ==
    UNION {LET b == IF w[m].ident = 0 THEN base ELSE w[m].ident
           IN  {[n |-> m, base |-> b]} \cup Branching(w, m, b) : m \in {k \in ToSet(w[n].allOf) : Inline(w, k)}}
Agreed(w, e, writers) ==
    LET said == {w[m][e] : m \in writers}
    IN  IF e = "minimum" THEN Cardinality(said) <= 1 \/ <<-1>> \notin said
        ELSE Cardinality(said) <= 1 /\ ((e = "not" /\ "garbled" \in said) => Cardinality(writers) <= 1)
\* A branch speaks for a composition exactly where every writer of what it writes
\* agrees, whichever order they are written in, and a use is lent each entry once.
VoicesAgree(w, n) ==
    LET flat == Flattened(w, n)
        v == Voices(w, n)
        speakers == {i \in DOMAIN flat : v.speaks[i]}
        lenders == {i \in speakers : v.lends[i]}
        heard == {b.n : b \in {c \in Branching(w, n, 1) : c.base = 1 \/ w[c.n].not # "relative"}}
        Tells(i) == Entries(w[flat[i].n])
    IN  /\ {flat[i].n : i \in speakers} =
              {m \in heard : Entries(w[m]) # {} /\ \A e \in Entries(w[m]) : Agreed(w, e, {k \in heard \cup {n} : e \in Entries(w[k])})}
        /\ UNION {Tells(i) : i \in speakers} \ Entries(w[n]) = UNION {Tells(i) : i \in lenders} \ Entries(w[n])
        /\ \A i, j \in lenders : i < j => ~(Tells(j) \subseteq Tells(i))
=============================================================================
