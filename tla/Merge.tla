------------------------------- MODULE Merge -------------------------------
(***************************************************************************)
(* Folding the declarations of one field under allOf                       *)
(* (compilers/openapi/internal/merge, and the kind lattice of spelling and *)
(* ir): how two types relate, how bounds meet, which type a field takes,   *)
(* and what is kept of a declaration the field does not carry.             *)
(*                                                                         *)
(* A registry is a sequence of nodes, a type ID an index into it, 0 naming *)
(* none.  A number is counted in tenths; a text is known by the grammar it *)
(* satisfies; an object by its name.  A pointer is a sequence whose first  *)
(* element is the base a $ref written there is read against.               *)
(***************************************************************************)
EXTENDS Integers, Sequences, SequencesExt, FiniteSets, FiniteSetsExt

CONSTANTS MaxJudgeDepth, MaxFold, MaxComposedParts, MaxStepDigits, StepFactorsPerDigit

----------------------------------------------------------------------------
(* Steps: a decimal is its digits c, which end in no zero, times 10^e.     *)
RECURSIVE Digits(_), Gcd(_, _), Trimmed(_, _)
Digits(c) == IF c < 10 THEN 1 ELSE 1 + Digits(c \div 10)
Gcd(a, b) == IF b = 0 THEN a ELSE Gcd(b, a % b)
Trimmed(c, e) == IF c # 0 /\ c % 10 = 0 THEN Trimmed(c \div 10, e + 1) ELSE [c |-> c, e |-> e]

Shifted(c, e, m) == c * 10 ^ Min({e - m.e, StepFactorsPerDigit * Digits(m.c)})
IsMultipleOf(v, m) ==
    /\ m.c # 0
    /\ v.c = 0 \/ (v.e >= m.e /\ Shifted(v.c, v.e, m) % m.c = 0)
LeastCommonMultiple(x, y) ==
    LET a == IF x.e < y.e THEN y ELSE x
        b == IF x.e < y.e THEN x ELSE y
        k == Min({a.e - b.e, StepFactorsPerDigit * Digits(b.c)})
        grown == Shifted(a.c, a.e, b)
    IN  Trimmed((grown \div Gcd(grown, b.c)) * b.c, a.e - k)
\* commonStep: the one step, or nothing.
CommonStep(a, b) ==
    IF a = b THEN <<a>>
    ELSE IF a.c <= 0 \/ b.c <= 0 \/ Digits(a.c) + Digits(b.c) > MaxStepDigits THEN <<>>
    ELSE IF IsMultipleOf(a, b) THEN <<a>> ELSE IF IsMultipleOf(b, a) THEN <<b>>
    ELSE <<LeastCommonMultiple(a, b)>>

\* A number is a multiple of both steps exactly where it is one of their
\* common step, however far apart their exponents.
StepsExact(a, b, Over) ==
    LET met == CommonStep(a, b)
        least == Min({a.e, b.e} \cup {v.e : v \in Over})
        Units(d) == d.c * 10 ^ (d.e - least)
        Divides(m, v) == Units(v) % Units(m) = 0
    IN  met # <<>> => /\ Trimmed(met[1].c, met[1].e) = met[1]
                      /\ \A v \in Over : (Divides(a, v) /\ Divides(b, v)) <=> IsMultipleOf(v, met[1])
                      /\ \A m \in {a, b}, v \in Over : IsMultipleOf(v, m) <=> Divides(m, v)

----------------------------------------------------------------------------
(* Constraints: each keyword's value, as a sequence of none or one.        *)
Keywords == <<"min", "max", "step", "scale", "minItems", "pattern">>
None == [min |-> <<>>, max |-> <<>>, step |-> <<>>, scale |-> <<>>, minItems |-> <<>>, pattern |-> <<>>, unique |-> FALSE]
\* A literal no Decimal holds.
Unreadable == {900001, 900002}
OnlyEqual(x, y) == IF x = y THEN <<x>> ELSE <<>>
Ordered(x, y, pick) == IF x = y THEN <<x>> ELSE IF {x, y} \cap Unreadable # {} THEN <<>> ELSE <<pick>>
InTenths(d) == d.c * 10 ^ (d.e + 1)
\* constraintKeywords: the value saying what x and y both say, or none.
MeetOf(kw, x, y) ==
    CASE kw = "min" -> Ordered(x, y, Max({x, y}))
      [] kw = "max" -> Ordered(x, y, Min({x, y}))
      [] kw = "minItems" -> <<Max({x, y})>>
      [] kw = "step" -> LET met == CommonStep(Trimmed(x, -1), Trimmed(y, -1))
                        IN  IF met = <<>> THEN <<>> ELSE <<InTenths(met[1])>>
      [] OTHER -> OnlyEqual(x, y)
Differs(kw, a, b) == a[kw] # <<>> /\ b[kw] # <<>> /\ MeetOf(kw, a[kw][1], b[kw][1]) = <<>>
Kept(kw, dst, src) ==
    IF dst[kw] = <<>> THEN src[kw] ELSE IF src[kw] = <<>> \/ Differs(kw, dst, src) THEN dst[kw]
    ELSE MeetOf(kw, dst[kw][1], src[kw][1])
Constraints(dst, src) ==
    [kw \in DOMAIN None |-> IF kw = "unique" THEN dst.unique \/ src.unique ELSE Kept(kw, dst, src)]
\* constraintsConflict: the index of the first keyword in conflict, or 0.
ConstraintsConflict(a, b) ==
    Min({i \in DOMAIN Keywords : Differs(Keywords[i], a, b)} \cup {Len(Keywords) + 1}) % (Len(Keywords) + 1)
BoundsBeyond(c, own) ==
    [kw \in DOMAIN None |-> IF kw = "unique" THEN c.unique /\ ~own.unique ELSE IF c[kw] = own[kw] THEN <<>> ELSE c[kw]]
BoundsRelation(a, b) ==
    LET met == Constraints(Constraints(None, a), b)
    IN  IF ConstraintsConflict(a, b) # 0 THEN "meet"
        ELSE IF met = a THEN (IF met = b THEN "same" ELSE "aNarrower")
        ELSE IF met = b THEN "bNarrower" ELSE "meet"
\* meetConstraints: the bounds together, and each set disagreeing.
\* Mutant: the first declaration is named, whichever stated the keyword.
MeetStepFirst(acc, i, c) ==
    [acc EXCEPT !.kept = Constraints(acc.kept, c),
                !.heard = IF ConstraintsConflict(acc.kept, c) = 0 THEN @ ELSE Append(@, [at |-> i, kept |-> 1])]
MeetStep(acc, i, c) ==
    LET k == ConstraintsConflict(acc.kept, c)
    IN  [kept |-> Constraints(acc.kept, c),
         setBy |-> [j \in DOMAIN Keywords |->
                      IF c[Keywords[j]] # <<>> /\ acc.kept[Keywords[j]] = <<>> THEN i ELSE acc.setBy[j]],
         heard |-> IF k = 0 THEN acc.heard ELSE Append(acc.heard, [at |-> i, kept |-> acc.setBy[k]])]
MeetConstraints(sets) ==
    FoldLeftDomain(LAMBDA acc, i : MeetStep(acc, i, sets[i]),
                   [kept |-> None, setBy |-> [j \in DOMAIN Keywords |-> 0], heard |-> <<>>], sets)

\* A value is of the keywords that apply to it, read independently of the fold.
Fits(c, v) ==
    /\ v.k = "number" => /\ c.min # <<>> => v.n >= c.min[1]
                         /\ c.max # <<>> => v.n <= c.max[1]
                         /\ c.step # <<>> => v.n % c.step[1] = 0
                         /\ c.scale # <<>> => (c.scale[1] = 0 => v.n % 10 = 0)
    /\ v.k = "string" => (c.pattern # <<>> => v.s = c.pattern[1])
    /\ v.k = "list" => /\ c.minItems # <<>> => Len(v.l) >= c.minItems[1]
                       /\ c.unique => IsInjective(v.l)
\* Bounds met in any order admit what all of them do; a set that is not heard
\* to disagree is one the kept bounds say all of, and one that is disagrees
\* with the very set it is told of.
BoundsMet(sets, Over) ==
    LET r == MeetConstraints(sets)
        heard == {h.at : h \in ToSet(r.heard)}
    IN  /\ \A i \in DOMAIN sets \ heard, v \in Over : Fits(r.kept, v) => Fits(sets[i], v)
        /\ \A h \in ToSet(r.heard) : \E kw \in ToSet(Keywords) : Differs(kw, r.kept, sets[h.at]) /\ sets[h.kept][kw] # <<>>
        /\ heard = {} =>
             /\ \A v \in Over : Fits(r.kept, v) <=> \A i \in DOMAIN sets : Fits(sets[i], v)
             /\ MeetConstraints(Reverse(sets)).kept = r.kept

----------------------------------------------------------------------------
(* Kinds (ir/types.go, spelling.go, admits.go).                            *)
DomainParents(k) ==
    CASE k = "int8" -> {"int16"}
      [] k = "int16" -> {"int32", "float32"}
      [] k = "int32" -> {"int64", "float64"}
      [] k \in {"int64", "uint64"} -> {"integer", "decimal128"}
      [] k = "uint8" -> {"uint16", "int16"}
      [] k = "uint16" -> {"uint32", "int32", "float32"}
      [] k = "uint32" -> {"uint64", "int64", "float64"}
      [] k \in {"integer", "float64"} -> {"float"}
      [] k = "float32" -> {"float64"}
      [] k \in {"float", "decimal128"} -> {"decimal"}
      [] k = "decimal" -> {"number"}
      [] OTHER -> {}
RECURSIVE Reached(_, _)
Reached(k, depth) ==
    IF depth = 0 THEN {} ELSE DomainParents(k) \cup UNION {Reached(p, depth - 1) : p \in DomainParents(k)}
MaxDomainDepth == 8
StrictlyWithin(k, broad) == k # broad /\ (broad = "any" \/ broad \in Reached(k, MaxDomainDepth))
RefinesString(k) == k \in {"string", "date", "uuid", "bytes"}
Numeric(k) == k = "number" \/ StrictlyWithin(k, "number")
Narrows(k, broad) == StrictlyWithin(k, broad) \/ (broad = "string" /\ RefinesString(k))
BytesAgainstFormat(a, b) == b = "bytes" /\ a # "bytes" /\ RefinesString(a)
RelateKind(a, b) ==
    IF a = b THEN "same" ELSE IF Narrows(a, b) THEN "aNarrower" ELSE IF Narrows(b, a) THEN "bNarrower"
    ELSE IF (Numeric(a) /\ Numeric(b)) \/ BytesAgainstFormat(a, b) \/ BytesAgainstFormat(b, a) THEN "overlap"
    ELSE "disjoint"
Flipped(r) == IF r = "aNarrower" THEN "bNarrower" ELSE IF r = "bNarrower" THEN "aNarrower" ELSE r

IntegralIn(v, lo, hi) == v.k = "number" /\ v.n % 10 = 0 /\ v.n \div 10 \in lo .. hi
AdmitsKind(k, v) ==
    CASE k = "any" -> TRUE
      [] k = "bool" -> v.k = "bool"
      [] k = "string" -> v.k = "string"
      [] k = "int8" -> IntegralIn(v, -128, 127)
      [] k = "int16" -> IntegralIn(v, -32768, 32767)
      [] k = "uint8" -> IntegralIn(v, 0, 255)
      [] k = "integer" -> v.k = "number" /\ v.n % 10 = 0
      [] k \in {"number", "float", "decimal"} -> v.k = "number"
      [] k \in {"date", "uuid"} -> v.k = "string" /\ v.s = k
      [] OTHER -> FALSE
AdmitsFormat(v) == v.k = "string" /\ v.s = "time"
\* The value's own kind and held format: "" where it has none.
KindAdmits(k, v) == IF k.format = "" THEN AdmitsKind(k.prim, v) ELSE AdmitsFormat(v)
FormatAgainst(k) ==
    IF k.format # "" THEN "same" ELSE IF k.prim \in {"string", "any"} THEN "aNarrower"
    ELSE IF k.prim = "bytes" THEN "overlap" ELSE "disjoint"
RelateKinds(a, b) ==
    IF a.format # "" THEN FormatAgainst(b) ELSE IF b.format # "" THEN Flipped(FormatAgainst(a))
    ELSE RelateKind(a.prim, b.prim)

\* admitsConstraints: a keyword with no judge refuses what it applies to.
AdmitsConstraints(c, v) ==
    CASE v.k = "number" -> /\ c.scale = <<>>
                           /\ c.min # <<>> => c.min[1] \notin Unreadable /\ v.n >= c.min[1]
                           /\ c.max # <<>> => c.max[1] \notin Unreadable /\ v.n <= c.max[1]
                           /\ c.step # <<>> => IsMultipleOf(Trimmed(v.n, -1), Trimmed(c.step[1], -1))
      [] v.k = "string" -> c.pattern = <<>>
      [] v.k = "list" -> (c.minItems # <<>> => Len(v.l) >= c.minItems[1]) /\ (c.unique => IsInjective(v.l))
      [] OTHER -> TRUE

----------------------------------------------------------------------------
(* The judgment of two types (typejudge.go).                               *)
Def(reg, ref) == reg[ref.target]
Siteless(t) == [t EXCEPT !.anon = FALSE, !.at = <<>>]
BoundsOf(t) == IF t.kind \in {"scalar", "list", "map", "tuple"} THEN t.c ELSE None
WithBounds(t, c) == IF t.kind \in {"scalar", "list", "map", "tuple"} THEN [t EXCEPT !.c = c] ELSE t
IsTop(t) == t.kind = "prim" /\ t.prim = "any"
IsStructural(t) == t.kind \in {"model", "list", "map", "tuple"}
RECURSIVE Unaliased(_, _), KindFrom(_, _, _)
Unaliased(reg, t) == IF t.kind = "scalar" /\ t.base # 0 THEN Unaliased(reg, reg[t.base]) ELSE t
NoKind == [ok |-> FALSE, prim |-> "", format |-> ""]
KindFrom(reg, id, first) ==
    LET t == reg[id]
    IN  CASE t.kind = "prim" -> [ok |-> TRUE, prim |-> t.prim,
                                 format |-> IF first = "time" /\ t.prim = "string" THEN "time" ELSE ""]
          [] t.kind = "enum" -> [ok |-> TRUE, prim |-> t.prim, format |-> ""]
          [] t.kind = "scalar" /\ t.base # 0 -> KindFrom(reg, t.base, IF first = "" THEN t.enc ELSE first)
          [] OTHER -> NoKind
KindOf(reg, ref) == KindFrom(reg, ref.target, "")
IsAnyType(reg, ref) ==
    LET k == KindOf(reg, ref) IN IF k.ok THEN k.prim = "any" ELSE Def(reg, ref).kind = "any"

LiteralAgainst(v, k, nullable) ==
    IF v.k = "null" THEN (IF nullable THEN "aNarrower" ELSE "disjoint")
    ELSE IF KindAdmits(k, v) THEN "aNarrower" ELSE IF k.prim = "bytes" THEN "overlap" ELSE "disjoint"
NoMemberMeets(t, k, nullable) == \A i \in DOMAIN t.members : LiteralAgainst(t.members[i], k, nullable) = "disjoint"
EnumMisses(t, k, nullable) == t.kind = "enum" /\ NoMemberMeets(t, k, nullable)
NodeAgainstBare(reg, ref, bare) ==
    LET t == Def(reg, ref)
        k == KindOf(reg, ref)
        bareK == KindOf(reg, bare)
        rel == RelateKinds(k, bareK)
    IN  IF t.kind = "literal" THEN LiteralAgainst(t.value, bareK, bare.nullable)
        ELSE IF t.kind \notin {"scalar", "enum"} \/ ~k.ok THEN "unrelated"
        ELSE IF rel = "same" THEN "aNarrower"
        ELSE IF rel \in {"bNarrower", "overlap"}
             THEN IF EnumMisses(t, bareK, bare.nullable) THEN "disjoint" ELSE "overlap"
        ELSE rel

ByNull(a, b) == IF a.nullable = b.nullable THEN "same" ELSE IF a.nullable THEN "bNarrower" ELSE "aNarrower"
HoistedAt(t, at) == t.anon /\ IsPrefix(at, t.at)
Alike(p, q) == p[1] = q[1]
Copies(a, at, b, bt, written) ==
    LET aHoisted == HoistedAt(at, written[1])
        bHoisted == HoistedAt(bt, written[2])
    IN  IF (aHoisted \/ bHoisted) /\ (at.keeps \/ bt.keeps) /\ ~Alike(at.at, bt.at) THEN "overlap"
        ELSE IF aHoisted /\ bHoisted THEN ByNull(a, b)
        ELSE IF bHoisted THEN "aNarrower" ELSE IF aHoisted THEN "bNarrower" ELSE "overlap"
SameNode(at, bt) == at.kind = bt.kind /\ at.kind \in {"literal", "enum", "scalar"} /\ Siteless(at) = Siteless(bt)

RECURSIVE ComposedOf(_, _, _)
PartsOf(t) ==
    (IF t.kind \in {"scalar", "model"} /\ t.base # 0 THEN {t.base} ELSE {})
    \cup (IF t.kind = "model" THEN ToSet(t.mixins) ELSE {})
ComposedOf(reg, ids, seen) ==
    IF ids = {} \/ Cardinality(seen) > MaxComposedParts THEN seen
    ELSE LET next == UNION {PartsOf(reg[i]) : i \in ids} IN ComposedOf(reg, next \ seen, seen \cup next)
Composes(reg, id, target) == id # target /\ target \in ComposedOf(reg, {id}, {})
SaysOnlyObject(t) == t.kind = "model" /\ PartsOf(t) = {} /\ t.open /\ t.detail = "" /\ ~t.disc
InstanceKind(t) ==
    CASE t.kind = "map" \/ (t.kind = "literal" /\ t.value.k = "object") -> "model"
      [] t.kind = "tuple" \/ (t.kind = "literal" /\ t.value.k = "list") -> "list"
      [] OTHER -> t.kind
Within(reg, a, b) ==
    LET bt == Def(reg, b)
    IN  /\ IsStructural(Unaliased(reg, bt))
        /\ Composes(reg, a.target, b.target) \/ (SaysOnlyObject(bt) /\ InstanceKind(Unaliased(reg, Def(reg, a))) = "model")
Structures(reg, a, b, written) ==
    LET aWithin == Within(reg, a, b)
        bWithin == Within(reg, b, a)
    IN  IF aWithin /\ bWithin THEN Copies(a, Def(reg, a), b, Def(reg, b), written)
        ELSE IF aWithin THEN "aNarrower" ELSE IF bWithin THEN "bNarrower" ELSE "unrelated"

Extras(t) == [c |-> t.c, enc |-> t.enc, detail |-> t.detail, keeps |-> t.keeps]
Bare(x) == [x EXCEPT !.c = None]
NoExtras == [c |-> None, enc |-> "", detail |-> "", keeps |-> FALSE]
AdmitsEmpty(x) == x.c.minItems = <<>> \/ x.c.minItems[1] <= 0
DetailRelation(ax, bx) == IF Bare(ax) # Bare(bx) THEN "overlap" ELSE BoundsRelation(ax.c, bx.c)
HoldsDetail(wx, lx) == BoundsRelation(wx.c, lx.c) \in {"same", "aNarrower"} /\ Bare(lx) \in {NoExtras, Bare(wx)}
\* Mutant: a narrower member narrows the container whatever else either holds.
NarrowedAlways(win, lose, wx, lx, rel) == rel
NarrowedBy(win, lose, wx, lx, rel) ==
    IF (win.nullable /\ ~lose.nullable) \/ ~HoldsDetail(wx, lx) THEN "overlap" ELSE rel
RECURSIVE RelateAt(_, _, _, _, _)
Contained(reg, ae, be, ax, bx, written, depth) ==
    LET first == RelateAt(reg, ae, be, written, depth + 1)
        rel == IF first = "same" THEN ByNull(ae, be) ELSE first
    IN  CASE rel = "meet" -> "overlap"
          [] rel = "disjoint" /\ ((ae.nullable /\ be.nullable) \/ (AdmitsEmpty(ax) /\ AdmitsEmpty(bx))) -> "overlap"
          [] rel = "aNarrower" -> NarrowedBy(ae, be, ax, bx, rel)
          [] rel = "bNarrower" -> NarrowedBy(be, ae, bx, ax, rel)
          [] rel = "same" -> DetailRelation(ax, bx)
          [] OTHER -> rel
Tuples(reg, at, bt, written, depth) ==
    IF Len(at.elems) = Len(bt.elems)
       /\ \A i \in DOMAIN at.elems : RelateAt(reg, at.elems[i], bt.elems[i], written, depth + 1) = "same"
                                     /\ ByNull(at.elems[i], bt.elems[i]) = "same"
    THEN DetailRelation(Extras(at), Extras(bt)) ELSE "unrelated"
BoundedNodes(reg, at, bt, written, depth) ==
    CASE at.kind # bt.kind -> "unrelated"
      [] at.kind = "scalar" /\ SameNode(WithBounds(at, None), WithBounds(bt, None)) -> BoundsRelation(at.c, bt.c)
      [] at.kind \in {"list", "map"} -> Contained(reg, at.elem, bt.elem, Extras(at), Extras(bt), written, depth)
      [] at.kind = "tuple" /\ depth = 0 -> Tuples(reg, at, bt, written, depth)
      [] OTHER -> "unrelated"
Arms(reg, a, b, written, depth) ==
    LET at == Def(reg, a)
        bt == Def(reg, b)
        rel == BoundedNodes(reg, at, bt, written, depth)
    IN  IF at.kind = "prim" /\ bt.kind = "prim" THEN RelateKind(at.prim, bt.prim)
        ELSE IF bt.kind = "prim" THEN NodeAgainstBare(reg, a, b)
        ELSE IF at.kind = "prim" THEN Flipped(NodeAgainstBare(reg, b, a))
        ELSE IF SameNode(at, bt) \/ rel = "same" THEN Copies(a, at, b, bt, written)
        ELSE IF rel = "unrelated" THEN Structures(reg, a, b, written) ELSE rel

\* admits: whether a value is one of a type's.
RECURSIVE AdmitsAt(_, _, _, _)
AdmitsAt(reg, ref, v, depth) ==
    LET t == Def(reg, ref)
    IN  CASE depth > MaxJudgeDepth -> FALSE
          [] v.k = "null" -> ref.nullable \/ IsTop(t)
          [] t.kind = "prim" -> AdmitsKind(t.prim, v)
          [] t.kind = "any" -> TRUE
          [] t.kind = "enum" -> v \in ToSet(t.members)
          [] t.kind = "literal" -> v = t.value
          [] t.kind = "scalar" -> /\ t.base # 0 /\ (t.enc = "" \/ (t.enc = "time" /\ AdmitsFormat(v)))
                                  /\ AdmitsConstraints(t.c, v)
                                  /\ AdmitsAt(reg, [target |-> t.base, nullable |-> FALSE], v, depth + 1)
          [] t.kind = "list" -> v.k = "list" /\ AdmitsConstraints(t.c, v)
                                /\ \A i \in DOMAIN v.l : AdmitsAt(reg, t.elem, v.l[i], depth + 1)
          [] t.kind = "map" -> v.k = "object" /\ AdmitsConstraints(t.c, v)
                               /\ \A i \in DOMAIN v.l : AdmitsAt(reg, t.elem, v.l[i], depth + 1)
          [] OTHER -> FALSE
SaysOnlyFormat(t) == t.kind = "scalar" /\ t.enc = "time" /\ t.detail = "" /\ ~t.keeps
AgainstKind(reg, t, ref, k) ==
    CASE t.kind # "literal" -> IF IsStructural(t) THEN "disjoint" ELSE "unrelated"
      [] k.format = "" -> "overlap"
      [] ~AdmitsAt(reg, ref, t.value, 0) -> "disjoint"
      [] SaysOnlyFormat(Def(reg, ref)) -> "aNarrower"
      [] OTHER -> "overlap"
Classify(reg, a, b) ==
    LET ak == KindOf(reg, a)
        bk == KindOf(reg, b)
        at == Def(reg, a)
        bt == Def(reg, b)
        au == Unaliased(reg, at)
        bu == Unaliased(reg, bt)
        SaysItsValues(t) == t.kind = "literal" \/ IsStructural(t)
    IN  CASE (ak.ok /\ ak.prim = "any") \/ (bk.ok /\ bk.prim = "any") -> "unrelated"
          [] ak.ok /\ bk.ok ->
               IF RelateKinds(ak, bk) = "disjoint" \/ EnumMisses(at, bk, b.nullable) \/ EnumMisses(bt, ak, a.nullable)
               THEN "disjoint" ELSE "overlap"
          [] ak.ok -> Flipped(AgainstKind(reg, bu, a, ak))
          [] bk.ok -> AgainstKind(reg, au, b, bk)
          [] au.kind = "literal" /\ bu.kind = "literal" -> "overlap"
          [] OTHER -> IF SaysItsValues(au) /\ SaysItsValues(bu) /\ InstanceKind(au) # InstanceKind(bu) THEN "disjoint" ELSE "unrelated"
RelateAt(reg, a, b, written, depth) ==
    IF a.target = b.target THEN "same"
    ELSE IF depth > MaxJudgeDepth \/ {a.target, b.target} \cap DOMAIN reg # {a.target, b.target} THEN "unrelated"
    ELSE IF "any" \in {Def(reg, a).kind, Def(reg, b).kind} THEN "unrelated"
    ELSE IF IsTop(Def(reg, a)) THEN "bNarrower" ELSE IF IsTop(Def(reg, b)) THEN "aNarrower"
    ELSE LET rel == Arms(reg, a, b, written, depth) IN IF rel # "unrelated" THEN rel ELSE Classify(reg, a, b)
Relate(reg, a, b, written) == RelateAt(reg, a, b, written, 0)

\* What a type says of a value, read off its node and nothing of the judgment.
RECURSIVE Says(_, _, _)
Means(reg, ref, v) == IF v.k = "null" THEN ref.nullable \/ IsTop(Def(reg, ref)) ELSE Says(reg, ref.target, v)
Says(reg, id, v) ==
    LET t == reg[id]
    IN  CASE t.kind = "prim" -> IF t.prim = "bytes" THEN v.k = "string" ELSE AdmitsKind(t.prim, v)
          [] t.kind = "enum" -> v \in ToSet(t.members)
          [] t.kind = "literal" -> v = t.value
          [] t.kind = "scalar" -> Fits(t.c, v) /\ ((t.enc = "time" /\ v.k = "string") => v.s = "time") /\ (t.base # 0 => Says(reg, t.base, v))
          [] t.kind = "list" -> v.k = "list" /\ Fits(t.c, v) /\ \A i \in DOMAIN v.l : Means(reg, t.elem, v.l[i])
          [] t.kind = "tuple" -> v.k = "list" /\ Fits(t.c, v) /\ Len(v.l) = Len(t.elems)
                                 /\ \A i \in DOMAIN v.l : Means(reg, t.elems[i], v.l[i])
          [] t.kind = "map" -> v.k = "object" /\ \A i \in DOMAIN v.l : Means(reg, t.elem, v.l[i])
          [] t.kind = "model" -> v.k = "object" /\ (t.open \/ v.s \in t.own) /\ \A p \in PartsOf(t) : Says(reg, p, v)
          [] OTHER -> TRUE
\* A verdict is true of the values: a narrower type's are all the broader's,
\* disjoint ones share none, two that are one type or that meet are one but
\* for their bounds; it is the same seen from the other side, and a value said
\* to be admitted is one.
JudgedTrue(reg, a, b, written, Over) ==
    LET rel == Relate(reg, a, b, written)
        Of(ref) == {v \in Over : v.k # "null" /\ Means(reg, ref, v)}
    IN  /\ Relate(reg, b, a, Reverse(written)) = Flipped(rel)
        /\ rel = "same" => Of(a) = Of(b)
        /\ rel = "aNarrower" => Of(a) \subseteq Of(b)
        /\ rel = "disjoint" => Of(a) \cap Of(b) = {}
        /\ rel = "meet" => LET t == Def(reg, a)
                               c == Constraints(t.c, Def(reg, b).c)
                           IN  ConstraintsConflict(t.c, Def(reg, b).c) = 0 =>
                                 Of(a) \cap Of(b) = {v \in Over : v.k # "null" /\ Says(Append(reg, WithBounds(t, c)), Len(reg) + 1, v)}
        /\ \A v \in Over : AdmitsAt(reg, a, v, 0) => Means(reg, a, v)

----------------------------------------------------------------------------
(* The fold (fold.go, compose.go, visibility.go, losers.go).  A            *)
(* declaration: where it is written, its type, its bounds, a default, its  *)
(* docs, the one Unmodeled entry it gives a key, the lifecycles it is      *)
(* visible in, and whether it is required.                                 *)
Matrix(reg, decls) ==
    [i \in DOMAIN decls |-> [j \in DOMAIN decls |->
       IF i = j THEN "same"
       ELSE IF i < j THEN Relate(reg, decls[i].type, decls[j].type, <<decls[i].at, decls[j].at>>)
       ELSE Flipped(Relate(reg, decls[j].type, decls[i].type, <<decls[j].at, decls[i].at>>))]]
Holds(rel, i, j) == rel[i][j] \in {"same", "aNarrower", "meet"}
WidestCone(rel) ==
    LET width(i) == Cardinality({j \in DOMAIN rel : Holds(rel, i, j)})
    IN  Min({i \in DOMAIN rel : \A j \in DOMAIN rel : width(j) <= width(i)})
HeldByAnother(rel, i) == \E j \in DOMAIN rel : rel[j][i] = "aNarrower" \/ (rel[j][i] = "same" /\ j < i)
\* composition: the declarations whose models the field composes.
Composition(reg, decls, rel) ==
    LET free == {i \in DOMAIN decls : ~HeldByAnother(rel, i)}
    IN  IF Cardinality(free) < 2 \/ \E i \in free : Unaliased(reg, Def(reg, decls[i].type)).kind # "model" THEN {} ELSE free
\* SelectBase: the only $ref, or the first that carries a discriminator, or 0.
SelectBase(refs, Discriminated) ==
    IF Cardinality(refs) = 1 THEN Min(refs) ELSE Min({k \in refs : k \in Discriminated} \cup {99}) % 99
NewModel(reg, decls, conjuncts, like) ==
    LET model(i) == Unaliased(reg, Def(reg, decls[i].type))
        refs == {i \in conjuncts : ~HoistedAt(model(i), decls[i].at)}
        base == SelectBase(refs, {i \in conjuncts : model(i).disc})
        rest == SetToSortSeq(conjuncts \ {base}, <)
    IN  [like EXCEPT !.base = IF base = 0 THEN 0 ELSE decls[base].type.target,
                     !.mixins = [k \in DOMAIN rest |-> decls[rest[k]].type.target]]

IntersectNull(decls, S) == \A i \in S : decls[i].type.nullable
MergeVisibility(a, b) ==
    IF a.none \/ b.none THEN [none |-> TRUE, only |-> {}] ELSE IF a.only = {} THEN b ELSE IF b.only = {} THEN a
    ELSE [none |-> a.only \cap b.only = {}, only |-> a.only \cap b.only]
FoldUse(decls) ==
    [required |-> \E i \in DOMAIN decls : decls[i].required,
     visible |-> FoldLeft(LAMBDA v, d : MergeVisibility(v, d.visible), decls[1].visible, Tail(decls))]
\* firstWritten: the first declaration that gives one of detail, or 0, and
\* each later one giving another.
FirstGiven(givers) == IF givers = {} THEN 0 ELSE Min(givers)
GivenOtherwise(givers, same) == {i \in givers \ {FirstGiven(givers)} : <<FirstGiven(givers), i>> \notin same}
\* sameEntry: text alike, and read against one base where it writes a $ref.
SameEntry(a, b) == a.text = b.text /\ (a.keeps => Alike(a.at, b.at))

\* newFolding and foldType.
NullSayers(reg, decls, rel, winner, cone) ==
    {i \in cone : rel[winner][i] = "same" \/ ~IsTop(Def(reg, decls[i].type))}
\* foldNodeBounds: the winner's node with the bounds of each that meets it.
FoldNodeBounds(reg, decls, rel, winner) ==
    MeetConstraints([i \in DOMAIN decls |-> IF rel[winner][i] = "meet" \/ i = winner THEN BoundsOf(Def(reg, decls[i].type)) ELSE None])
FoldType(reg, decls, like) ==
    LET rel == Matrix(reg, decls)
        winner == WidestCone(rel)
        conjuncts == Composition(reg, decls, rel)
        cone == {i \in DOMAIN decls : conjuncts # {} \/ Holds(rel, winner, i)}
        node == Def(reg, decls[winner].type)
        met == FoldNodeBounds(reg, decls, rel, winner)
        minted == IF conjuncts # {} THEN <<NewModel(reg, decls, conjuncts, like)>>
                  ELSE IF met.kept = BoundsOf(node) THEN <<>> ELSE <<WithBounds(node, met.kept)>>
    IN  [rel |-> rel, winner |-> winner, conjuncts |-> conjuncts, cone |-> cone, reg |-> reg \o minted,
         type |-> [target |-> IF minted = <<>> THEN decls[winner].type.target ELSE Len(reg) + 1,
                   nullable |-> IntersectNull(decls, NullSayers(reg, decls, rel, winner, cone))],
         lost |-> (DOMAIN decls \ cone) \cup (IF conjuncts = {} THEN {h.at : h \in ToSet(met.heard)} ELSE {})]
AllBounds(reg, type, c) == Constraints(Constraints(None, c), BoundsOf(Def(reg, type)))
\* takes: whether the field takes the value v of declaration i.
Takes(f, decls, c, i, v) ==
    LET nullable == f.type.nullable \/ IsAnyType(f.reg, f.type)
        own == decls[i]
        alike == BoundedNodes(f.reg, WithBounds(Def(f.reg, decls[f.winner].type), None),
                              WithBounds(Def(f.reg, own.type), None), <<decls[f.winner].at, own.at>>, 0) = "same"
    IN  IF v.k = "null" THEN nullable
        ELSE /\ AdmitsConstraints(BoundsBeyond(AllBounds(f.reg, f.type, c), AllBounds(f.reg, own.type, own.c)), v)
             /\ \/ f.conjuncts = {} /\ (f.rel[f.winner][i] = "same" \/ alike)
                \/ AdmitsAt(f.reg, [f.type EXCEPT !.nullable = nullable], v, 0)
FoldJudged(reg, decls, like) ==
    LET f == FoldType(reg, decls, like)
        met == MeetConstraints([i \in DOMAIN decls |-> IF i \in f.cone THEN decls[i].c ELSE None])
        refused == {i \in f.cone : decls[i].default # <<>> /\ ~Takes(f, decls, met.kept, i, decls[i].default[1])}
        defaults == {i \in f.cone \ refused : decls[i].default # <<>>}
        docs == {i \in DOMAIN decls : decls[i].docs # ""}
        entries == {i \in DOMAIN decls : decls[i].entry # <<>>}
        pairs == (DOMAIN decls) \X (DOMAIN decls)
    IN  [reg |-> f.reg, type |-> f.type, c |-> met.kept,
         default |-> IF defaults = {} THEN <<>> ELSE decls[FirstGiven(defaults)].default,
         docs |-> IF docs = {} THEN "" ELSE decls[FirstGiven(docs)].docs,
         entry |-> IF entries = {} THEN <<>> ELSE decls[FirstGiven(entries)].entry,
         required |-> FoldUse(decls).required, visible |-> FoldUse(decls).visible,
         lost |-> f.lost \cup {h.at : h \in ToSet(met.heard)} \cup refused
                  \cup GivenOtherwise(defaults, {p \in pairs : decls[p[1]].default = decls[p[2]].default})
                  \cup GivenOtherwise(docs, {p \in pairs : decls[p[1]].docs = decls[p[2]].docs})
                  \cup GivenOtherwise(entries, {p \in entries \X entries : SameEntry(decls[p[1]].entry[1], decls[p[2]].entry[1])})]
\* keepUnjudged: what is past the bound is kept, and not folded.
Fold(reg, decls, like) ==
    LET judged == SubSeq(decls, 1, Min({Len(decls), MaxFold}))
        f == FoldJudged(reg, judged, like)
    IN  [f EXCEPT !.lost = @ \cup (Len(judged) + 1 .. Len(decls))]

\* Nothing is lost in silence.  A declaration not kept verbatim is carried: the
\* field's values are values of its type and bounds, and its default, docs and
\* entry are the field's.  Where none is kept, the field's values are exactly
\* those of every declaration.  A default the field keeps is one of its values
\* wherever it is one of the declaration that wrote it.
Carried(reg, decls, like, Over) ==
    LET f == Fold(reg, decls, like)
        Field == {v \in Over : Means(f.reg, f.type, v) /\ Fits(f.c, v)}
        Of(d) == {v \in Over : Means(reg, d.type, v) /\ Fits(d.c, v)}
        kept == DOMAIN decls \ f.lost
    IN  /\ \A i \in kept : /\ Field \subseteq Of(decls[i])
                           /\ decls[i].default \in {<<>>, f.default} /\ decls[i].docs \in {"", f.docs}
                           /\ decls[i].entry # <<>> => SameEntry(f.entry[1], decls[i].entry[1])
        /\ f.lost = {} => Field = {v \in Over : \A i \in DOMAIN decls : v \in Of(decls[i])}
        /\ f.default # <<>> => \E i \in DOMAIN decls : decls[i].default = f.default
                                                       /\ (f.default[1] \in Of(decls[i]) => f.default[1] \in Field)
        /\ \A i \in kept : (decls[i].visible.none => f.visible.none)
                           /\ (~f.visible.none /\ decls[i].visible.only # {} => f.visible.only \subseteq decls[i].visible.only)

----------------------------------------------------------------------------
(* A field's identity (identity.go, merge.go).  A declaration is written   *)
(* in the schema its path of allOf indexes leads to, one field there.      *)
RECURSIVE Widen(_, _)
Widen(schema, held) == IF IsPrefix(schema, held) THEN schema ELSE Widen(Front(schema), held)
\* fieldSpan: the schema holding every declaration, and the one naming the field.
FieldSpan(decls) ==
    FoldLeft(LAMBDA f, d : IF IsPrefix(f.schema, d) THEN f ELSE [schema |-> Widen(f.schema, d), field |-> d],
             [schema |-> decls[1], field |-> decls[1]], decls)
CarriedApart(first, whole, interned) == \E s \in interned : IsPrefix(s, first) /\ Len(s) > Len(whole)
Declared(at) == [of |-> "declared", at |-> at]
Identify(decls, interned) ==
    LET span == FieldSpan(decls)
    IN  IF Len(decls) > 1 /\ CarriedApart(decls[1], span.schema, interned) THEN [of |-> "field", at |-> span.field]
        ELSE Declared(decls[1])
\* MergeProperty: the first declaration of a wire name lands, and each later
\* one is recorded with it.
MergeProperty(idx, p) ==
    LET at == {i \in DOMAIN idx : idx[i].wire = p.wire}
    IN  IF at = {} THEN Append(idx, [wire |-> p.wire, decls |-> <<p.at>>])
        ELSE [idx EXCEPT ![Min(at)].decls = Append(@, p.at)]
PropIndex(props) == FoldLeft(MergeProperty, <<>>, props)
\* settle: each field declared twice folds, and a discriminator that read the
\* first declaration's ID follows it.
Settle(idx, disc, interned) ==
    LET ids == [i \in DOMAIN idx |-> Identify(idx[i].decls, interned)]
        follows(d, i) == IF Len(idx[i].decls) > 1 /\ d = Declared(idx[i].decls[1]) THEN ids[i] ELSE d
    IN  [ids |-> ids, disc |-> FoldLeft(follows, disc, [i \in DOMAIN idx |-> i])]
\* walkAllOf yields a wrapper after its own branches.
Before(p, q) ==
    IF IsPrefix(q, p) THEN p # q
    ELSE ~IsPrefix(p, q) /\ LET i == Min({k \in DOMAIN p \cap DOMAIN q : p[k] # q[k]}) IN p[i] < q[i]
DeclaredIn(paths, model) == SetToSortSeq({p \in paths : IsPrefix(model, p)}, Before)
\* Two models holding different declarations of a field are two fields, and
\* each model's discriminator names the field it carries.
FieldsApart(paths, interned) ==
    LET Held(m) == DeclaredIn(paths, m)
        Props(m) == [i \in DOMAIN Held(m) |-> [wire |-> "x", at |-> Held(m)[i]]]
        At(m) == Settle(PropIndex(Props(m)), Declared(Held(m)[1]), interned)
        models == {m \in interned : Held(m) # <<>>}
    IN  /\ \A m \in models : At(m).ids[1] = At(m).disc
        /\ \A m, n \in models : (At(m).disc = At(n).disc) <=> (Held(m) = Held(n))

----------------------------------------------------------------------------
(* A duration's text, after its P (formats.go).                            *)
IsDigitRun(s) == s # <<>> /\ \A i \in DOMAIN s : s[i] = "1"
RECURSIVE ConsecutiveDesignators(_, _, _)
ConsecutiveDesignators(s, order, next) ==
    LET end == Min({i \in DOMAIN s : s[i] # "1"} \cup {Len(s) + 1})
        at == {k \in next + 1 .. Len(order) : s[end] = order[k] /\ (next = 0 \/ k = next + 1)}
    IN  s = <<>> \/ (end \in 2 .. Len(s) /\ at # {} /\ ConsecutiveDesignators(SubSeq(s, end + 1, Len(s)), order, Min(at)))
IsDuration(s) ==
    IF s = <<>> THEN FALSE ELSE IF Last(s) = "W" THEN IsDigitRun(Front(s))
    ELSE LET cut == Min({i \in DOMAIN s : s[i] = "T"} \cup {Len(s) + 1})
             date == SubSeq(s, 1, cut - 1)
             time == SubSeq(s, cut + 1, Len(s))
         IN  /\ IF cut <= Len(s) THEN time # <<>> ELSE date # <<>>
             /\ ConsecutiveDesignators(date, <<"Y", "M", "D">>, 0) /\ ConsecutiveDesignators(time, <<"H", "M", "S">>, 0)
\* RFC 3339 Appendix A: a unit is followed by the next smaller one alone.
Runs(order, nums) ==
    UNION {{FlattenSeq([k \in 1 .. (j - i + 1) |-> n[k] \o <<order[i + k - 1]>>]) : n \in [1 .. (j - i + 1) -> nums]} :
           i \in DOMAIN order, j \in DOMAIN order} \ {<<>>}
DurationsRead(nums, Over) ==
    LET dates == Runs(<<"Y", "M", "D">>, nums)
        times == {<<"T">> \o t : t \in Runs(<<"H", "M", "S">>, nums)}
        all == dates \cup times \cup {d \o t : d \in dates, t \in times} \cup {n \o <<"W">> : n \in nums}
    IN  \A s \in Over : IsDuration(s) <=> s \in all
=============================================================================
