----------------------------- MODULE Admission -----------------------------
(***************************************************************************)
(* What the keywords of a schema leave an instance able to be              *)
(* (admission.go), and the decisions taken from it: an allOf that refines  *)
(* one of its conjuncts (refinement.go), conjuncts that share no value     *)
(* (allof_disjoint.go), what a union beside a body lowers to (union.go,    *)
(* branchshape.go), and the discriminators above a subtype                 *)
(* (discriminator.go).  A reading spends a budget of schemas and one of    *)
(* value set members, -1 once it ran out, and says nothing past either.    *)
(***************************************************************************)
EXTENDS Schemas

CONSTANTS MaxAdmissionReads, MaxAdmissionMembers, MaxConjunctTypeReads, MaxRefinedConjuncts, MaxAncestorDepth

Whole == [reads |-> MaxAdmissionReads, members |-> MaxAdmissionMembers]
Spend(b, f, k) == [b EXCEPT ![f] = IF b[f] < k THEN -1 ELSE @ - k]
Exhaust(b, f) == [b EXCEPT ![f] = -1]
Incomplete(b) == b.reads = -1 \/ b.members = -1

\* An exponent may be integral or not, so its literal answers for both.
KindsOf(v) == IF v = <<"integer", "e">> THEN {"integer", "fraction"} ELSE {v[1]}
\* The formats a type selects a primitive for; int32 is narrower than int64.
FormsOf(s) ==
    IF s.format \in {"", "password"} THEN {}
    ELSE {[spelled |-> s.format, listed |-> s.format \in {"int32", "int64"} /\ EffectiveTypes(s) \in {<<"integer">>, <<"number">>}]}
Narrows(f, g) == f.spelled = g.spelled \/ (f.listed /\ g.listed /\ f.spelled = "int32" /\ g.spelled = "int64")

----------------------------------------------------------------------------
(* admitted *)
Admitted(kinds) == [kinds |-> kinds, fixed |-> FALSE, values |-> {}, forms |-> {}, items |-> 0]
Fixing(values, kinds) == [Admitted(kinds) EXCEPT !.fixed = TRUE, !.values = values]
And(a, b) ==
    [kinds  |-> a.kinds \cap b.kinds, fixed |-> a.fixed \/ b.fixed,
     values |-> IF a.fixed /\ b.fixed THEN a.values \cap b.values ELSE a.values \cup b.values,
     forms  |-> a.forms \cup b.forms, items |-> IF a.items # 0 THEN a.items ELSE b.items]
\* Mutant: a union is held to the values one of its branches fixes.
OrFixed(a, b) == [Admitted(a.kinds \cup b.kinds) EXCEPT !.fixed = a.fixed \/ b.fixed, !.values = a.values \cup b.values]
Or(a, b) ==
    IF a.fixed /\ b.fixed THEN Fixing(a.values \cup b.values, a.kinds \cup b.kinds) ELSE Admitted(a.kinds \cup b.kinds)
Reachable(a) == IF a.fixed THEN \E v \in a.values : KindsOf(v) \cap a.kinds # {} ELSE a.kinds # {}
KindsWithin(a, b) == a.kinds \ {"null"} \subseteq b.kinds
\* Mutant: any value set is within another.
ValuesFixed(a, b) == b.fixed => a.fixed
ValuesWithin(a, b) == b.fixed => a.fixed /\ a.values \subseteq b.values
\* Mutant: a form the other is held to is enough, whichever is narrower.
FormsAlike(a, b) == b.forms # {} => a.forms # {}
FormsWithin(a, b) == \A g \in b.forms : \E f \in a.forms : Narrows(f, g)

Read(r, b) == [r |-> r, b |-> b]
\* valueSet: a set the budget cut, or with a member no reader converts, is empty.
ValueSet(members, b) ==
    LET c == Spend(b, "members", Len(members))
    IN  IF c.members = -1 THEN Read(Fixing({}, {}), c)
        ELSE IF <<"unread">> \in ToSet(members) THEN Read(Fixing({}, {}), Exhaust(c, "members"))
        ELSE Read(Fixing(ToSet(members), UNION {KindsOf(v) : v \in ToSet(members)}), c)
\* written: what s itself writes.  items: true holds an element to nothing.
Written(w, s, nullable, b) ==
    LET kinds == WrittenKinds(s, nullable) \cap (IF \E f \in FormsOf(s) : f.listed THEN {"integer", "null"} ELSE AnyKind)
        own == [Admitted(kinds) EXCEPT !.forms = FormsOf(s), !.items = IF s.items # 0 /\ w[s.items].form # "true" THEN s.items ELSE 0]
        enum == IF EnumWritten(s) THEN ValueSet(s.enum[1], b) ELSE Read(Admitted(AnyKind), b)
        const == IF s.const # <<>> THEN ValueSet(s.const, enum.b) ELSE Read(Admitted(AnyKind), enum.b)
    IN  Read(And(And(own, enum.r), const.r), const.b)

RECURSIVE ReadWhole(_, _, _), ReadUnion(_, _, _)
AndEach(w, list, a) == FoldLeft(LAMBDA x, n : LET y == ReadWhole(w, n, x.b) IN Read(And(x.r, y.r), y.b), a, list)
ReadUnion(w, list, b) ==
    FoldLeft(LAMBDA x, n : LET y == ReadWhole(w, n, x.b) IN Read(Or(x.r, y.r), y.b), ReadWhole(w, Head(list), b), Tail(list))
\* whole: its own keywords, its allOf, its unions, and what its $ref lands on.
ReadWhole(w, n, b) ==
    LET c == Spend(b, "reads", 1)
        s == w[n]
        own == Written(w, s, Defines(s.doc), IF s.dynamic THEN Exhaust(c, "reads") ELSE c)
        all == AndEach(w, s.allOf, own)
        AndUnion(x, list) == IF list = <<>> THEN x ELSE LET y == ReadUnion(w, list, x.b) IN Read(And(x.r, y.r), y.b)
        out == AndUnion(AndUnion(all, s.oneOf), s.anyOf)
    IN  IF c.reads = -1 \/ s.form = "true" THEN Read(Admitted(AnyKind), c)
        ELSE IF s.form = "false" THEN Read(Admitted({}), c)
        ELSE IF s.ref = 0 THEN out
        ELSE IF s.ref = -1 THEN Read(out.r, Exhaust(out.b, "reads"))
        ELSE AndEach(w, <<s.ref>>, out)

\* A copy written in the same document says the same.
RECURSIVE Text(_, _)
Text(w, n) ==
    LET Texts(list) == [i \in DOMAIN list |-> Text(w, list[i])]
        One(m) == IF m = 0 THEN <<>> ELSE <<Text(w, m)>>
    IN  [w[n] EXCEPT !.items = One(@), !.prop = One(@), !.allOf = Texts(@), !.oneOf = Texts(@), !.anyOf = Texts(@)]
\* sameText, under one base: a $ref is its target here, not a spelling.
SameText(w, a, b) == Text(w, a) = Text(w, b)

\* The keys s writes, a null that reads as the keyword left out aside.
Key(s, key) ==
    CASE key = "type" -> WritesType(s)
      [] key \in {"const", "enum", "allOf", "oneOf", "anyOf", "disc", "minimum", "pattern"} -> s[key] # <<>>
      [] key \in {"format", "nullable", "note", "not"} -> s[key] # ""
      [] key \in {"closed", "required", "dynamic"} -> s[key]
      [] OTHER -> s[key] # 0
Keys == <<"type", "format", "const", "enum", "items", "prop", "allOf", "oneOf", "anyOf", "ref", "closed",
          "required", "disc", "dynamic", "nullable", "note", "not", "minimum", "pattern", "ident">>
KeysOf(s) == SelectSeq(Keys, LAMBDA k : Key(s, k))

Said(ok, b) == [ok |-> ok, b |-> b]
RECURSIVE Holds(_, _, _, _, _, _)
\* restates: what held admits, read from a schema, says all that n writes.
Restates(w, held, from, n, nullable, b) ==
    IF ~Reachable(held) \/ SameText(w, from, n) THEN Said(TRUE, b)
    ELSE IF w[n].form # "schema" \/ b.reads = -1 THEN Said(FALSE, b)
    ELSE FoldLeft(LAMBDA x, key : IF x.ok THEN Holds(w, held, w[n], key, nullable, x.b) ELSE x, Said(TRUE, b), KeysOf(w[n]))
ItemsWithin(w, a, c, nullable, b) ==
    IF c.items = 0 \/ a.items = c.items THEN Said(TRUE, b)
    ELSE IF a.items = 0 THEN Said(FALSE, b)
    ELSE LET read == ReadWhole(w, a.items, b) IN Restates(w, read.r, a.items, c.items, nullable, read.b)
\* holds: what held admits says all that s's key does.
Holds(w, held, s, key, nullable, b) ==
    LET own == Written(w, s, nullable, b)
    IN  CASE key = "type"   -> Said(KindsWithin(held, Admitted(WrittenKinds(s, nullable))), b)
          [] key = "format" -> Said(FormsWithin(held, own.r), own.b)
          [] key \in {"enum", "const"} -> Said(ValuesWithin(held, own.r), own.b)
          [] key = "items"  -> ItemsWithin(w, held, own.r, nullable, own.b)
          [] OTHER -> Said(FALSE, b)
Lies(w, a, c, nullable, b) ==
    IF KindsWithin(a, c) /\ ValuesWithin(a, c) /\ FormsWithin(a, c) THEN ItemsWithin(w, a, c, nullable, b) ELSE Said(FALSE, b)

----------------------------------------------------------------------------
(* Refinement *)
ObjectKeywords(s) == s.prop # 0 \/ s.closed \/ s.required \/ s.disc # <<>>
SaysKind(s) == WritesType(s) \/ EnumWritten(s) \/ s.const # <<>>
RefinableBranches(w, flat) ==
    /\ Len(flat) <= MaxRefinedConjuncts
    /\ \A i \in DOMAIN flat :
          LET s == w[flat[i].n]
          IN  ~flat[i].capped /\ s.form # "false" /\ ~DeclaresUnion(s) /\ ~s.dynamic /\ ~ObjectKeywords(s)
    /\ Cardinality({i \in DOMAIN flat : IsRef(w, flat[i].n)}) <= 1
\* conjuncts: n's own keywords, branch 0, then each branch but a true.
Conjuncts(w, n, flat) ==
    LET nullable == Defines(w[n].doc)
        first == Written(w, w[n], nullable, Whole)
        Add(x, i) ==
            LET m == flat[i].n
                read == IF IsRef(w, m) THEN ReadWhole(w, m, x.b) ELSE Written(w, w[m], nullable, x.b)
            IN  IF w[m].form # "schema" THEN x
                ELSE [list |-> Append(x.list, [branch |-> i, read |-> read.r, says |-> ~IsRef(w, m) /\ SaysKind(w[m])]), b |-> read.b]
    IN  FoldLeft(Add, [list |-> <<[branch |-> 0, read |-> first.r, says |-> SaysKind(w[n])]>>, b |-> first.b], [i \in DOMAIN flat |-> i])
\* A null every conjunct admits is no value a type is left to describe.
Disjoint(joint, list) == ~Reachable(joint) \/ (joint.kinds = {"null"} /\ \A i \in DOMAIN list : list[i].read.kinds # {"null"})
NarrowsAll(list, i, ref) ==
    /\ list[i].read.fixed /\ i # ref /\ (ref # 0 => ~ValuesWithin(list[ref].read, list[i].read))
    /\ \A j \in DOMAIN list \ {i} : KindsWithin(list[i].read, list[j].read) /\ ValuesWithin(list[i].read, list[j].read)
ConesOver(w, list, i, nullable, b) ==
    FoldLeft(LAMBDA x, j : LET y == Lies(w, list[i].read, list[j].read, nullable, x.b)
                           IN  [n |-> x.n + (IF y.ok THEN 1 ELSE 0), b |-> y.b],
             [n |-> 0, b |-> b], [j \in DOMAIN list |-> j])
\* elect: the value set within every other, else the $ref, else, of those naming a
\* kind, the first within the most others.
Elect(w, list, ref, nullable, b) ==
    LET sets == {i \in DOMAIN list : NarrowsAll(list, i, ref)}
        Try(x, i) == IF ~list[i].says THEN x
                     ELSE LET y == ConesOver(w, list, i, nullable, x.b)
                          IN  [best |-> IF y.n > x.most THEN i ELSE x.best, most |-> Max({x.most, y.n}), b |-> y.b]
    IN  IF sets # {} THEN [best |-> Min(sets), b |-> b]
        ELSE IF ref # 0 THEN [best |-> ref, b |-> b]
        ELSE FoldLeft(Try, [best |-> 1, most |-> 0, b |-> b], [i \in DOMAIN list |-> i])
\* decide: the branch the position is a use of, 0 for the keywords beside the allOf.
Decide(w, n) ==
    LET flat == Flattened(w, n)
        no == [refines |-> FALSE, flat |-> flat, principal |-> 0, held |-> Admitted(AnyKind)]
        read == Conjuncts(w, n, flat)
        list == read.list
        joint == FoldLeft(LAMBDA a, c : And(a, c.read), list[1].read, Tail(list))
        refs == {i \in DOMAIN list : list[i].branch # 0 /\ IsRef(w, flat[list[i].branch].n)}
        ref == IF refs = {} THEN 0 ELSE Min(refs)
        voiced == \E i \in DOMAIN list : list[i].says
        won == Elect(w, list, ref, Defines(w[n].doc), read.b)
    IN  IF ~AllOfDecides(w[n]) \/ ObjectKeywords(w[n]) \/ ~RefinableBranches(w, flat) THEN no
        ELSE IF Disjoint(joint, list) \/ ("object" \in joint.kinds /\ (ref # 0 \/ voiced)) THEN no
        ELSE [refines |-> ~Incomplete(won.b), flat |-> flat, principal |-> list[won.best].branch, held |-> list[won.best].read]
\* keepsAtOutcome: the keywords beside the allOf, and the branches, that are kept
\* verbatim: those that say what the principal does not.
HoldsEach(w, held, s, keys, nullable, b) ==
    FoldLeft(LAMBDA x, k : LET y == Holds(w, held, s, k, nullable, x.b) IN [not |-> x.not \cup (IF y.ok THEN {} ELSE {k}), b |-> y.b],
             [not |-> {}, b |-> b], keys)
CensusKeywords == <<"const", "enum", "format", "items", "type">>
KeptKeywords(w, n, d) ==
    IF d.principal = 0 THEN {}
    ELSE {k \in HoldsEach(w, d.held, w[n], CensusKeywords, Defines(w[n].doc), Whole).not : Key(w[n], k)}
         \ ((IF EffectiveTypes(w[n]) = <<>> THEN {"type"} ELSE {}) \cup (IF w[n].format = "password" THEN {"format"} ELSE {}))
\* folds: what a speaking branch leaves to the position.
Folds(s, key) == key \in {"note", "not"} \cup BoundEntries \/ (key = "nullable" /\ Widening /\ s.prop = 0)
\* An inline principal is taken to have lowered to a node of its own, where all it
\* writes is kept; the code reads one that did not as any other branch.
KeptBranches(w, n, d) ==
    LET speaks == Voices(w, n).speaks
        Keep(x, i) ==
            LET e == d.flat[i]
                s == w[e.n]
                \* consumes is asked in turn: a key folded or flattened costs no reading.
                asked == SelectSeq(KeysOf(s), LAMBDA k : ~((k = "allOf" /\ e.wrapper) \/ (speaks[i] /\ Folds(s, k))))
                read == HoldsEach(w, d.held, s, asked, Defines(w[n].doc), x.b)
            IN  IF i = d.principal \/ s.form # "schema" THEN x
                ELSE IF IsRef(w, e.n) THEN [x EXCEPT !.kept = @ \cup {i}]
                ELSE [kept |-> x.kept \cup (IF read.not # {} THEN {i} ELSE {}), b |-> read.b]
    IN  FoldLeft(Keep, [kept |-> {}, b |-> Whole], [i \in DOMAIN d.flat |-> i]).kept

----------------------------------------------------------------------------
(* Conjuncts that share no value *)
AnyInstance == AnyKind \ {"null"}
DeclaredInstanceTypes(s) ==
    IF s.type = <<>> THEN AnyInstance
    ELSE UNION {IF KindOfType(t) = {} THEN AnyInstance ELSE KindOfType(t) \ {"null"} : t \in ToSet(s.type)}
RECURSIVE ConjunctTypes(_, _, _)
ConjunctBranch(w, n, left) ==
    ConjunctTypes(w, IF IsRef(w, n) THEN RefTarget(w, n) ELSE IF w[n].form = "schema" THEN n ELSE 0, left)
\* A composition that leaves at most a null says nothing to one that holds it.
ConjunctTypes(w, n, left) ==
    IF n = 0 THEN [k |-> AnyInstance, left |-> left]
    ELSE IF left < 1 THEN [k |-> AnyInstance, left |-> -1]
    ELSE LET all == FoldLeft(LAMBDA x, m : LET y == ConjunctBranch(w, m, x.left) IN [k |-> x.k \cap y.k, left |-> y.left],
                             [k |-> DeclaredInstanceTypes(w[n]), left |-> left - 1], w[n].allOf)
         IN  IF all.k = {} /\ w[n].allOf # <<>> THEN [all EXCEPT !.k = AnyInstance] ELSE all
ConjunctReads(w, n) ==
    LET flat == Flattened(w, n)
        Add(x, e) == LET y == IF e.wrapper THEN [k |-> DeclaredInstanceTypes(w[e.n]), left |-> x.left] ELSE ConjunctBranch(w, e.n, x.left)
                     IN  [list |-> Append(x.list, y.k), left |-> y.left]
    IN  FoldLeft(Add, [list |-> <<DeclaredInstanceTypes(w[n])>>, left |-> MaxConjunctTypeReads], flat).list
SharesNull(w, n) == LET a == NullSchema(w, n, Defines(w[n].doc), FALSE, MaxNullConjuncts) IN Admits(a.r) \/ a.left = -1
\* Mutant: conjuncts that share no type share no value.
ReportedNullless(w, n) == \A k \in AnyKind : \E i \in DOMAIN ConjunctReads(w, n) : k \notin ConjunctReads(w, n)[i]
\* disjointConjuncts: no kind is left to all, and no null, and two conjuncts say so.
DisjointReported(w, n) ==
    LET reads == ConjunctReads(w, n)
    IN  /\ \A k \in AnyKind : \E i \in DOMAIN reads : k \notin reads[i]
        /\ ~SharesNull(w, n)
        /\ Cardinality({i \in DOMAIN reads : reads[i] # AnyInstance}) >= 2

----------------------------------------------------------------------------
(* The shape a union's branches declare beside its body.  One reading is    *)
(* shared by every branch: a place, the path of properties and elements    *)
(* from the body, is declared and read once, and kept in memo.             *)
Shapeless == {"note", "required", "nullable", "not"} \cup BoundEntries
Judged(s, key) == key \notin Shapeless /\ (key = "type" => EffectiveTypes(s) # <<>>)
NoDeclarations == [composed |-> {}, items |-> <<>>, prop |-> <<>>]
AddDeclaration(d, s) ==
    [d EXCEPT !.items = IF s.items # 0 THEN Append(@, s.items) ELSE @, !.prop = IF s.prop # 0 THEN Append(@, s.prop) ELSE @]
\* declare: a schema the walk did not reach is one fewer to restate.
RECURSIVE Declare(_, _, _, _)
Declare(w, out, stack, b) ==
    LET c == Spend(b, "reads", 1)
        n == Last(stack)
        s == w[n]
        met == [out EXCEPT !.composed = @ \cup {n}]
    IN  IF stack = <<>> THEN [d |-> out, b |-> b]
        ELSE IF c.reads = -1 THEN [d |-> out, b |-> c]
        ELSE IF s.form # "schema" THEN Declare(w, met, Front(stack), c)
        ELSE Declare(w, AddDeclaration(met, s), Front(stack) \o s.allOf \o (IF s.ref > 0 THEN <<s.ref>> ELSE <<>>), c)

Remember(x, key, value) == [key2 \in DOMAIN x.memo \cup {key} |-> IF key2 = key THEN value ELSE x.memo[key2]]
\* declarationsAt: what the body declares at a place, read the first time.
DeclarationsAt(w, x, body, at, decls) ==
    LET key == <<"declared">> \o at
        read == IF at = <<>> THEN Declare(w, AddDeclaration(NoDeclarations, w[body]), w[body].allOf, x.b) ELSE Declare(w, NoDeclarations, decls, x.b)
    IN  IF key \in DOMAIN x.memo THEN [d |-> x.memo[key], x |-> x]
        ELSE [d |-> read.d, x |-> [x EXCEPT !.b = read.b, !.memo = Remember(x, key, read.d)]]
\* heldAt: what the declarations of a place admit together, read the first time.
HeldAt(w, x, at, decls) ==
    LET key == <<"held">> \o at
        read == AndEach(w, Tail(decls), ReadWhole(w, Head(decls), x.b))
    IN  IF key \in DOMAIN x.memo THEN [r |-> x.memo[key], x |-> x]
        ELSE [r |-> read.r, x |-> [x EXCEPT !.b = read.b, !.memo = Remember(x, key, read.r)]]

Claim(n, held, at, decls) == [n |-> n, held |-> held, at |-> at, decls |-> decls]
\* Mutant: a $ref restates whatever the body declares there.
LandsAnywhere(w, x, body, c) == [ok |-> c.at # <<>>, x |-> x]
\* lands: the $ref names a schema the declarations of the place compose.
Lands(w, x, body, c) ==
    LET at == DeclarationsAt(w, x, body, c.at, c.decls)
    IN  IF c.at = <<>> \/ w[c.n].ref < 1 THEN [ok |-> FALSE, x |-> x]
        ELSE [ok |-> w[c.n].ref \in at.d.composed, x |-> at.x]
\* keysRestate: each key says nothing the body does not; what it nests is to judge.
KeysRestate(w, x0, body, c) ==
    LET s == w[c.n]
        Nest(x, key) ==
            LET at == DeclarationsAt(w, x.x, body, c.at, c.decls)
            IN  [x EXCEPT !.x = at.x, !.inner = Append(@, [n |-> s[key], at |-> Append(c.at, key), decls |-> at.d[key]])]
        Judge(x, key) ==
            IF ~x.ok \/ ~Judged(s, key) THEN x
            ELSE IF key = "allOf" THEN [x EXCEPT !.conjuncts = s.allOf]
            ELSE IF key \in {"prop", "items"} THEN Nest(x, key)
            ELSE IF key = "ref" THEN LET at == Lands(w, x.x, body, c) IN [x EXCEPT !.ok = at.ok, !.x = at.x]
            ELSE LET said == Holds(w, c.held, s, key, Defines(w[body].doc), x.x.b) IN [x EXCEPT !.ok = said.ok, !.x.b = said.b]
        none == [ok |-> TRUE, x |-> x0, conjuncts |-> <<>>, inner |-> <<>>]
    IN  IF s.form # "schema" THEN none ELSE FoldLeft(Judge, none, KeysOf(s))
\* claimOf: a place the body does not declare is new shape; a boolean, a copy, and a
\* place that admits nothing leave nothing to say.
ClaimOf(w, x, n) ==
    LET held == HeldAt(w, x, n.at, n.decls)
    IN  IF n.decls = <<>> THEN [ok |-> FALSE, x |-> x, open |-> <<>>]
        ELSE IF w[n.n].form # "schema" \/ \E i \in DOMAIN n.decls : SameText(w, n.decls[i], n.n) THEN [ok |-> TRUE, x |-> x, open |-> <<>>]
        ELSE [ok |-> TRUE, x |-> held.x, open |-> IF Reachable(held.r) THEN <<Claim(n.n, held.r, n.at, n.decls)>> ELSE <<>>]
RECURSIVE RestatesBody(_, _, _, _)
RestatesBody(w, x, body, claims) ==
    IF claims = <<>> THEN [ok |-> TRUE, x |-> x]
    ELSE LET c == Last(claims)
             k == KeysRestate(w, x, body, c)
             again == [i \in DOMAIN k.conjuncts |-> [c EXCEPT !.n = k.conjuncts[i]]]
             inner == FoldLeft(LAMBDA y, n : IF ~y.ok THEN y
                                             ELSE LET z == ClaimOf(w, y.x, n) IN [ok |-> z.ok, x |-> z.x, open |-> y.open \o z.open],
                               [ok |-> TRUE, x |-> k.x, open |-> <<>>], k.inner)
         IN  IF ~k.ok THEN [ok |-> FALSE, x |-> k.x]
             ELSE IF ~inner.ok THEN [ok |-> FALSE, x |-> inner.x]
             ELSE RestatesBody(w, inner.x, body, Front(claims) \o again \o inner.open)
\* unionBranchesDeclareShape: the body is read once a branch needs it, and a reading
\* that was cut counts as shape.
UnionDeclaresShape(w, n) ==
    LET s == w[n]
        body == AndEach(w, s.allOf, Written(w, s, Defines(s.doc), Whole))
        start == [b |-> body.b, memo |-> [key \in {} |-> NoDeclarations]]
        Ask(y, m) ==
            LET x == IF y.x = <<>> THEN start ELSE y.x[1]
                said == RestatesBody(w, x, n, <<Claim(m, body.r, <<>>, <<>>)>>)
            IN  IF y.found THEN y
                ELSE IF IsRef(w, m) THEN [y EXCEPT !.found = TRUE]
                ELSE IF w[m].form # "schema" \/ \A i \in DOMAIN KeysOf(w[m]) : ~Judged(w[m], KeysOf(w[m])[i]) THEN y
                ELSE [found |-> ~said.ok, x |-> <<said.x>>]
        all == FoldLeft(Ask, [found |-> FALSE, x |-> <<>>], s.oneOf \o s.anyOf)
    IN  all.found \/ (all.x # <<>> /\ Incomplete(all.x[1].b))

----------------------------------------------------------------------------
(* What a oneOf or anyOf lowers to *)
UnionBranches(s) == IF s.oneOf # <<>> THEN s.oneOf ELSE s.anyOf
BothCombinators(s) == s.oneOf # <<>> /\ s.anyOf # <<>>
Combinators(s) == {k \in {"oneOf", "anyOf"} : s[k] # <<>>}
Variants(w, s) == SelectSeq(UnionBranches(s), LAMBDA n : ~IsNullSchema(w, n))
\* Mutant: the anyOf written beside a oneOf stops no collapse.
CollapsesBeside(w, s) == Len(Variants(w, s)) = 1 /\ Len(UnionBranches(s)) > 1
NullUnionCollapse(w, s) == ~BothCombinators(s) /\ Len(Variants(w, s)) = 1 /\ Len(UnionBranches(s)) > 1
AllNullUnion(w, s) == Variants(w, s) = <<>>
ComposesAsModel(s) ==
    /\ s.const = <<>> /\ ~EnumWritten(s)
    /\ s.allOf # <<>> \/ EffectiveTypes(s) = <<"object">> \/ (EffectiveTypes(s) = <<>> /\ s.prop # 0)
ClassifyUnionSiblings(w, n) ==
    LET s == w[n]
        branches == ToSet(UnionBranches(s))
    IN  IF ~UnionDeclaresShape(w, n) THEN "validation"
        ELSE IF ~ComposesAsModel(s) THEN "uncomposable"
        ELSE IF BothCombinators(s) THEN "both"
        ELSE IF \E m \in branches : ~IsRef(w, m) THEN "inline"
        ELSE IF \E m \in branches : w[m].ref = -1 THEN "unresolved"
        ELSE IF s.disc # <<>> THEN "discriminated" ELSE "distributed"
\* What a union lowers to, and the combinators kept verbatim beside it.
LowerUnion(w, n) ==
    LET s == w[n]
        Out(kind, variants, kept) == [kind |-> kind, variants |-> variants, kept |-> kept]
    IN  IF HasUnionSiblings(s)
        THEN IF ClassifyUnionSiblings(w, n) = "distributed" THEN Out("distributed", Variants(w, s), {}) ELSE Out("body", <<>>, Combinators(s))
        ELSE IF NullUnionCollapse(w, s) THEN Out("nullable", Variants(w, s), {})
        ELSE IF AllNullUnion(w, s) THEN Out("any", <<>>, Combinators(s))
        ELSE Out("union", Variants(w, s), IF BothCombinators(s) THEN {"anyOf"} ELSE {})
\* Mutant: a variant is nullable where its branch is, whatever the body says.
ComposedNullAnyway(w, n, m) == NullBit(PositionNull(w, m).r).nullable
\* composedVariantRef: null is admitted where the branch admits it and the body does
\* not forbid it.
ComposedNull(w, n, m) ==
    LET branch == NullBit(PositionNull(w, m).r)
        body == NullSchema(w, n, Defines(w[n].doc), FALSE, MaxNullConjuncts).r
    IN  /\ branch.nullable
        /\ IF Widening THEN body.lenient # "forbidden" ELSE ~branch.inferred /\ body.declared # "forbidden"
TypesDisjoint(types) == IsInjective(types) /\ ~({"integer", "number"} \subseteq ToSet(types))

----------------------------------------------------------------------------
(* The discriminators above a subtype: disc holds the mapping, each entry a *)
(* tag and the schema it names.                                             *)
RefTargets(w, n, visited) ==
    FoldLeft(LAMBDA x, e : LET t == RefTarget(w, e.n)
                           IN  IF t = 0 \/ t \in x.visited THEN x ELSE [list |-> Append(x.list, t), visited |-> x.visited \cup {t}],
             [list |-> <<>>, visited |-> visited], Flattened(w, n))
RECURSIVE Climb(_, _, _, _)
Climb(w, level, visited, depth) ==
    IF level = <<>> \/ depth = MaxAncestorDepth THEN <<>>
    ELSE LET next == FoldLeft(LAMBDA x, n : LET y == RefTargets(w, n, x.visited) IN [list |-> x.list \o y.list, visited |-> y.visited],
                              [list |-> <<>>, visited |-> visited], level)
         IN  SelectSeq(next.list, LAMBDA n : w[n].disc # <<>>) \o Climb(w, next.list, next.visited, depth + 1)
\* Mutant: a schema in a cycle of compositions answers to its own mapping.
AncestorsUnmarked(w, n) == Climb(w, <<n>>, {}, 0)
AncestorDiscriminators(w, n) == Climb(w, <<n>>, {n}, 0)
MappingTags(w, d, id) == {w[d].disc[1][i][1] : i \in {j \in DOMAIN w[d].disc[1] : w[d].disc[1][j][2] = id}}
\* The smallest tag of the nearest ancestor that names the subtype, 0 for its own name.
SubtypeTag(w, n) ==
    LET naming == SelectSeq(AncestorDiscriminators(w, n), LAMBDA d : MappingTags(w, d, n) # {})
    IN  IF naming = <<>> THEN 0 ELSE Min(MappingTags(w, naming[1], n))

----------------------------------------------------------------------------
(* What the readings must be true of *)

\* A reading that was not cut excludes no value the schema admits.
AdmissionSound(w, n, values) ==
    LET a == ReadWhole(w, n, Whole)
    IN  Incomplete(a.b) \/
        \A v \in {u \in values : Valid(w, n, u)} :
            /\ KindsOf(v) \cap a.r.kinds # {}
            /\ a.r.fixed => v \in a.r.values
            /\ \A f \in a.r.forms : FormHolds(f.spelled, v)
            /\ (a.r.items # 0 /\ v[1] = "array" /\ Len(v) > 1) => Valid(w, a.r.items, Tail(v))
\* A refinement loses nothing: what its principal and what it keeps admit together,
\* null aside, the whole allOf admits.
OwnHolds(w, n, v) == Satisfies(w, [w[n] EXCEPT !.allOf = <<>>], v)
RefinesWhole(w, n, values) ==
    LET d == Decide(w, n)
        kept == KeptBranches(w, n, d)
        keywords == KeptKeywords(w, n, d)
        beside == [Blank EXCEPT !.doc = w[n].doc, !.type = IF "type" \in keywords THEN w[n].type ELSE <<>>, !.format = IF "format" \in keywords THEN w[n].format ELSE "",
                   !.items = IF "items" \in keywords THEN w[n].items ELSE 0]
        Branch(i, v) == IF d.flat[i].wrapper THEN OwnHolds(w, d.flat[i].n, v) ELSE Valid(w, d.flat[i].n, v)
    IN  d.refines => \A v \in values \ {<<"null">>} :
            ((IF d.principal = 0 THEN OwnHolds(w, n, v) ELSE Branch(d.principal, v) /\ Satisfies(w, beside, v)) /\ \A i \in kept : Branch(i, v))
            => Valid(w, n, v)
\* Conjuncts are reported to share no value only where no value is valid.
DisjointTrue(w, n, values) == DisjointReported(w, n) => \A v \in values : ~Valid(w, n, v)
\* Whatever a union lowers to, every branch is a variant, a null lifted onto its use,
\* or kept verbatim, no union is left without a variant, and a value the schema
\* admits is one that what it lowered to admits.
UnionWhole(w, n, values) ==
    LET o == LowerUnion(w, n)
        s == w[n]
        Body(v) == Satisfies(w, [s EXCEPT !.oneOf = <<>>, !.anyOf = <<>>], v)
        Some(v) == \E i \in DOMAIN o.variants : Valid(w, o.variants[i], v)
    IN  /\ o.kind \in {"union", "distributed"} => o.variants # <<>>
        /\ \A k \in Combinators(s) \ o.kept : \A m \in ToSet(s[k]) : m \in ToSet(o.variants) \/ IsNullSchema(w, m)
        /\ \A v \in {u \in values : Valid(w, n, u)} :
              CASE o.kind = "any" -> IsNull(v)
                [] o.kind = "nullable" -> IsNull(v) \/ Some(v)
                [] o.kind = "union" -> Some(v) \/ (IsNull(v) /\ NullBit(PositionNull(w, n).r).nullable)
                [] o.kind = "distributed" -> Body(v) /\ (Some(v) \/ IsNull(v))
                [] OTHER -> Body(v)
        /\ o.kind = "distributed" => \A m \in ToSet(o.variants) :
              /\ (Valid(w, n, <<"null">>) /\ PositionNull(w, m).r.declared = "admitted") => ComposedNull(w, n, m)
              /\ ComposedNull(w, n, m) => NullSchema(w, n, Defines(s.doc), FALSE, MaxNullConjuncts).r.lenient # "forbidden"
\* A union kept as validation only reshapes nothing: every value its body admits,
\* null aside, has the shape each branch writes.
Shaped(w) == [i \in DOMAIN w |-> [w[i] EXCEPT !.required = FALSE, !.form = IF @ = "false" THEN "true" ELSE @,
                                                !.type = IF EffectiveTypes(w[i]) = <<>> THEN <<>> ELSE @]]
ValidationOnly(w, n, values) ==
    (HasUnionSiblings(w[n]) /\ ~UnionDeclaresShape(w, n)) =>
        \A v \in {u \in values : "null" \notin ToSet(u) /\ Satisfies(w, [w[n] EXCEPT !.oneOf = <<>>, !.anyOf = <<>>], u)} :
            \A m \in ToSet(w[n].oneOf \o w[n].anyOf) : Valid(Shaped(w), m, v)
\* A type array is exclusive exactly where no value has two of its types.
TypesApart(types) ==
    TypesDisjoint(types) <=> \A k \in AnyKind : Cardinality({i \in DOMAIN types : k \in KindOfType(types[i])}) <= 1
\* The schemas n composes by $ref, through inline branches, and in how many steps.
RECURSIVE Composes(_, _), Near(_, _, _)
Composes(w, n) == UNION {IF IsRef(w, m) THEN {RefTarget(w, m)} \ {0} ELSE Composes(w, m) : m \in ToSet(w[n].allOf)}
Near(w, n, k) == IF k = 0 THEN {n} ELSE LET near == Near(w, n, k - 1) IN near \cup UNION {Composes(w, m) : m \in near}
\* The discriminated ancestors of a schema are those its compositions reach, each
\* once, itself never, the nearest first, cycles and diamonds included; its tag is
\* the nearest one's, whatever order a mapping is written in.
AncestorsNear(w, n) ==
    LET found == AncestorDiscriminators(w, n)
        Steps(m) == Min({k \in 0 .. MaxAncestorDepth : m \in Near(w, n, k)})
        above == {m \in Near(w, n, MaxAncestorDepth) \ {n} : w[m].disc # <<>>}
        naming == {m \in above : MappingTags(w, m, n) # {}}
    IN  /\ ToSet(found) = above /\ Len(found) = Cardinality(above)
        /\ \A i, j \in DOMAIN found : i < j => Steps(found[i]) <= Steps(found[j])
        /\ SubtypeTag(w, n) = 0 <=> naming = {}
        /\ naming # {} => \E m \in naming : /\ \A k \in naming : Steps(m) <= Steps(k)
                                            /\ SubtypeTag(w, n) = Min(MappingTags(w, m, n))
=============================================================================
