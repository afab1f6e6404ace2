------------------------------- MODULE Bases -------------------------------
(***************************************************************************)
(* Where the reference table reads a position                              *)
(* (compilers/openapi/internal/bind): the schema resource and the dialect  *)
(* it is in, the read a relative URI makes from it, the object a           *)
(* "#/$defs/..." pointer finds, the position a pointer through reference   *)
(* objects ends at, and the walks that find reference sites.               *)
(*                                                                         *)
(* A position is the tuple of its tokens.  A node of a document says       *)
(* whether the grammar reads a schema there, or would as an entry of a     *)
(* tuple, what it writes as `$id`, `id`, `$schema` and `$ref`, and whether *)
(* a merge past the view's bound may hide an identifier.                   *)
(***************************************************************************)
EXTENDS Integers, Sequences, FiniteSets, SequencesExt, TLC

CONSTANT MaxThrough    \* maxPasses: reference objects read through, one in another

Prefix(p, n) == SubSeq(p, 1, n)

----------------------------------------------------------------------------
\* DialectRule: a draft before 2019-09 spells its identifier `id`, ignores what
\* is beside a $ref and reads a list of items as a tuple.  A `$schema` that is
\* no URI names no dialect.
DialectRule(d) == [keyword |-> IF d = "old" THEN "old" ELSE "id", ignores |-> d = "old", tuples |-> d = "old", namesNone |-> d = "none"]

\* A resource: its root, its URI, whether an identifier names it and whether one
\* on the way is absolute.  The document is local, and named <<"s">>.
DocResource == [root |-> <<>>, uri |-> <<"s">>, id |-> FALSE, detached |-> FALSE]
\* identify and resolveURI: the URI an identifier names against a base.
Identify(id, base) == CASE id = "rel" -> Append(base, "r") [] id = "abs" -> <<"x">> [] id = "own" -> <<"s">> [] OTHER -> base
IgnoresIdentifier(n, rule) == rule.ignores /\ n.ref
EnterOf(res, rooted, known) == [res |-> res, rooted |-> rooted, known |-> known]
\* enter: the resource the content of a schema is in.
EnterSchema(in, at, n, rule) ==
    LET id == n[rule.keyword]
        uri == Identify(id, in.uri)
    IN  IF IgnoresIdentifier(n, rule) THEN EnterOf(in, FALSE, TRUE)
        ELSE IF id = "" THEN EnterOf(in, FALSE, ~n.hidden)
        ELSE IF uri = in.uri THEN EnterOf(in, FALSE, TRUE)
        ELSE IF uri = DocResource.uri THEN EnterOf(DocResource, FALSE, TRUE)
        ELSE EnterOf([root |-> at, uri |-> uri, id |-> TRUE, detached |-> in.detached \/ id = "abs"], TRUE, TRUE)

\* enterIn: a schema no other holds is read in the dialect its `$schema` names;
\* one held is where it roots a resource, as its embedder spells an identifier
\* or as that dialect does beside no $ref its embedder ignores.
Entering(e, names, dialect) == [res |-> e.res, rooted |-> e.rooted, known |-> e.known, names |-> names, dialect |-> dialect]
EnterIn(in, at, n, enclosing, held) ==
    LET named == n.dialect # "" /\ ~DialectRule(n.dialect).namesNone
        own == DialectRule(IF named /\ ~held THEN n.dialect ELSE enclosing)
        spelled == DialectRule(n.dialect)
        e == EnterSchema(in, at, n, own)
        f == IF ~e.rooted /\ spelled.keyword # own.keyword /\ ~IgnoresIdentifier(n, own) THEN EnterSchema(in, at, n, spelled) ELSE e
    IN  IF ~named THEN Entering(e, FALSE, enclosing)
        ELSE IF ~held THEN Entering(e, TRUE, n.dialect)
        ELSE Entering(f, f.rooted, IF f.rooted THEN n.dialect ELSE enclosing)

\* stepIn and dialectStep: whether the grammar reads a schema at p.
SchemaIn(t, p, dialect) == t[p].schema \/ (t[p].tuple /\ DialectRule(dialect).tuples)
\* heldBySchema: by the grammar alone, no dialect asked.
HeldBySchema(t, p) == \E k \in 0 .. Len(p) - 1 : t[Prefix(p, k)].schema

\* holding: the resource a position is in, walked from the root of its
\* document, read as a schema itself whatever the grammar reads there.
EnterBy(named, in, at, n, dialect, held) ==
    IF named THEN EnterIn(in, at, n, dialect, held) ELSE Entering(EnterSchema(in, at, n, DialectRule(dialect)), FALSE, dialect)
Walking == [in |-> DocResource, known |-> TRUE, dialect |-> "", held |-> FALSE]
PastNode(t, named, w, p, asSchema) ==
    LET e == EnterBy(named, w.in, p, t[p], w.dialect, w.held)
        schema == SchemaIn(t, p, w.dialect)
    IN  IF schema \/ asSchema THEN [in |-> e.res, known |-> w.known /\ e.known, dialect |-> e.dialect, held |-> w.held \/ schema]
        ELSE w
RECURSIVE WalkTo(_, _, _)
WalkTo(t, named, p) == IF p = <<>> THEN PastNode(t, named, Walking, p, FALSE) ELSE PastNode(t, named, WalkTo(t, named, Front(p)), p, FALSE)
HoldingAt(t, named, p) ==
    LET w == PastNode(t, named, IF p = <<>> THEN Walking ELSE WalkTo(t, named, Front(p)), p, TRUE) IN [res |-> w.in, known |-> w.known]

\* identify and declare: the identifiers a document's schemas declare, and the
\* roots whose `$schema` names their dialect.
RECURSIVE DeclaredWalk(_, _)
DeclaredWalk(t, p) ==
    LET above == IF p = <<>> THEN [in |-> DocResource, dialect |-> ""] ELSE DeclaredWalk(t, Front(p))
        e == EnterIn(above.in, p, t[p], above.dialect, HeldBySchema(t, p))
    IN  IF SchemaIn(t, p, above.dialect) THEN [in |-> e.res, dialect |-> e.dialect, rooted |-> e.rooted, names |-> e.names]
        ELSE [in |-> above.in, dialect |-> above.dialect, rooted |-> FALSE, names |-> FALSE]
DeclaredURIs(t) == {<<DeclaredWalk(t, p).in.uri, p>> : p \in {q \in DOMAIN t : DeclaredWalk(t, q).rooted}}
ReadsDialects(t) == \E p \in DOMAIN t : DeclaredWalk(t, p).names

\* bases: the same walk, remembered at each position it passes.  What is walked
\* is a run from the root, so a search halving it finds its end.
RECURSIVE Halve(_, _, _, _)
Halve(walks, p, lo, hi) ==
    IF hi - lo <= 1 THEN lo
    ELSE LET mid == lo + ((hi - lo) \div 2) IN IF Prefix(p, mid) \in DOMAIN walks THEN Halve(walks, p, mid, hi) ELSE Halve(walks, p, lo, mid)
Deepest(walks, p) ==
    LET n == Len(p)
    IN  IF p \in DOMAIN walks THEN n
        ELSE IF n > 0 /\ Prefix(p, n - 1) \in DOMAIN walks THEN n - 1
        ELSE Halve(walks, p, -1, IF n > 0 THEN n - 1 ELSE n)
RECURSIVE WalkOn(_, _, _, _, _)
WalkOn(t, named, walks, p, k) ==
    IF k = Len(p) \/ Prefix(p, k + 1) \notin DOMAIN t THEN [walks |-> walks, k |-> k]
    ELSE LET q == Prefix(p, k + 1) IN
         WalkOn(t, named, walks @@ (q :> PastNode(t, named, IF k < 0 THEN Walking ELSE walks[Prefix(p, k)], q, FALSE)), p, k + 1)
AskBaseAsWalked(t, named, walks, p) ==
    LET w == WalkOn(t, named, walks, p, Deepest(walks, p))
    IN  [walks |-> w.walks, res |-> w.walks[Prefix(p, w.k)].in, known |-> w.walks[Prefix(p, w.k)].known]
AskBase(t, named, walks, p) ==
    LET w == WalkOn(t, named, walks, p, Deepest(walks, p))
        before == IF w.k > 0 THEN w.walks[Prefix(p, w.k - 1)] ELSE Walking
        e == PastNode(t, named, before, Prefix(p, w.k), TRUE)
    IN  [walks |-> w.walks, res |-> e.in, known |-> e.known]

\* Base answers, asked of any positions in any order, as a walk from the root,
\* and a document none of whose schemas names a dialect is read as one read
\* through dialects is.
AsWalkedFromRoot(t, asked) ==
    LET named == ReadsDialects(t)
        held(p) == CHOOSE n \in 0 .. Len(p) : Prefix(p, n) \in DOMAIN t /\ \A m \in n + 1 .. Len(p) : Prefix(p, m) \notin DOMAIN t
        memo[i \in 0 .. Len(asked)] == IF i = 0 THEN [walks |-> <<>>] ELSE AskBase(t, named, memo[i - 1].walks, asked[i])
    IN  \A i \in 1 .. Len(asked) :
          LET h == HoldingAt(t, TRUE, Prefix(asked[i], held(asked[i])))
          IN  memo[i].res = h.res /\ memo[i].known = h.known
\* A base that an identifier names is one its document's walk declared, so a
\* reference to that URI finds the resource the base is read from.
BasesDeclared(t) ==
    \A p \in DOMAIN t : SchemaIn(t, p, IF p = <<>> THEN "" ELSE DeclaredWalk(t, Front(p)).dialect) =>
      LET h == HoldingAt(t, ReadsDialects(t), p).res IN h.id => <<h.uri, h.root>> \in DeclaredURIs(t)

\* readAt: a relative URI under an identifier is judged as written, or by the
\* URI it makes once an absolute identifier detached the base.
Refuse(spelled) == Head(spelled) = "x"
ReadAt(res) ==
    LET key == Append(res.uri, "f")
    IN  [key |-> key, refused |-> Refuse(IF res.detached THEN key ELSE <<"f">>)]
\* No identifier makes a read of another host's document pass as relative.
RefusalsHeld(t) == \A p \in DOMAIN t : LET h == HoldingAt(t, TRUE, p).res IN h.id /\ Refuse(ReadAt(h).key) => ReadAt(h).refused

----------------------------------------------------------------------------
\* definition: a "#/$defs/..." pointer is read from the root of its document,
\* then from the nearest modelled object above the site, nearest first.  levels
\* are the objects on the way down, the root first and the site itself last:
\* whether the model holds each, and $defs in it, and whether the path is held
\* below it, or may be past the merge bound.
Defined(at, reason) == [at |-> at, reason |-> reason]
RECURSIVE AncestorDefinition(_, _, _)
AncestorDefinition(levels, i, why) ==
    LET l == levels[i]
        raw == IF why = "NoDefinition" /\ l.holds = "yes" THEN "RawDefinition" ELSE why
    IN  IF i = 1 THEN Defined(0, why)
        ELSE IF ~l.modelled THEN AncestorDefinition(levels, i - 1, raw)
        ELSE IF ~l.defs THEN AncestorDefinition(levels, i - 1, why)
        ELSE IF l.holds = "yes" THEN Defined(i, "")
        ELSE IF l.holds = "past" THEN Defined(0, "MergeBound")
        ELSE AncestorDefinition(levels, i - 1, why)
Definition(levels, schema, single) ==
    LET up == AncestorDefinition(levels, Len(levels) - 1, "NoDefinition")
    IN  IF levels[1].holds = "yes" THEN Defined(1, "")
        ELSE IF levels[1].holds = "past" THEN Defined(0, "MergeBound")
        ELSE IF schema /\ single /\ up.reason \in {"NoDefinition", "RawDefinition"} /\ Last(levels).holds = "yes" THEN Defined(0, "OwnDefinition")
        ELSE up
\* What answers is never the schema that asks, nothing nearer than it could
\* answer, and what may lie past a bound is not passed over.
DefinedNearest(levels, schema, single) ==
    LET d == Definition(levels, schema, single)
        could == {i \in 2 .. Len(levels) - 1 : levels[i].modelled /\ levels[i].defs /\ levels[i].holds # "no"}
        first == CHOOSE i \in could : \A j \in could : j <= i
    IN  /\ d.reason = "" => d.at < Len(levels) /\ levels[d.at].holds = "yes" /\ (d.at = 1 \/ (d.at = first /\ levels[1].holds = "no"))
        /\ d.reason = "MergeBound" => (\E i \in {1} \cup could : levels[i].holds = "past" /\ (i = 1 \/ i = first)) /\ levels[1].holds # "yes"
        /\ d.reason \notin {"", "MergeBound"} => could = {} /\ levels[1].holds = "no"

----------------------------------------------------------------------------
\* readFrom and through: a pointer is read token by token, through each
\* reference object it passes, on from where the resolver ended its chain, up to
\* the node that chain reached.  A world has its positions and its ends.
Nil == <<0>>
ReadTo(at, reason) == [at |-> at, reason |-> reason]
RECURSIVE ReadFrom(_, _, _, _, _)
ThroughRef(w, at, passes) ==
    LET e == ReadFrom(w, <<>>, w.ends[at].pointer, passes + 1, w.ends[at].node)
    IN  IF at \notin DOMAIN w.ends THEN ReadTo(at, "")
        ELSE IF passes >= MaxThrough \/ w.ends[at].pointer = Nil THEN ReadTo(at, "Unpassable")
        ELSE IF e.reason # "" THEN ReadTo(at, "Unpassable") ELSE e
ReadFrom(w, at, rest, passes, want) ==
    LET r == ThroughRef(w, at, passes)
        child == Append(r.at, Head(rest))
    IN  IF rest = <<>> THEN ReadTo(at, IF want \notin {Nil, at} THEN "NoTarget" ELSE "")
        ELSE IF r.reason # "" THEN r
        ELSE IF want = r.at THEN ReadTo(r.at, "")
        ELSE IF child \notin w.nodes THEN ReadTo(r.at, "NoTarget")
        ELSE ReadFrom(w, child, Tail(rest), passes, want)
\* What a resolver ends a chain at is no reference object.
EndsResolved(w) ==
    \A at \in {q \in DOMAIN w.ends : w.ends[q].pointer # Nil} :
      LET r == ReadFrom(w, <<>>, w.ends[at].pointer, 0, w.ends[at].node) IN r.reason = "" => r.at \notin DOMAIN w.ends
\* A position read to is its own: the pointer to it reads there, through no
\* other reference object, so no node answers at two positions.
ReadsPlaced(w, p) ==
    LET r == ReadFrom(w, <<>>, p, 0, Nil)
    IN  r.reason = "" => /\ r.at \in w.nodes /\ ReadFrom(w, <<>>, r.at, 0, Nil) = r
                         /\ \A n \in 0 .. Len(r.at) - 1 : Prefix(r.at, n) \notin DOMAIN w.ends

----------------------------------------------------------------------------
\* finder.walk: each position below a root is read once at each state it is read
\* at, and the least state a root is read at is remembered.  Below raw YAML and
\* values nothing is read.
StepFrom(s, token) == IF s \in {"raw", "value"} THEN s ELSE IF token = 2 THEN "raw" ELSE IF s = "object" THEN "schema" ELSE IF token = 3 THEN "value" ELSE "schema"
StateRank(s) == CASE s = "raw" -> 0 [] s = "value" -> 1 [] s = "schema" -> 5 [] s = "object" -> 9
NewWalks == [covered |-> {}, visited |-> <<>>, roots |-> <<>>]
RECURSIVE WalkBelow(_, _, _)
WalkBelow(t, f, at) ==
    LET kids == SetToSeq({i \in 1 .. 3 : Append(at.at, i) \in t})
        seen == [f EXCEPT !.covered = @ \cup {at}, !.visited = Append(@, at)]
    IN  IF at.state \in {"raw", "value"} \/ at \in f.covered THEN f
        ELSE FoldLeft(LAMBDA g, i : WalkBelow(t, g, [at |-> Append(at.at, i), state |-> StepFrom(at.state, i)]), seen, kids)
WalkRoot(t, f, r) ==
    WalkBelow(t, [f EXCEPT !.roots = IF r.at \notin DOMAIN @ \/ StateRank(r.state) < StateRank(@[r.at]) THEN (r.at :> r.state) @@ @ ELSE @], r)
\* statesTo and rooted: how the grammar reads a position, or, where that is raw
\* YAML, how a reference read it.
RECURSIVE StateTo(_, _, _)
StateTo(roots, p, source) ==
    LET s == IF p = <<>> THEN IF source THEN "object" ELSE "raw" ELSE StepFrom(StateTo(roots, Front(p), source), Last(p))
    IN  IF s = "raw" /\ p \in DOMAIN roots THEN roots[p] ELSE s
\* The roots noted in any order give the same sites, each met once, and the
\* same kinds.
WalksAgree(t, rs) ==
    LET run(s) == FoldLeft(LAMBDA f, r : WalkRoot(t, f, r), NewWalks, s)
        a == run(rs)
        b == run(Reverse(rs))
    IN  /\ Range(a.visited) = Range(b.visited) /\ Len(a.visited) = Cardinality(Range(a.visited)) /\ Len(b.visited) = Len(a.visited)
        /\ \A p \in t, source \in BOOLEAN : StateTo(a.roots, p, source) = StateTo(b.roots, p, source)
=============================================================================
