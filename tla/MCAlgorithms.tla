---------------------------- MODULE MCAlgorithms ----------------------------
(***************************************************************************)
(* The pure algorithms, each asked about every input of a bounded set: a   *)
(* step takes one input, the next gives it up, and the properties speak of *)
(* every input given up.                                                   *)
(***************************************************************************)
EXTENDS Walk, TypeFacts, Passes, Source, NodeView, Spelling, Verify, Reader, Resolve, Loading

VARIABLE case

Start(part) == [of |-> "start", part |-> part]
Take(c) == case' = c /\ UNCHANGED <<tree, read, loadVars>>
GiveUp == case.of # "start" /\ Take(Start("done"))

----------------------------------------------------------------------------
\* Graphs of three objects that hold up to two each, the root a pointer.
Kids == UNION {[1 .. n -> 1 .. 3] : n \in 0 .. 2}
Graphs == {[kind |-> k, kids |-> c] :
             k \in {f \in [1 .. 3 -> {"pointer", "slice"}] : f[1] = "pointer"},
             c \in [1 .. 3 -> Kids]}
TakeGraph == case = Start("graph") /\
    \E g \in Graphs, p \in {2, 3}, cap \in {1, 3} :
      Take([of |-> "graph", g |-> g, cap |-> cap, pruned |-> [a |-> {p}, b |-> {}]])
TakeNamed == case = Start("named") /\
    \E g \in {x \in Graphs : x.kids[3] = <<>>}, cap \in {0, 1, 3}, names \in [1 .. 3 -> 0 .. 2] :
      Take([of |-> "named", g |-> g, cap |-> cap, declares |-> <<0, 1, 2>>, names |-> names])
Steps == UNION {[1 .. n -> 1 .. 2] : n \in 0 .. 2}
TakePaths == case = Start("paths") /\ \E p \in [1 .. 3 -> Steps] : Take([of |-> "paths", paths |-> p])

\* WalkValues: visitors that share a traversal see what each would see alone.
SharedWalks == case.of = "graph" => SharedAsAlone(case.g, case.pruned, case.cap, {"a", "b"})
\* CycleVisitor: cycles are told exactly of values that contain themselves.
CyclesTold == case.of = "graph" => CyclesReported(case.g, "a")
\* cloneNode: a copy keeps sharing and cycles.
ClonesKeepShape == case.of = "graph" => CloneKeepsShape(case.g)
\* TypeEdges reaches what a walk reaches.
EdgesWalked == case.of = "graph" => EdgesAsWalked(case.g, case.cap)
\* IDReferences: dangling references are told, and no other.
DanglingTold == case.of = "named" => DanglingReported(case.g, case.cap, case.declares, case.names)
\* PathLog: what was recorded is replayed.
PathsReplayed == case.of = "paths" => LogReplays(case.paths)

----------------------------------------------------------------------------
\* Registries of three types.  Two models declare one property; 4 is declared
\* nowhere.
Property(wire, id, required) == [wire |-> wire, id |-> id, required |-> required]
PropsOf == <<<<Property("p", "p1", FALSE)>>,
             <<Property("p", "p2", FALSE), Property("q", "q", TRUE)>>,
             <<Property("q", "q", FALSE)>>>>
Def(i, kind, base, implements, mixins, held, args, poly) ==
    [kind |-> kind, base |-> base, implements |-> Reference(implements), mixins |-> Reference(mixins),
     held |-> held, args |-> args, poly |-> poly, requires |-> {"p"}, props |-> PropsOf[i]]
Composing(i) ==
    {Def(i, "model", b, m, x, {}, {}, FALSE) : b \in 0 .. 4, m \in 0 .. 3, x \in {0, 1}}
    \cup {Def(i, "alias", b, 0, 0, {}, {}, FALSE) : b \in 0 .. 4}
Simple(i) ==
    {Def(i, "model", b, m, 0, {}, {}, FALSE) : b \in 0 .. 2, m \in 0 .. 2}
    \cup {Def(i, "alias", b, 0, 0, {}, {}, FALSE) : b \in 0 .. 3}
    \cup {Def(i, "other", 0, 0, 0, {}, {}, FALSE)}
TakeRegistry == case = Start("registry") /\
    \E a \in Composing(1), b \in Simple(2), c \in Simple(3) :
      Take([of |-> "registry", r |-> <<a, b, c>>])
Holding(i) ==
    {Def(i, "model", b, 0, 0, h, a, p) :
       b \in {0, 1 + (i % 3)}, h \in {{}, {1}, {2}}, a \in {{}, {3}}, p \in BOOLEAN}
    \cup {Def(i, "alias", b, 0, 0, {}, {}, FALSE) : b \in 1 .. 3}
Operations ==
    {[sends |-> {n}, answers |-> {(n % 3) + 1}, fails |-> {1}, multipart |-> {n}, messages |-> {3},
      replies |-> {n}, direction |-> d, callbacks |-> {2}, webhook |-> n = 3] :
       n \in {1, 3}, d \in {"send", "other"}}
TakeHolding == case = Start("holding") /\
    \E a \in Holding(1), b \in Holding(2), c \in Holding(3), op \in Operations :
      /\ b.args = {} /\ c.args = {} /\ (c.kind = "alias" \/ (c.poly /\ c.base = 0)) /\ (a.kind = "alias" => op.direction = "send") /\ (c.kind = "alias" => op.webhook)
      /\ Take([of |-> "holding", r |-> <<a, b, c>>,
               doc |-> [ops |-> <<op, [op EXCEPT !.sends = {3}, !.answers = {}, !.fails = {}, !.webhook = FALSE]>>,
                        common |-> {}, asked |-> {2}]])

\* FlattenedProperties: every model composed is read once, in layout order.
LayoutKept == case.of = "registry" => \A root \in 1 .. 3 : LayoutOrder(case.r, root)
\* tarjan: components are the classes of mutual reach, in the order they close.
ComponentsFound == case.of = "registry" => ComponentsSound(SuperEdges(case.r)) /\ ComponentsSound(PartEdges(case.r))
\* Index.IsSubtype answers as ir.IsSubtype does.
SubtypesIndexed == case.of = "registry" => IndexAgrees(case.r)
\* Index.Exposes answers as ir.ExposedProps does.
ExposureIndexed == case.of = "registry" => ExposureAgrees(case.r, {"p1", "p2", "q"})
\* aliasTargets holds what following each chain gives, in any map order.
AliasesResolved == case.of = "registry" => AliasesAgree(case.r)
\* Recursive and Usage are reachability in the type graph.
GraphRead == case.of = "holding" => GraphAgrees(case.r, case.doc)
\* A callback writes what it answers, whichever operation names it.
CallbacksSwap == case.of = "holding" => CallbackSwaps(case.r, case.doc, 1)
\* A subtype that composes its polymorphic base does not hold itself.
ComposingHoldsNothing == case.of = "holding" => ComposingIsNotHolding(case.r)

----------------------------------------------------------------------------
\* Scopes of four parties, documents of two operations, models of three
\* properties, and the registries above with a discriminator.
Names == [canonical : {"", "a", "b"}, hint : {"", "a"}, source : {"", "$", "#"}]
NamedTypes == [name : {n \in Names : n.hint = "" \/ n.source = "$"}, anonymous : {FALSE}, builtin : {FALSE}]
              \cup {[name |-> [canonical |-> "a", hint |-> "", source |-> "$"], anonymous |-> x, builtin |-> ~x] : x \in BOOLEAN}
TakeScope == case = Start("scope") /\
    \E t \in [1 .. 3 -> NamedTypes], u \in {x \in NamedTypes : x.name.source = "$"} :
      Take([of |-> "scope", parties |-> TypeParties(Append(t, u))])

Params == {<<>>, <<"p">>, <<"q">>, <<"p", "r">>}
Binding == [param : {"p", "q", "s", ""}, location : {"path", "host"}]
HTTP == {<<>>} \cup {<<[binds |-> b, success |-> {2}]>> : b \in UNION {[1 .. n -> Binding] : n \in 0 .. 2}}
Plain == [params |-> <<>>, http |-> <<>>, inputs |-> <<>>, token |-> "", idempotent |-> "token", depth |-> 0,
          walked |-> TRUE, responses |-> 1, oneway |-> TRUE, default |-> "range", graphql |-> {},
          channel |-> "c", messages |-> {"m", "n"}, replyChannel |-> "none", replies |-> {"m"}]
NoTypes == [types |-> <<>>, nil |-> {}, channels |-> [c |-> {"m"}], payloads |-> {}]
TakeOperations == case = Start("operations") /\
    \E p \in Params, h \in HTTP, t \in {"", "p", "s"}, in \in {<<>>, [cursor |-> "q"], [limit |-> ""]},
       q \in {<<>>, <<"q">>}, d \in {0, MaxGroupDepth + 1}, w \in BOOLEAN :
      Take([of |-> "operations",
            doc |-> NoTypes @@ [ops |-> <<[Plain EXCEPT !.params = p, !.http = h, !.token = t, !.inputs = in],
                                          [Plain EXCEPT !.params = q, !.inputs = [limit |-> "s"], !.depth = d,
                                                        !.walked = w]>>]])

AliasLists == {<<>>, <<"a">>, <<"b">>, <<"a", "b">>, <<"", "b">>, <<"b", "b">>}
TakeModel == case = Start("model") /\
    \E p \in [1 .. 3 -> [wire : {"a", "b", "c", ""}, aliases : AliasLists]] : Take([of |-> "model", props |-> p])

TakeRouted == case = Start("routed") /\
    \E a \in Composing(1), b \in Simple(2), c \in Simple(3), d \in {0, MaxGroupDepth + 1}, g \in {1, 3} :
      /\ a.mixins = <<>> /\ (d = 0 => g = 1)
      /\ Take([of |-> "routed",
               doc |-> [types |-> <<[a EXCEPT !.args = {2}], b, [c EXCEPT !.args = {1}]>>, nil |-> {2}, channels |-> <<>>,
                        ops |-> <<Plain, [Plain EXCEPT !.graphql = {g}, !.depth = d]>>,
                        payloads |-> {[at |-> "op", position |-> "request", required |-> TRUE, type |-> 1, keys |-> {"q"}],
                                      [at |-> "m", position |-> "message", required |-> TRUE, type |-> 4, keys |-> {"q"}]}]])

\* nameReader: a shared name is reported once, with every party that has it.
ScopesReported == case.of = "scope" => ScopeReported(case.parties)
\* A reference to no parameter of its operation is reported by one family alone.
ParamsJudgedOnce == case.of = "operations" => ParamRefsJudgedOnce(case.doc)
\* A model nothing is said of gives each name to one property.
NamesClaimed == case.of = "model" => AliasesClaimed(case.props)
\* What a truncated walk did not see is not held against a model's arguments.
ArgsJudged == case.of = "routed" => ArgsRefusedRightly(case.doc)
\* A decoder finds a discriminator's tag in every type it routes to.
TagsCarried == case.of = "routed" =>
    \A m \in 1 .. 3, tag \in {"p1", "p2", "q"}, targets \in {{1, 2}, {2, 3}, {3}, {4}} :
      RoutesCarryTag(case.doc.types, m, tag, targets)

----------------------------------------------------------------------------
\* Trees of n nodes in document order.  The first row of aliases and tokens is
\* what a source has; the second hides a node, as an overlay's clone does.
RECURSIVE Line(_, _)
Line(p, n) == IF n = 0 THEN {} ELSE {n} \cup Line(p, p[n])
Shapes(n) == {p \in [1 .. n -> 0 .. n] : p[1] = 0 /\ \A i \in 2 .. n : p[i] \in Line(p, i - 1)}
Leaf(p, i) == \A j \in DOMAIN p : p[j] # i
AliasesIn(p) ==
    {a \in [DOMAIN p -> 0 .. Len(p)] : a[1] = 0 /\ \A i \in DOMAIN p : a[i] # 0 => Leaf(p, i) /\ a[i] < i /\ a[a[i]] = 0}
ShapesOf == [n \in 4 .. 6 |-> Shapes(n)]
Tokens == [i \in 1 .. 6 |-> IF i % 2 = 0 THEN <<i + 1>> ELSE <<i + 1, 2>>]
Spelled == {<<2>>, <<2, 0>>, <<3>>}
TreeOf(p, a) == [parent |-> p, alias |-> a, token |-> Tokens, merged |-> [i \in DOMAIN p |-> FALSE]]
TakeTree == case = Start("tree") /\
    \E n \in 4 .. 6 : \E p \in ShapesOf[n] : \E a \in AliasesIn(p) : Take([of |-> "tree", t |-> TreeOf(p, a)])
TakeSites == case = Start("sites") /\
    \E p \in ShapesOf[5], k \in [1 .. 5 -> Spelled], m \in {0, 3, 4} :
      /\ k[1] = <<2>> /\ \A i, j \in 2 .. 5 : i # j /\ p[i] = p[j] => k[i] # k[j]
      /\ Take([of |-> "sites", t |-> [TreeOf(p, [i \in 1 .. 5 |-> 0]) EXCEPT !.token = k, !.merged = [i \in 1 .. 5 |-> i = m]]])
TakeGraft == case = Start("graft") /\
    \E p \in ShapesOf[5], h \in 2 .. 4, m \in 2 .. 5, g \in {0, 3} : \E a \in AliasesIn(p) :
      /\ AnchorCycles(TreeOf(p, a)) = {} /\ a[m] = 0 /\ (\E i \in 2 .. 5 : a[i] # 0 /\ h \notin Line(p, i) /\ h \in Line(p, a[i]))
      /\ Take([of |-> "graft", t |-> [TreeOf(p, a) EXCEPT !.parent[h] = 0, !.merged[3] = g = 3], known |-> {n \in 1 .. 5 : n <= m}])
TakeCharges == case = Start("charges") /\
    \E v \in {-1, 0, 2}, c \in [1 .. 3 -> {-1, 0, 1, 3, MaxInt - 1, MaxInt}] :
      Take([of |-> "charges", l |-> FromOption(v, 4), charges |-> c])
TakeOverlay == case = Start("overlay") /\
    \E a \in [1 .. 3 -> [matches : 0 .. 2, weight : {1, 3}, adds : {0, 2}, removes : {0, 1, 3}]], most \in {4, 7} :
      /\ \A i \in 1 .. 3 : a[i].adds <= a[i].matches * a[i].weight /\ (a[i].matches = 0 => a[i].weight = 1)
      /\ \A i \in 1 .. 3 : a[i].removes > 0 => a[i].adds = 0
      /\ Take([of |-> "overlay", l |-> AtMost(most), actions |-> a])

\* Budget: no charge wraps round.
BudgetsSound == case.of = "charges" => BudgetSound(case.l, case.charges)
\* recordAlias finds every cycle of anchors.
CyclesRefused == case.of = "tree" => AcyclicOnceRefused(case.t)
\* The index measures the tree the parser builds.
ShapesSound == case.of = "tree" => ShapeSound(case.t)
\* Aliases are refused exactly past their allowance.
AliasesJudged == case.of = "tree" => \A s \in {Unbounded, AtMost(0), AtMost(3)} : RefusedRightly(case.t, s)
\* Least is the least pointer, in any order of the candidates.
SitesLeast == case.of = "sites" => SiteLeast(case.t)
\* Nesting past the bound is found, and no other.
NestingFound == case.of = "tree" => \A limit \in 1 .. 3 : DeepNamed(case.t, limit)
\* The weigher counts what the overlay library's clone builds.
ClonesWeighed == case.of = "tree" => \A l \in {AtMost(4), AtMost(8), Unbounded} : CloneWeighed(case.t, l)
\* An overlay's action is refused exactly when it might not fit.
OverlayCharged == case.of = "overlay" => ChargedRightly(case.l, 2, case.actions)
\* Replacing grafts loses no content.
GraftsRepaired == case.of = "graft" =>
    \A l \in {AtMost(4), AtMost(6), Unbounded} : RepairKeepsMeaning(case.t, l)
\* Attribution is whole or given up.
OriginsWhole == case.of = "graft" =>
    \A l \in {AtMost(4), AtMost(6), Unbounded}, changed \in {0, 2} :
      OriginWhole(case.t, l, [n \in case.known |-> 0], [n \in 1 .. 5 |-> IF n = changed THEN 1 ELSE 0])

----------------------------------------------------------------------------
\* Three mappings that merge each other, and the reads a view serves in turn.
Pairings(i) == {<<>>} \cup {<<Own(k, i)>> : k \in {"a", "b"}}
               \cup {<<Own("a", i), Own(k, i + 3)>> : k \in {"a", "b"}}
               \cup {<<Own("a", i), Merges(<<m>>)>> : m \in 1 .. 3} \cup {<<Merges(<<m>>), Own("b", i)>> : m \in 1 .. 3}
               \cup {<<Merges(<<(i % 3) + 1, m>>)>> : m \in 1 .. 3}
Reads == [n : 1 .. 3, token : {"", "b"}]
TakeMappings == case = Start("mappings") /\
    \E a \in Pairings(1), b \in Pairings(2), c \in Pairings(3) : Take([of |-> "mappings", d |-> <<a, b, c>>])
TakeWalk == case = Start("walk") /\
    \E p \in ShapesOf[5], nodes \in {3, 5, 6}, depth \in {0, 1, 2}, prune \in {0, 2, 3}, stop \in {0, 4}, f \in BOOLEAN :
      Take([of |-> "walk", w |-> [t |-> TreeOf(p, [i \in 1 .. 5 |-> IF i = 5 /\ f THEN 2 ELSE 0]), nodes |-> nodes,
                                  depth |-> depth, prune |-> prune, stop |-> stop, follows |-> f]])

\* A shared view answers each read as a fresh one.
ViewsPure == case.of = "mappings" => \A r \in [1 .. 3 -> Reads] : (r[1].n = 1 /\ r[3].n < 3 /\ r[3].token = "b") => ViewPure(case.d, r)
\* Child answers as the pairs do.
ChildrenPaired == case.of = "mappings" => \A n \in 1 .. 3, key \in {"a", "b"} : ChildAsPaired(case.d, n, key)
\* A walk that was cut says so.
WalksHonest == case.of = "walk" => WalkHonest(case.w)

----------------------------------------------------------------------------
\* Names of up to four runes, literals of up to five, lists of up to three.
Texts(runes, n) == UNION {[1 .. k -> runes] : k \in 0 .. n}
TakeName == case = Start("name") /\ \E s \in Texts({"a", "A", "T", "Z", "h", "1", "m", "."}, 4) : Take([of |-> "name", s |-> s])
TakeLiteral == case = Start("literal") /\
    \E s \in Texts({"+", "-", ".", "e", "0", "1", "5"}, 4) \cup {<<x>> \o t : x \in {"0", "5"}, t \in [1 .. 4 -> {".", "e", "0", "5"}]} :
      Take([of |-> "literal", s |-> s])
Panel == {<<"0">>, <<"5">>, <<"5", "0">>, <<"-", "5">>, <<".", "0", "5">>, <<"5", "e", "-", "1">>, <<"5", "0", "1">>, <<"-", ".", "1">>}
TakeMarks == case = Start("marks") /\
    \E a \in Texts({"", "x", "y"}, 3) \ {<<>>}, b \in Texts({"", "x", "y"}, 2) \ {<<>>} : Take([of |-> "marks", a |-> a, b |-> b])

\* CanonicalWords is a fixed point that irverify accepts.
WordsFixed == case.of = "name" => WordsSettled(case.s)
\* A Decimal orders literals as their values do.
DecimalsExact == case.of = "literal" => \A t \in Panel : DecimalsOrdered(case.s, t) /\ DecimalsOrdered(t, case.s)
\* A BigVal keeps its value in one JSON form.
BigValsStored == case.of = "literal" => BigValsKept(case.s)
\* Joining marker lists settles.
InferredSettled == case.of = "marks" => InferredJoined(case.a, case.b)

----------------------------------------------------------------------------
\* A document irverify accepts, and the nodes a defect adds to it.
Typed(kind, id) == [kind |-> kind, id |-> id, prim |-> "", pointer |-> <<>>, members |-> <<>>, requires |-> <<>>, props |-> {},
                    variants |-> 1, discriminator |-> FALSE, wireTagged |-> FALSE, catchAll |-> FALSE, patterns |-> FALSE,
                    facts |-> {}, key |-> <<>>, keyNullable |-> FALSE]
AnID(kind, path) == <<kind, "openapi">> \o path
TypeA == AnID("t", <<"A">>)
AuthA == AnID("auth", <<"A">>)
Declares(class, id, at) == [type |-> "Node", class |-> class, id |-> id, pointer |-> <<>>, at |-> <<at>>]
CleanDoc ==
    [types |-> (TypeA :> [Typed("enum", TypeA) EXCEPT !.pointer = <<"A">>, !.members = <<AnID("e", <<"A", "v">>)>>])
               @@ (PrimTypeID("string") :> [Typed("primitive", PrimTypeID("string")) EXCEPT !.prim = "string"]),
     auth |-> AuthA :> [id |-> AuthA, kind |-> "oauth2", mechanism |-> TRUE, pointer |-> <<"A">>, scopes |-> <<"r", "w">>],
     channels |-> <<>>, messages |-> <<>>, servers |-> <<>>, spaces |-> [k \in IDKinds \ {"s"} |-> <<"openapi">>] @@ [s |-> <<"anon">>],
     sources |-> <<[format |-> TRUE, hash |-> TRUE]>>, services |-> 1, version |-> "read", truncated |-> FALSE,
     nodes |-> <<Declares("t", TypeA, "a"), Declares("t", PrimTypeID("string"), "b"), Declares("auth", AuthA, "c"),
                 Declares("op", AnID("op", <<"A">>), "d"), Declares("e", AnID("e", <<"A", "v">>), "e")>>]
AProp(id, print, at) == [type |-> "Property", class |-> "p", id |-> id, pointer |-> IF id = <<>> THEN <<>> ELSE SubSeq(id, 3, Len(id)),
                         source |-> print, wire |-> print, target |-> "t", at |-> <<at>>]
ARef(position, class, shape, ids) ==
    [type |-> "Ref", position |-> position, class |-> class, shape |-> shape, ids |-> ids, nil |-> FALSE, propertyName |-> FALSE,
     index |-> FALSE, inferred |-> FALSE, nullable |-> FALSE, at |-> <<"r", position>>]
NamingOf(texts) == [type |-> "Naming", source |-> "x", canonical |-> "x", hint |-> "", exempt |-> FALSE, derived |-> TRUE, texts |-> texts, at |-> <<"n">>]
ProvenanceOf(src, line, pointed) == [type |-> "Provenance", source |-> src, line |-> line, column |-> 0, rfc6901 |-> TRUE, pointed |-> pointed, at |-> <<"v">>]
RawOf(raw, reason) == [type |-> "Raw", raw |-> raw, unmodeled |-> TRUE, key |-> "k", reason |-> reason, at |-> <<"w">>]
OpOf(status, mode, tier) == [type |-> "Operation", responses |-> 1, status |-> status, streaming |-> mode, stability |-> tier, at |-> <<"o">>]
ValueWith(kind, set) == [type |-> "Value", kind |-> kind, set |-> set, at |-> <<"u">>]
Defects ==
    {AProp(<<>>, "x", "p"), AProp(<<"p", "openapi", "">>, "x", "p"), Declares("op", AnID("op", <<"A">>), "q"), Declares("g", <<"g", "other">>, "q"),
     [AProp(AnID("p", <<"A">>), "x", "p") EXCEPT !.pointer = <<"B">>], AProp(<<"p", "openapiA">>, "x", "p"),
     ARef("TypeRef.Target", "t", "scalar", <<<<>>>>), ARef("Callback.Operations", "op", "slice", <<AnID("op", <<"A">>), AnID("op", <<"B">>)>>),
     NamingOf(<<"y", "y">>), NamingOf(<<"?">>), [NamingOf(<<>>) EXCEPT !.derived = FALSE], [NamingOf(<<>>) EXCEPT !.source = "", !.canonical = ""],
     [type |-> "List", rule |-> "set", texts |-> <<"x", " ">>, at |-> <<"l">>], [type |-> "Cycle", at |-> <<"y">>],
     [type |-> "Docs", text |-> <<"start", "rest">>, refs |-> <<[start |-> 0, end |-> 1]>>, at |-> <<"x">>],
     ProvenanceOf(1, 0, FALSE), ProvenanceOf(-1, 0, TRUE), ProvenanceOf(0, -1, FALSE), RawOf("nil", "unknown"), RawOf("{}", "invented"),
     OpOf({1}, "", ""), OpOf({0}, "invented", ""), OpOf({}, "", "invented"), ValueWith("number", {}), ValueWith("null", {"Str"}), ValueWith("invented", {}),
     [type |-> "BigVal", literal |-> "not-numeric", empty |-> TRUE, byPointer |-> TRUE, at |-> <<"g">>],
     [type |-> "Inferred", canonical |-> FALSE, part |-> FALSE, marked |-> TRUE, filename |-> FALSE, at |-> <<"i">>],
     [type |-> "Idempotency", kind |-> "header", token |-> "p", at |-> <<"k">>],
     [type |-> "HTTPBinding", webhook |-> TRUE, template |-> TRUE, event |-> TRUE, at |-> <<"h">>]}
TakeDefects == case = Start("defects") /\ \E a, b \in Defects : Take([of |-> "defects", a |-> a, b |-> b])
Damaged == [class : {"op", "p", "s", "g", "param", "e"}, path : {<<"Z">>, <<"Z", "B">>}]
TakeDamaged == case = Start("damaged") /\
    \E d \in Damaged : Take([of |-> "damaged", n |-> [AProp(<<>>, "x", "z") EXCEPT !.class = d.class, !.type = IF d.class = "p" THEN @ ELSE "Node", !.id = <<d.class, IF d.class = "s" THEN "anon" ELSE "openapi">> \o d.path, !.pointer = d.path]])
TakeDuplicates == case = Start("duplicates") /\
    \E n \in [1 .. 4 -> {<<"p", "1">>, <<"p", "2">>, <<"p", "">>, <<"g", "1">>}], f \in [1 .. 4 -> {"x", "y", "z"}] :
      Take([of |-> "duplicates",
            nodes |-> [i \in 1 .. 4 |-> [AProp(IF n[i][2] = "" THEN <<>> ELSE AnID(n[i][1], <<n[i][2]>>), f[i], ToString(i))
                                          EXCEPT !.class = n[i][1], !.type = IF n[i][1] = "p" THEN @ ELSE "Node"]]])
Positions0 == {<<"TypeRef.Target", "t", "scalar">>, <<"Discriminator.Property", "p", "scalar">>, <<"Discriminator.Default", "t", "scalar">>,
               <<"Operation.OverloadOf", "op", "pointer">>, <<"Service.Servers", "server", "slice">>, <<"Callback.Operations", "op", "slice">>,
               <<"SchemeUse.Scheme", "auth", "scalar">>, <<"Service.Renames", "t", "key">>, <<"Discriminator.Mapping", "t", "value">>}
TakeRef == case = Start("ref") /\
    \E p \in Positions0, one \in {<<>>, TypeA, AnID("op", <<"A">>), AnID("t", <<"B">>)}, two \in {<<>>, TypeA}, nil, named, cut \in BOOLEAN :
      /\ nil => p[3] = "pointer"
      /\ Take([of |-> "ref", cut |-> cut,
               r |-> [ARef(p[1], p[2], p[3], IF p[3] \in {"slice", "value"} THEN <<one, two>> ELSE <<one>>) EXCEPT !.nil = nil, !.index = named]])
TakeList == case = Start("list") /\ \E l \in Texts({"", " ", "x", "y"}, 4) : Take([of |-> "list", l |-> l])
Spans == {[start |-> a, end |-> b] : a \in -1 .. 3, b \in {0, 2, 3, 4, 5}}
TakeSpans == case = Start("spans") /\ \E a, b, c \in Spans : Take([of |-> "spans", refs |-> <<a, b, c>>])
TakeStored == case = Start("stored") /\
    \E a, b \in Defects \cup {RawOf("null", "unknown"), ValueWith("list", {})}, nil \in BOOLEAN, v \in {"read", "absent", "foreign"}, cut \in BOOLEAN :
      Take([of |-> "stored", doc |-> [CleanDoc EXCEPT !.nodes = @ \o <<a, b>>, !.version = v, !.truncated = cut,
                                                      !.types[TypeA].kind = IF nil THEN "nil" ELSE @]])

\* Verify: what is found of two defects is what is found of each.
DefectsReported == case.of = "defects" /\ case.a.at # case.b.at => DefectsAdd(CleanDoc, case.a, case.b)
\* checkDuplicateIDs tells copies from rivals.
DuplicatesTold == case.of = "duplicates" => DuplicatesExact([CleanDoc EXCEPT !.nodes = case.nodes])
\* A damaged ID is found in every class.
DamageTold == case.of = "damaged" => DamagedFound(CleanDoc, case.n, IF case.n.class = "s" THEN "openapi" ELSE "anon")
\* An ID that names nothing is reported by one check.
RefsToldOnce == case.of = "ref" => RefJudgedOnce([CleanDoc EXCEPT !.truncated = case.cut], case.r)
\* What is reported of a list can be dropped.
ListsRepaired == /\ case.of = "list" => ListRepaired(case.l, "x")
                 /\ case.of = "spans" => SpansSpliced(case.refs, <<"start", "rest", "start", "start">>)
\* A clean document survives JSON.
CleanStored == case.of = "stored" => CleanRoundTrips(case.doc)

----------------------------------------------------------------------------
\* Reads of one of three places, two of them below the directory, while at most
\* one thing happens beside each.
SourceAt(form, p, n) == [form |-> form, place |-> p, size |-> n]
Held == {NewMemory(s) : s \in {x \in UNION {[1 .. n -> {SourceAt("path", "a", 1), SourceAt("file", "a", 2), SourceAt("url", "a", 1)}] :
                                            n \in 0 .. 2} : ~NewMemoryRefuses(x)}}
Requests == {q \in [by : {"disk", "source", "layered"}, form : {"empty", "path", "file", "bad file", "url"}, place : {"a", "c"},
                     within : BOOLEAN, limit : {0, 1, 2, MaxLimit}] :
               /\ q.by = "source" => q.form = "path" /\ ~q.within
               /\ q.form \in {"empty", "bad file", "url"} => q.place = "a"
               /\ q.by = "layered" => q.limit = 1}
Trees == {t \in [Places -> {Nothing, Fifo, FileOf(1), FileOf(3), LinkTo("b"), LinkTo("c")}] :
            t["b"] \in {Fifo, FileOf(1)} /\ t["c"] \in {FileOf(3), LinkTo("b")}}
NoRead == Idle([by |-> "disk", form |-> "empty", place |-> "a", within |-> FALSE, limit |-> 0], <<>>)
TakeRead == /\ case = Start("read")
            /\ ReadStep \/ (read.quiet /\ Beside)
            /\ UNCHANGED <<case, loadVars>>
URIs == [path : {"", "p"}, user : BOOLEAN, host : {"", "localhost", "h"}, query : BOOLEAN, escapes : SUBSET {"%2f", "%5c"},
         opens : {"/", "//", "/c:/", "/c:x"}]
TakeURI == case = Start("uri") /\ \E u \in URIs, w \in BOOLEAN : Take([of |-> "uri", u |-> u, windows |-> w])
\* filePathOf names one local file or none.
FileURIsJudged == case.of = "uri" => FileURIsLocal(case.u, case.windows)

----------------------------------------------------------------------------
\* Paths below, above and beside the working directory, and a URL.
DocPaths == {[spelled |-> x[1], url |-> x[2], root |-> x[3], up |-> x[4], segs |-> x[5]] :
               x \in {<<"", FALSE, FALSE, FALSE, <<>>>>, <<"u:a", TRUE, FALSE, FALSE, <<"a">>>>, <<"./a", FALSE, FALSE, FALSE, <<"a">>>>,
                      <<"a", FALSE, FALSE, FALSE, <<"a">>>>, <<"b/../a", FALSE, FALSE, FALSE, <<"a">>>>, <<"../w/a", FALSE, FALSE, TRUE, <<"w", "a">>>>,
                      <<"../a", FALSE, FALSE, TRUE, <<"a">>>>, <<"/w/a", FALSE, TRUE, FALSE, <<"w", "a">>>>, <<"/a", FALSE, TRUE, FALSE, <<"a">>>>,
                      <<"../b/../w/a", FALSE, FALSE, TRUE, <<"w", "a">>>>}}
TakePathPair == case = Start("documents") /\ \E a, b \in DocPaths : Take([of |-> "documents", a |-> a, b |-> b])
TakeFragment == case = Start("fragment") /\ \E t \in Texts({"a", "+", "%2B", "%zz", "#"}, 4) : Take([of |-> "fragment", f |-> t])
Tokens0 == {<<>>, <<"a">>, <<"/">>, <<"~", "1">>, <<"2">>}
IDPlaces == {[label |-> l, at |-> t] : l \in {<<>>, <<"a">>, <<"a", "/">>},
                                       t \in UNION {[1 .. n -> Tokens0] : n \in 0 .. 2} \cup {<<<<"components">>, <<"schemas">>, x>> : x \in Tokens0}}
TakeIDs == case = Start("ids") /\ \E x, y \in IDPlaces : Take([of |-> "ids", x |-> x, y |-> y])

\* Chains of up to three references over two documents, a pointer passing
\* through one of them.
RefEntry(e, home, to, uri, resolved, passes) ==
    [home |-> home, ref |-> to # 0, to |-> to, uri |-> uri, resolved |-> resolved, passes |-> passes, pointer |-> TRUE,
     beside |-> FALSE, docs |-> IF uri = "source" THEN ToString(e) ELSE ""]
Inline(e, home) == RefEntry(e, home, 0, "none", "none", 0)
Through(e) == {0, 1, 3}
RefsAt(e, home) ==
    {RefEntry(e, home, e + 1, "source", "source", p) : p \in Through(e)}
    \cup {RefEntry(e, home, e + 1, "other", "other", 0)}
    \cup {RefEntry(e, home, e + 1, "none", "source", p) : p \in Through(e)}
    \cup (IF home = "other" THEN {RefEntry(e, home, e + 1, "none", "other", 0)} ELSE {})
Homes == {"source", "other"}
EntriesAt(e) == UNION {RefsAt(e, h) \cup {Inline(e, h)} : h \in Homes}
Guarded(x) == {[x EXCEPT !.beside = b, !.pointer = p] : b \in BOOLEAN, p \in {TRUE, x.uri # "none"}}
AdoptAt(e) == UNION {Guarded(x) : x \in {y \in EntriesAt(e) : y.passes = 0}}
TakeChain == case = Start("chain") /\ \E a \in EntriesAt(1), b \in EntriesAt(2), c \in EntriesAt(3), h \in Homes :
    Consistent(<<a, b, c, Inline(4, h)>>) /\ Take([of |-> "chain", w |-> <<a, b, c, Inline(4, h)>>])
TakeAdopt == case = Start("adopt") /\ \E a \in AdoptAt(1), b \in AdoptAt(2), c \in AdoptAt(3), h \in Homes, g \in BOOLEAN :
    LET w == <<a, b, c, [Inline(4, h) EXCEPT !.beside = g]>> IN Consistent(w) /\ Take([of |-> "chain", w |-> w])

\* Models of four nodes: the root, two of any kind, and a raw mapping.
KidsOf(below) == UNION {[t -> below] : t \in SUBSET {"a", "b"}}
ModelNode(kind, kids, raw, stands) == [kind |-> kind, kids |-> kids, raw |-> raw, stands |-> stands]
ModelNodes(n) ==
    {ModelNode("object", k, r, 0) : k \in KidsOf({5 - n}), r \in {0, 4}}
    \cup {ModelNode("ref", <<>>, 0, s) : s \in {0, 5 - n, 4}}
    \cup {ModelNode("schema", <<>>, r, 0) : r \in {0, 4}} \cup {ModelNode("scalar", <<>>, 0, 0), ModelNode("nil", <<>>, 0, 0)}
TakeModelWalk == case = Start("modelwalk") /\
    \E k \in KidsOf({2, 3}), r \in {0, 4}, x \in ModelNodes(2), y \in ModelNodes(3), z \in SUBSET {"a"}, t \in Texts({"a", "b"}, 3) \ {<<>>} :
      (r = 4 => z = {"a"}) /\ Take([of |-> "modelwalk", t |-> t,
            m |-> <<ModelNode("object", k, r, 0), x, y, ModelNode("raw", [i \in z |-> 4], 0, 0)>>])
SchemaPlaces == {<<<<"components">>, <<"schemas">>, x>> : x \in {<<"A">>, <<"B">>, <<>>}} \cup {<<<<"paths">>, <<"x">>>>}
TakeSchemaRef == case = Start("schemaref") /\
    \E h \in [entry : BOOLEAN, status : {"resolved", "missing"}, member : BOOLEAN, named : BOOLEAN, doc : Homes,
              spelled : SchemaPlaces, target : SchemaPlaces, decl : {"none", "body", "bool", "null"}] :
      Take([of |-> "schemaref", h |-> h])

\* SameDocument tells documents apart.
DocumentsApart == case.of = "documents" => DocumentsToldApart(case.a, case.b)
\* fragment.Pointer reads escapes and nothing else.
FragmentsSpelled == case.of = "fragment" => FragmentsRead(case.f)
\* ids: one ID for each position.
IDsInjective == case.of = "ids" => IDsApart(case.x, case.y, {case.x.label, case.y.label})
\* A chain's end is read in the document that holds it.
ScopesTrue == case.of = "chain" => ScopesHeld(case.w)
\* A pointer is adopted where the whole chain is in the source.
PointersTrue == case.of = "chain" => PointersAdopted(case.w)
\* locate finds the references the resolver's walk passes.
WalksLocated == case.of = "modelwalk" => WalkLocated(case.m, case.t)
\* NamesReferent answers as resolveSchemaRef.
ReferentsNamed == case.of = "schemaref" => ReferentsAgree(case.h, {<<"A">>})

----------------------------------------------------------------------------
\* A source and three other documents, two of them named by absolute URIs.
B == INSTANCE Bind WITH Absolute <- {"u", "v"}, MaxRereads <- 8
RefTo(uri, at) == [uri |-> uri, at |-> at]
SourceDoc(a, b, id, map) == [fails |-> "", ids |-> (0 :> "") @@ (1 :> id) @@ (2 :> ""), refs |-> (0 :> B!NoRef) @@ (1 :> a) @@ (2 :> b),
                             maps |-> (0 :> B!NoRef) @@ (1 :> map) @@ (2 :> B!NoRef)]
OtherDoc(id0, id1, ref0, ref1) == [fails |-> "", ids |-> (0 :> id0) @@ (1 :> id1), refs |-> (0 :> ref0) @@ (1 :> ref1),
                                   maps |-> (0 :> B!NoRef) @@ (1 :> B!NoRef)]
FailingDoc(why) == [OtherDoc("", "", B!NoRef, B!NoRef) EXCEPT !.fails = why]
SourceDocs == {SourceDoc(RefTo("u", 0), b, id, m) : b \in {RefTo("", 1), RefTo("a", 0), RefTo("v", 1)}, id \in {"", "v"}, m \in {B!NoRef, RefTo("v", 1)}}
              \cup {SourceDoc(RefTo("", 2), RefTo("", 1), "", B!NoRef), SourceDoc(RefTo("a", 1), RefTo("", 1), "", RefTo("u", 1))}
OtherDocs == {OtherDoc(i[1], i[2], r[1], r[2]) : i \in {<<"", "">>, <<"u", "u">>, <<"", "v">>},
                                                  r \in {<<B!NoRef, B!NoRef>>, <<RefTo("a", 0), B!NoRef>>, <<RefTo("v", 1), RefTo("u", 0)>>, <<RefTo("", 1), RefTo("a", 1)>>}}
TableOf(w, order, limit) == B!Bind(w, order, limit, TRUE)
InOrder == <<"a", "u", "v">>
TakeBind == case = Start("bind") /\
    \E s \in SourceDocs, a \in OtherDocs, u \in OtherDocs \cup {FailingDoc("Unreadable")}, v \in OtherDocs \cup {FailingDoc("Empty")} :
      LET w == [s |-> s, a |-> a, u |-> u, v |-> v] IN
      /\ a.ids[1] = "u" \/ u.ids[1] = "" \/ v.refs[1] = B!NoRef
      /\ s.maps[1] = B!NoRef => a.refs[0] # B!NoRef
      /\ u.refs[0] = a.refs[0] => u.ids = v.ids
      /\ u.refs[0] = v.refs[0] => a.ids = v.ids
      /\ Take([of |-> "bind", w |-> w])

\* Bind's passes end in one that stands by itself, whose chains answer as their
\* hops do; no order of the documents reaches an answer, an identifier is not
\* fetched, a landing is its least site's, and a budget cuts answers and changes
\* none.
TablesStand == case.of = "bind" =>
    LET b == TableOf(case.w, InOrder, -1)
    IN  /\ B!StandsByItself(b)
        /\ B!ChainsFollowed(b)
        /\ B!SameInAnyOrder(b, TableOf(case.w, <<"v", "u", "a">>, -1))
        /\ B!NeverFetched(b)
        /\ B!AttributedLeast(b)
        /\ \A limit \in {6, 10} : B!CutHonestly(TableOf(case.w, InOrder, limit), b)

----------------------------------------------------------------------------
\* A document of four nodes, one below another and a fork, asked in three orders.
\* No schema whose `$id` roots nothing hides another or, being the document's own
\* URI, names a dialect: enterIn answers those otherwise than enter (see the
\* README).
A == INSTANCE Bases WITH MaxThrough <- 2
SchemaNode(schema, tuple, id, old, ref, hidden, dialect) ==
    [schema |-> schema, tuple |-> tuple, id |-> id, old |-> old, ref |-> ref, hidden |-> hidden, dialect |-> dialect]
PlainNode == SchemaNode(FALSE, FALSE, "", "", FALSE, FALSE, "")
SchemaNodes == {SchemaNode(TRUE, FALSE, i, "", FALSE, h, d) : i \in {"", "rel", "abs"}, h \in {FALSE}, d \in {"", "old"}}
               \cup {SchemaNode(TRUE, FALSE, "", "", FALSE, TRUE, d) : d \in {"", "old"}} \cup {SchemaNode(TRUE, FALSE, "own", "", FALSE, TRUE, "")}
               \cup {SchemaNode(TRUE, FALSE, "", o, r, FALSE, d) : o \in {"rel", "abs"}, r \in BOOLEAN, d \in {"", "old", "none"}}
               \cup {PlainNode, SchemaNode(FALSE, TRUE, "rel", "rel", FALSE, FALSE, "")}
BaseTree(a, b, c) == (<<>> :> PlainNode) @@ (<<1>> :> a) @@ (<<1, 1>> :> b) @@ (<<1, 1, 1>> :> c) @@ (<<1, 2>> :> SchemaNode(TRUE, FALSE, "", "", FALSE, FALSE, ""))
Askings == {<<<<1, 1, 1, 1>>, <<1, 2>>, <<1>>, <<1, 1>>>>, <<<<1>>, <<1, 1, 1>>, <<>>, <<1, 1>>>>, <<<<1, 2>>, <<1, 1, 1>>, <<1, 1, 1, 1>>, <<1>>>>}
TakeBases == case = Start("bases") /\
    \E a, b \in SchemaNodes, c \in {x \in SchemaNodes : ~x.hidden /\ x.dialect # "none"} : Take([of |-> "bases", t |-> BaseTree(a, b, c)])
Levels == [modelled : BOOLEAN, defs : BOOLEAN, holds : {"no", "yes", "past"}]
TakeDefs == case = Start("defs") /\ \E r \in {"no", "yes", "past"}, a, b, c \in Levels, schema, single \in BOOLEAN :
    Take([of |-> "defs", levels |-> <<[modelled |-> TRUE, defs |-> FALSE, holds |-> r], a, b, c>>, schema |-> schema, single |-> single])
ReadNodes == {<<>>, <<1>>, <<2>>, <<3>>, <<1, 1>>, <<2, 1>>, <<3, 1>>, <<1, 1, 1>>}
EndOfRef == [pointer : {<<1>>, <<2>>, <<3, 1>>, <<1, 1>>, <<2, 1, 1>>}, node : {A!Nil}] \cup {[pointer |-> <<2, 1>>, node |-> <<2>>], [pointer |-> A!Nil, node |-> A!Nil]}
TakeThrough == case = Start("through") /\
    \E d \in SUBSET {<<1>>, <<2>>, <<1, 1>>, <<2, 1>>} : \E e \in [d -> EndOfRef] :
      LET w == [nodes |-> ReadNodes, ends |-> e] IN A!EndsResolved(w) /\ Take([of |-> "through", w |-> w])
WalkRoots == [at : {<<>>, <<1>>, <<2>>, <<1, 1>>, <<2, 1>>}, state : {"object", "schema"}]
TakeRoots == case = Start("roots") /\ \E a, b, c \in WalkRoots : Take([of |-> "roots", rs |-> <<a, b, c>>])

\* Base answers as a walk from the root.
BasesRemembered == case.of = "bases" => \A q \in Askings : A!AsWalkedFromRoot(case.t, q)
\* Every base is declared.
BasesNamed == case.of = "bases" => A!BasesDeclared(case.t)
\* An identifier lends no read.
ReadsRefused == case.of = "bases" => A!RefusalsHeld(case.t)
\* The nearest definition answers, never the asker's own.
DefsNearest == case.of = "defs" => A!DefinedNearest(case.levels, case.schema, case.single)
\* A pointer's read is placed at one position.
PlacesOwn == case.of = "through" => \A p \in {<<1, 1>>, <<2, 1>>, <<1, 1, 1>>, <<2, 1, 1>>} : A!ReadsPlaced(case.w, p)
\* Roots walk alike in any order.
RootsAgree == case.of = "roots" => A!WalksAgree({<<>>, <<1>>, <<2>>, <<1, 1>>, <<1, 2>>, <<1, 3>>, <<2, 1>>, <<2, 1, 1>>}, case.rs)

----------------------------------------------------------------------------
\* Two readers of three documents, one read under two spellings.
SpelledBySource == {<<"q", 2>>, <<"self", 1>>}
RequestKey(u) == IF u = "U" THEN "u" ELSE u
SpellingsIn(k) == CASE k = "u" -> {<<"p", 1>>, <<"q", 1>>} [] k = "v" -> {<<"q", 2>>, <<"p", 3>>} [] OTHER -> {}
X == INSTANCE External WITH MaxResolutionHops <- 2, MaxResumeWork <- 6
TakeReading == case = Start("external") /\ LoadNext /\ UNCHANGED <<case, tree, read>>
ChainsOf(n) == [n : {n}, in : [1 .. n -> BOOLEAN], bytes : SUBSET (1 .. n), stands : SUBSET (1 .. n - 1), cost : {1, 3}]
TakeSettle == case = Start("settle") /\ \E w \in UNION {ChainsOf(n) : n \in 1 .. 4} : Take([of |-> "settle", w |-> w])
TakeEnds == case = Start("ends") /\ \E next \in [1 .. 5 -> 0 .. 5], q \in {<<1, 2, 3>>, <<5, 1, 4>>} : Take([of |-> "ends", next |-> next, asked |-> q])
RefLists == {<<>>} \cup {<<a>> : a \in 1 .. 3} \cup {<<1, 2>>, <<2, 3>>, <<3, 3>>}
TakeAway == case = Start("away") /\ \E refs \in [1 .. 3 -> RefLists], src \in {<<1>>, <<2, 1>>, <<3, 3>>} : Take([of |-> "away", refs |-> refs, source |-> src])
TargetAt(site, node, kind, doc) == [site |-> site, node |-> node, kind |-> kind, doc |-> doc, inSource |-> doc = "s", span |-> node, findings |-> {ToString(node), kind}]
TakeReached == case = Start("reached") /\
    \E n \in [1 .. 4 -> 1 .. 3], d \in [1 .. 3 -> {"s", "d"}], other \in {0, 4}, limit \in {2, 3, 9}, seen \in {{}, {<<1, "schema">>}}, judged \in {{}, {"2"}} :
      Take([of |-> "reached", walk |-> [i \in 1 .. 4 |-> TargetAt(i, n[i], IF i = other THEN "response" ELSE "schema", d[n[i]])], limit |-> limit, seen |-> seen, judged |-> judged])
PairsOf(S) == UNION {[1 .. n -> {"a", "b", "<<"} \X S] : n \in 1 .. 2}
TakePriced == case = Start("priced") /\
    \E a \in PairsOf({0, 2, 3}), b \in PairsOf({0, 3}), c \in {<<<<"a", 0>>>>, <<<<"b", 0>>, <<"a", 4>>>>}, p \in {<<"a">>, <<"b", "a">>, <<"a", "b", "a">>} :
      Take([of |-> "priced", t |-> <<a, b, c, <<<<"b", 0>>>>>>, parts |-> p])

LocalMaps == [ref : BOOLEAN, id : BOOLEAN, old : BOOLEAN, dialect : {"", "old", "new"}]
TakeRemote == case = Start("remote") /\ \E a, b \in LocalMaps, d \in {"", "old", "new"} : Take([of |-> "remote", doc |-> [maps |-> <<a, b>>, dialect |-> d]])

\* A remote document reads nothing local.
RemoteConfined == case.of = "remote" => X!RemoteStaysRemote(case.doc)
\* Stalled chains settle.
ChainsResumed == case.of = "settle" => X!ChainSettles(case.w)
\* Cut chains end where they lead.
CutChainsEnd == case.of = "ends" => X!EndsFollowed(case.next, case.asked)
\* Objects elsewhere are all walked.
AwayWalked == case.of = "away" => X!AwayBounded(case.refs, case.source)
\* Checks of reached objects follow no order.
ReachedOnce == case.of = "reached" => X!ReachedAlike(case.walk, case.seen, case.limit, case.judged)
\* Tree reads are priced as made.
TreeReadsPriced == case.of = "priced" => \A limit \in {2, 5, 99} : X!ReadsPriced(case.t, case.parts, limit)

----------------------------------------------------------------------------
(* Merge *)
G == INSTANCE Merge WITH MaxJudgeDepth <- 3, MaxFold <- 3, MaxComposedParts <- 8, MaxStepDigits <- 5, StepFactorsPerDigit <- 4
DecimalsIn(cs, es) == {[c |-> c, e |-> e] : c \in cs, e \in es}
TakeSteps == case = Start("steps") /\ \E a, b \in DecimalsIn({1, 3, 8, 16, 125}, -1 .. 4) : Take([of |-> "steps", a |-> a, b |-> b])
Keyed(S) == {[G!None EXCEPT ![p[1]] = <<p[2]>>] : p \in S}
BoundSets == {G!None} \cup Keyed({"min"} \X {0, 10, 900001} \cup {"max"} \X {30} \cup {"step"} \X {4, 6, 1230, 4570} \cup {"scale"} \X {0, 1})
             \cup Keyed({"pattern"} \X {"x", "date"}) \cup {[G!None EXCEPT !.unique = TRUE, !.minItems = <<1>>]}
             \cup {[G!None EXCEPT !.min = <<10>>, !.step = <<6>>, !.scale = <<0>>], [G!None EXCEPT !.scale = <<1>>, !.pattern = <<"x">>]}
TakeBounds == case = Start("bounds") /\ \E a, b, c \in BoundSets : Take([of |-> "bounds", sets |-> <<a, b, c>>])

Val(k, n, t, l) == [k |-> k, n |-> n, s |-> t, l |-> l]
Null == Val("null", 0, "", <<>>)
Num(n) == Val("number", n, "", <<>>)
Str(t) == Val("string", 0, t, <<>>)
Arr(l) == Val("list", 0, "", l)
Obj(t, l) == Val("object", 0, t, l)
Values == {Null, Val("bool", 1, "", <<>>)} \cup {Num(n) : n \in {-10, 0, 5, 10, 12, 20, 30, 40, 1280, 3000}}
          \cup {Str(t) : t \in {"x", "date", "time"}}
          \cup {Arr(l) : l \in {<<>>, <<Num(10)>>, <<Num(10), Num(10)>>, <<Num(3000)>>, <<Str("x")>>, <<Null>>, <<Num(10), Str("x")>>, <<Null, Num(3000)>>}}
          \cup {Obj("o1", <<Num(10)>>), Obj("o2", <<Str("x")>>), Obj("o3", <<>>)}
Ref(t, n) == [target |-> t, nullable |-> n]
Nd(kind) == [kind |-> kind, prim |-> "", base |-> 0, enc |-> "", members |-> <<>>, value |-> Null, elem |-> Ref(1, FALSE), elems |-> <<>>,
             c |-> G!None, detail |-> "", keeps |-> FALSE, mixins |-> <<>>, open |-> TRUE, own |-> {}, disc |-> FALSE,
             anon |-> FALSE, at |-> <<"s", "c">>]
Prim(k) == [Nd("prim") EXCEPT !.prim = k]
ScalarOf(b, c) == [Nd("scalar") EXCEPT !.base = b, !.c = c]
AtSite(t, site) == [t EXCEPT !.anon = TRUE, !.at = site \o <<"n">>]
Site1 == <<"s", "p1">>
Site2 == <<"s", "p2">>
Site3 == <<"t", "p2">>
MinZero == [G!None EXCEPT !.min = <<0>>]
ListOf(t, n) == [Nd("list") EXCEPT !.elem = Ref(t, n)]
ModelOf(own, open) == [Nd("model") EXCEPT !.own = own, !.open = open]
Types == <<Prim("any"), Prim("string"), Prim("date"), Prim("bytes"), Prim("number"), Prim("integer"), Prim("int8"), Prim("uint8"),
           Nd("any"), AtSite(ScalarOf(5, MinZero), Site1), ScalarOf(5, [G!None EXCEPT !.max = <<20>>]), AtSite(ScalarOf(5, MinZero), Site2),
           [ScalarOf(2, G!None) EXCEPT !.enc = "time"], [Nd("enum") EXCEPT !.prim = "integer", !.members = <<Num(3000), Num(10)>>],
           [Nd("enum") EXCEPT !.prim = "string", !.members = <<Str("date")>>], [Nd("literal") EXCEPT !.value = Str("time")],
           [Nd("literal") EXCEPT !.value = Num(10)], ListOf(6, FALSE), AtSite(ListOf(7, FALSE), Site2),
           [ListOf(6, FALSE) EXCEPT !.c.minItems = <<1>>], ListOf(2, TRUE), ModelOf({}, TRUE), ModelOf({"o1", "o3"}, FALSE),
           [ModelOf({"o1"}, FALSE) EXCEPT !.mixins = <<23>>], AtSite(ModelOf({"o2", "o3"}, FALSE), Site2), ScalarOf(23, G!None),
           [Nd("map") EXCEPT !.elem = Ref(6, FALSE)], [Nd("tuple") EXCEPT !.elems = <<Ref(6, FALSE), Ref(2, FALSE)>>],
           ScalarOf(1, G!None), ListOf(30, FALSE), Nd("scalar"), [Nd("literal") EXCEPT !.value = Obj("o1", <<Num(10)>>)],
           AtSite([ScalarOf(2, G!None) EXCEPT !.enc = "time", !.keeps = TRUE], Site3),
           AtSite([ScalarOf(2, G!None) EXCEPT !.enc = "time", !.keeps = TRUE], Site1),
           ScalarOf(5, [G!None EXCEPT !.step = <<20>>]), ScalarOf(2, [G!None EXCEPT !.pattern = <<"x">>]),
           AtSite(ModelOf({}, TRUE), Site1), [ListOf(7, TRUE) EXCEPT !.c.unique = TRUE],
           [Nd("tuple") EXCEPT !.elems = <<Ref(6, FALSE), Ref(2, FALSE)>>, !.c.unique = TRUE], AtSite(ListOf(40, FALSE), Site1),
           Nd("union"), ListOf(6, TRUE)>>
TakeTypes == case = Start("types") /\ \E i, j \in DOMAIN Types, n \in BOOLEAN, w \in {<<Site1, Site2>>, <<Site1, Site3>>} :
    i <= j /\ Take([of |-> "types", a |-> Ref(i, FALSE), b |-> Ref(j, n), written |-> w])

ADecl(site, t) == [at |-> site, type |-> t, c |-> G!None, default |-> <<>>, docs |-> "", entry |-> <<>>,
                   visible |-> [none |-> FALSE, only |-> {}], required |-> FALSE]
Sites == <<Site1, Site2, Site3, <<"s", "p4">>>>
Extra(d, x) ==
    CASE x = 0 -> d
      [] x = 1 -> [d EXCEPT !.c.min = <<10>>, !.default = <<Num(10)>>, !.entry = <<[text |-> "r", keeps |-> TRUE, at |-> d.at]>>]
      [] x = 2 -> [d EXCEPT !.default = <<Num(0)>>, !.docs = "a", !.visible.only = {"read"}, !.entry = <<[text |-> "r", keeps |-> TRUE, at |-> d.at]>>]
      [] x = 3 -> [d EXCEPT !.c.step = <<4>>, !.c.scale = <<1>>, !.docs = "b", !.visible.only = {"create"}]
      [] x = 4 -> [d EXCEPT !.default = <<Arr(<<Num(10), Num(10)>>)>>, !.c.scale = <<2>>]
      [] x = 5 -> [d EXCEPT !.default = <<Null>>]
TakeFold == case = Start("fold") /\
    \/ \E t \in [1 .. 3 -> {1, 6, 10, 11, 12, 22, 23, 24, 25, 26, 35}], n \in {1, 2} :
         Take([of |-> "fold", decls |-> [i \in 1 .. 3 |-> ADecl(Sites[i], Ref(t[i], i <= n))]])
    \/ \E t \in [1 .. 3 -> {1, 5, 10, 11, 38}], x \in [1 .. 3 -> 0 .. 5] : x[1] <= 1 /\ x[3] \in {1, 4} /\
         Take([of |-> "fold", decls |-> [i \in 1 .. 3 |-> Extra(ADecl(Sites[i], Ref(t[i], FALSE)), x[i])] \o <<ADecl(Sites[4], Ref(2, FALSE))>>])
Branches == {<<>>, <<1>>, <<2>>, <<1, 1>>, <<1, 2>>, <<2, 1>>}
TakeFields == case = Start("fields") /\ \E p, m \in SUBSET Branches : Cardinality(p) \in 1 .. 4 /\ Take([of |-> "fields", paths |-> p, models |-> m])
DurationTexts == UNION {[1 .. n -> {"1", "Y", "M", "D", "T", "H", "S", "W"}] : n \in 0 .. 4}
TakeDuration == case = Start("duration") /\ \E c \in {"1", "Y", "T"} : Take([of |-> "duration", first |-> c])

\* Common steps are exact.
CommonSteps == case.of = "steps" => G!StepsExact(case.a, case.b, DecimalsIn({1, 2, 12, 24, 375}, 0 .. 4))
\* Bounds meet in any order.
BoundsMeet == case.of = "bounds" => G!BoundsMet(case.sets, Values)
\* Verdicts on types are true of their values.
VerdictsTrue == case.of = "types" => G!JudgedTrue(Types, case.a, case.b, case.written, Values)
\* Folding loses nothing in silence.
FoldCarries == case.of = "fold" => G!Carried(Types, case.decls, Nd("model"), Values)
\* Different sets of declarations are different fields.
FieldIdentities == case.of = "fields" => G!FieldsApart(case.paths, case.models)
\* Durations follow the grammar.
DurationGrammar == case.of = "duration" => G!DurationsRead(UNION {[1 .. n -> {"1"}] : n \in 1 .. 4}, {s \in DurationTexts : s = <<>> \/ s[1] = case.first})

----------------------------------------------------------------------------
(* Operations *)
KeyPlace(key) == CASE key = "bogus" -> 1 [] key = "odd" -> 2 [] OTHER -> 3
O == INSTANCE Operations WITH HttpMethods <- <<"get", "put">>, MaxUnknownKeys <- 2, EntryWeight <- 1, ServerWeight <- 2, KeyRank <- KeyPlace
Par(name, ref) == [slot |-> IF name = "" THEN <<>> ELSE <<"query", name>>, ref |-> ref, weight |-> IF name = "a" THEN 2 ELSE 3]
PlainOp == [params |-> <<>>, servers |-> <<>>, tags |-> <<>>, segment |-> "p", callbacks |-> <<>>]
OwnOp == [PlainOp EXCEPT !.params = <<Par("a", FALSE), Par("c", TRUE)>>, !.servers = <<<<"own">>>>]
RawKey(k, held) == [key |-> k, held |-> held, extension |-> k \in {"x-a", "x-b"}]
ItemOf(methods, extra, docs, servers, raw, params) ==
    [fixed |-> [m \in methods |-> IF m = "put" THEN OwnOp ELSE PlainOp],
     extra |-> [i \in DOMAIN extra |-> [key |-> extra[i], op |-> IF extra[i] = "NIL" THEN <<>> ELSE IF extra[i] = "MOVE" THEN <<OwnOp>> ELSE <<PlainOp>>]],
     docs |-> docs, servers |-> servers, raw |-> raw, params |-> params]
Docs(x, y) == [summary |-> x, description |-> y]
NoDocs == Docs("absent", "absent")
ItemPool == <<ItemOf({}, <<>>, NoDocs, <<>>, <<>>, <<>>),
              ItemOf({"get"}, <<>>, Docs("text", "absent"), <<>>, <<RawKey("get", TRUE), RawKey("x-a", FALSE)>>, <<Par("a", FALSE)>>),
              ItemOf({"put"}, <<"COPY", "LOCK">>, NoDocs, <<<<"s">>>>, <<RawKey("put", TRUE), RawKey("odd", FALSE)>>, <<Par("a", TRUE), Par("", TRUE)>>),
              ItemOf({}, <<"LOCK", "MOVE">>, Docs("absent", "text"), <<>>, <<RawKey("bogus", TRUE), RawKey("summary", FALSE)>>, <<>>),
              ItemOf({"get", "put"}, <<"COPY">>, NoDocs, <<>>, <<RawKey("x-a", FALSE), RawKey("x-b", FALSE), RawKey("odd", FALSE)>>,
                     <<Par("a", FALSE), Par("a", FALSE), Par("b", FALSE)>>),
              ItemOf({}, <<>>, Docs("text", "empty"), <<>>, <<RawKey("x-a", FALSE), RawKey("bogus", TRUE), RawKey("odd", FALSE), RawKey("tag", TRUE)>>,
                     <<Par("b", FALSE), Par("", TRUE)>>),
              ItemOf({}, <<>>, Docs("absent", "text"), <<<<>>, <<"t">>>>, <<RawKey("bogus", TRUE)>>, <<Par("a", FALSE), Par("a", TRUE)>>),
              ItemOf({"get"}, <<"NIL", "MOVE", "COPY">>, NoDocs, <<<<"u">>>>, <<>>, <<Par("b", FALSE), Par("c", FALSE)>>)>>
LayersOf(picks) == [i \in DOMAIN picks |-> [item |-> ItemPool[picks[i]], decl |-> <<"l" \o ToString(i)>>, doc |-> IF i = 3 THEN "other" ELSE "source"]]
TakeMount == case = Start("mount") /\ \E n \in 1 .. 3 : \E picks \in [1 .. n -> DOMAIN ItemPool] : Take([of |-> "mount", layers |-> LayersOf(picks)])
TakeMountCost == case = Start("mountcost") /\ \E i \in DOMAIN ItemPool, extra \in {<<"COPY", "MOVE", "LOCK">>, <<"COPY", "MOVE">>, <<"MOVE">>} :
    Take([of |-> "mountcost", layer |-> [item |-> [ItemPool[i] EXCEPT !.extra = ItemOf({}, extra, NoDocs, <<>>, <<>>, <<>>).extra], decl |-> <<"l">>, doc |-> "source"]])
HopOf(ptr, beside) == [item |-> ItemPool[2], decl |-> <<ptr>>, doc |-> "source", beside |-> beside]
TakeLayers == case = Start("layers") /\ \E n \in 1 .. 3 : \E b \in [1 .. n -> {"read", "unread", "none"}], end \in {"u", "h2", "h3", "e"}, d \in {"source", "other"} :
    Take([of |-> "layers", hops |-> [i \in 1 .. n |-> HopOf("h" \o ToString(i), b[i])], end |-> [item |-> ItemPool[3], decl |-> <<end>>, doc |-> d]])

KeyChars == {"/", "{", "}", "%", "a", "z", "?", "#", "^"}
ValidKeys == O!PathKeysOf(KeyChars, 5)
TakeKeys == case = Start("keys") /\ \E c, d \in KeyChars : Take([of |-> "keys", first |-> c, second |-> d])
KeysFrom(c, d) == {<<>>, <<c>>} \cup {<<c, d>> \o s : s \in UNION {[1 .. n -> KeyChars] : n \in 0 .. 3}}

ClaimsAt(n, d, m) == [node |-> n, decl |-> d, mount |-> m]
TakeIDClaims == case = Start("claims") /\ \E len \in 1 .. 4 : \E n \in [1 .. len -> 0 .. 2], d \in [1 .. len -> 1 .. 4], w \in [1 .. 3 -> 1 .. 2] :
    /\ len = 4 => n \in [1 .. 4 -> 1 .. 2] /\ w[3] = 2
    /\ \A i \in 1 .. len : d[i] \in {i, 1, 2}
    /\ \A i \in 1 .. len : (n[i] # 0 /\ d[i] = i /\ i <= 3) => w[i] \in {n[i], 2}
    /\ Take([of |-> "claims", claims |-> [i \in 1 .. len |-> ClaimsAt(n[i], d[i], i)], written |-> w])

TagDefs(names) == {[name |-> n, parent |-> p, kind |-> k] : n \in names, p \in {"", "t1", "t2", "t3"}, k \in {"", "badge"}}
TakeGroups == case = Start("groups") /\ \E a \in TagDefs({"t1"}), b \in TagDefs({"t2"}), c \in TagDefs({"t3"}), x \in {"t1", "t3", "t4"} :
    Take([of |-> "groups", tags |-> <<a, b, c, [a EXCEPT !.kind = "nav", !.parent = "t2"]>>,
          ops |-> <<[id |-> 1, tags |-> <<x, "t2">>, segment |-> "p"], [id |-> 2, tags |-> <<"t2">>, segment |-> "p"],
                    [id |-> 3, tags |-> <<"t1", "t3">>, segment |-> "p"], [id |-> 4, tags |-> <<>>, segment |-> "p"]>>])

StatusKeys == {<<a, b, c>> : a \in {"0", "2", "4", "5", "9", "X"}, b, c \in {"0", "4", "X", "x", "Y"}} \cup {<<"2">>, <<"2", "0", "0", "0">>}
TakeResponses == case = Start("responses") /\
    \/ \E k \in StatusKeys, d \in BOOLEAN : Take([of |-> "responses", entries |-> <<[key |-> k, resolves |-> TRUE]>>, default |-> d])
    \/ \E k \in [1 .. 3 -> {<<"4", "X", "X">>, <<"4", "x", "X">>, <<"4", "x", "x">>, <<"4", "0", "4">>, <<"2", "X", "0">>, <<"2", "0", "0">>}], gone \in 0 .. 3 :
         O!IsInjective(k) /\ Take([of |-> "responses", entries |-> [i \in 1 .. 3 |-> [key |-> k[i], resolves |-> i # gone]], default |-> TRUE])

ReqsOf(S) == {<<>>} \cup {<<r>> : r \in S}
ReqLists == {<<>>} \cup {<<l>> : l \in UNION {[1 .. n -> ReqsOf({{}, {"a"}, {"a", "b"}, {"c"}})] : n \in 0 .. 2}}
TakeSecurity == case = Start("security") /\ \E l, m \in ReqLists, e \in SUBSET {"a", "b"}, bad \in BOOLEAN :
    Take([of |-> "security", lists |-> <<l, m>>, entries |-> {[name |-> n, mechanism |-> ~(bad /\ n = "a")] : n \in e}])

Scalar(n) == [kind |-> "scalar", len |-> n, pairs |-> <<>>]
PairOf(token, v) == [key |-> 1, token |-> token, value |-> v]
CopyNodes == <<Scalar(1), Scalar(4), [kind |-> "map", len |-> 0, pairs |-> <<PairOf("schema", 2), PairOf("x", 2)>>],
               [kind |-> "list", len |-> 0, pairs |-> <<PairOf("", 3), PairOf("", 3)>>],
               [kind |-> "map", len |-> 0, pairs |-> <<PairOf("<<", 3), PairOf("schema", 4)>>]>>
CopyRoots == {[node |-> n, at |-> r] : n \in 2 .. 5, r \in {"raw", "object"}}
TakeCopies == case = Start("copies") /\ \E a, b, c \in CopyRoots : \E limit \in {5, 14, 20, 33, 60} :
    Take([of |-> "copies", copies |-> <<<<a>>, <<b, c>>, <<a>>>>, limit |-> limit])

CallItem(i) == [name |-> "cb" \o ToString(i), layers |-> LayersOf(<<i>>)]
ServiceItem(k, picks, tags, calls) ==
    [webhook |-> k = 3, mount |-> <<IF k = 3 THEN "webhooks" ELSE "paths", "p" \o ToString(k)>>,
     layers |-> LET ls == LayersOf(picks) IN [j \in DOMAIN ls |-> [ls[j] EXCEPT
         !.item.fixed = [m \in DOMAIN @ |-> [@[m] EXCEPT !.tags = tags, !.callbacks = calls]]]]]
TakeService == case = Start("service") /\ \E a \in {<<1>>, <<2>>, <<3, 5>>, <<8>>}, b \in {<<2>>, <<3, 5>>}, c \in {<<2>>, <<8>>}, t \in {<<>>, <<"t2">>},
        calls \in {<<>>, <<CallItem(2), CallItem(8)>>, <<CallItem(6)>>}, limit \in {9, 99} :
    Take([of |-> "service", limit |-> limit, doc |-> [servers |-> <<>>, tags |-> <<[name |-> "t2", parent |-> "t1", kind |-> ""], [name |-> "t1", parent |-> "", kind |-> ""]>>,
          items |-> <<ServiceItem(1, a, t, calls), ServiceItem(2, b, <<"t2">>, calls), ServiceItem(3, c, t, <<CallItem(2)>>)>>]])

\* A mount keeps each construct of its layers once.
LayersMount == case.of = "mount" => O!MountWhole(case.layers)
\* What a mount copies is charged in any order.
MountsPriced == case.of = "mountcost" => \A limit \in {0, 4, 9, 14, 20, 27} : O!MountPriced(case.layer, limit)
\* Layers never share a position.
LayersPlaced == case.of = "layers" => O!LayersApart(case.hops, <<"u">>, case.end)
\* Path keys follow the template grammar.
KeysTold == case.of = "keys" => O!KeysJudged(KeysFrom(case.first, case.second), ValidKeys)
\* Findings on operationIds follow no lowering order.
IDClaimsJudged == case.of = "claims" => O!IDsJudged(case.claims, case.written)
\* Groups are a forest, whatever the order of operations.
GroupsForest == case.of = "groups" => O!GroupsFiled(case.tags, case.ops)
\* Responses land by the status their key names.
StatusesLand == case.of = "responses" => O!ResponsesLand(case.entries, case.default)
\* Security demands what its document writes.
DemandsKept == case.of = "security" => O!SecurityKept(case.entries, case.lists)
\* Copies are priced in any order.
ExpansionPriced == case.of = "copies" => O!CopiesPriced(CopyNodes, case.copies, case.limit)
\* A service files every operation once.
ServicesWhole == case.of = "service" => O!ServiceWhole(case.doc, case.limit)

----------------------------------------------------------------------------
(* Schemas *)
S == INSTANCE Admission WITH MaxNullConjuncts <- 9, MaxFlattenDepth <- 2, Widening <- TRUE, MaxAdmissionReads <- 9, MaxAdmissionMembers <- 9,
                             MaxConjunctTypeReads <- 9, MaxRefinedConjuncts <- 3, MaxAncestorDepth <- 3
Tight == INSTANCE Admission WITH MaxNullConjuncts <- 2, MaxFlattenDepth <- 1, Widening <- FALSE, MaxAdmissionReads <- 2, MaxAdmissionMembers <- 2,
                                 MaxConjunctTypeReads <- 2, MaxRefinedConjuncts <- 3, MaxAncestorDepth <- 1
Bare == S!Blank
Stg == <<"string", "a">>
\* Schema 1 holds 2 and 3, and a $ref lands on 4, which another version may hold.
NullLeaves == {Bare, [Bare EXCEPT !.type = <<"string">>], [Bare EXCEPT !.type = <<"string">>, !.nullable = "true"], [Bare EXCEPT !.nullable = "true"],
    [Bare EXCEPT !.type = <<"string", "null">>], [Bare EXCEPT !.enum = <<<<<<"null">>, Stg>>>>, !.nullable = "true"], [Bare EXCEPT !.const = <<Stg>>], [Bare EXCEPT !.nullable = "false"],
    [Bare EXCEPT !.type = <<"null">>], [Bare EXCEPT !.ref = 4], [Bare EXCEPT !.ref = 4, !.nullable = "true", !.type = <<"string">>]}
NullEnds == {[Bare EXCEPT !.type = <<"string">>, !.nullable = "true"], [Bare EXCEPT !.type = <<"string">>], [Bare EXCEPT !.ref = 5, !.nullable = "true"], [Bare EXCEPT !.form = "false"],
    [Bare EXCEPT !.allOf = <<5>>, !.type = <<"string", "null">>]}
NullRoots == {Bare, [Bare EXCEPT !.type = <<"string">>], [Bare EXCEPT !.nullable = "true"], [Bare EXCEPT !.type = <<"string", "null">>, !.enum = <<<<Stg>>>>]}
TakeNulls == case = Start("nulls") /\ \E r \in NullRoots, a, b \in NullLeaves, e \in NullEnds, d \in {<<"3.0", "3.0">>, <<"3.0", "3.1">>, <<"3.1", "3.0">>}, shape \in {"flat", "nested", "union", "ref"} :
    /\ shape = "ref" => a = Bare /\ b = Bare
    /\ (a.ref = 0 /\ b.ref = 0 /\ shape # "ref") => e = [Bare EXCEPT !.type = <<"string">>]
    /\ Take([of |-> "nulls", world |-> [i \in 1 .. 5 |-> [(CASE i = 1 -> (CASE shape = "flat" -> [r EXCEPT !.allOf = <<2, 3>>] [] shape = "nested" -> [r EXCEPT !.allOf = <<2>>]
                                                               [] shape = "union" -> [r EXCEPT !.anyOf = <<2, 3>>] [] OTHER -> [r EXCEPT !.ref = 4])
                                          [] i = 2 -> (IF shape = "nested" THEN [a EXCEPT !.allOf = <<3>>] ELSE a) [] i = 3 -> b [] i = 4 -> e
                                          [] OTHER -> [Bare EXCEPT !.nullable = "true", !.type = <<"string">>]) EXCEPT !.doc = IF i >= 4 THEN d[2] ELSE d[1]]]])
\* Compositions of three branches, the second a wrapper of the third where nested.
VoiceLeaves == {Bare, [Bare EXCEPT !.note = "x", !.minimum = <<1>>], [Bare EXCEPT !.note = "x"], [Bare EXCEPT !.minimum = <<2>>], [Bare EXCEPT !.minimum = <<-1>>],
    [Bare EXCEPT !.pattern = <<1>>, !.note = "x"], [Bare EXCEPT !.pattern = <<2>>], [Bare EXCEPT !.pattern = <<1>>, !.nullable = "true"], [Bare EXCEPT !.not = "relative", !.ident = 2], [Bare EXCEPT !.not = "garbled", !.note = "y"],
    [Bare EXCEPT !.not = "relative", !.ident = 1], [Bare EXCEPT !.not = "relative"]}
TakeVoices == case = Start("voices") /\ \E own \in {Bare, [Bare EXCEPT !.note = "x", !.pattern = <<2>>]}, b \in [2 .. 4 -> VoiceLeaves], nested \in BOOLEAN :
    Take([of |-> "voices", world |-> [i \in 1 .. 4 |-> IF i = 1 THEN [own EXCEPT !.allOf = IF nested THEN <<2, 3>> ELSE <<2, 3, 4>>]
                                                     ELSE IF i = 3 /\ nested THEN [b[3] EXCEPT !.allOf = <<4>>] ELSE b[i]]])
\* The values the readings are asked about, and the schemas that tell them apart.
Instances == {<<"null">>, Stg, <<"string", "b">>, <<"integer", "1">>, <<"integer", "big">>, <<"integer", "e">>, <<"fraction", "f">>, <<"array">>, <<"array", "integer", "1">>,
              <<"array", "integer", "big">>, <<"array", "fraction", "f">>, <<"array", "string", "a">>, <<"object">>, <<"object", "string", "a">>, <<"object", "integer", "1">>}
IntOf(format) == [Bare EXCEPT !.type = <<"integer">>, !.format = format]
ListFor(items) == [Bare EXCEPT !.type = <<"array">>, !.items = items]
AdmissionLeaves == {Bare, [Bare EXCEPT !.type = <<"string">>, !.note = "x"], [Bare EXCEPT !.type = <<"string", "null">>], [Bare EXCEPT !.enum = <<<<Stg>>>>], [Bare EXCEPT !.enum = <<<<Stg, <<"integer", "e">>>>>>],
    [Bare EXCEPT !.const = <<<<"string", "b">>>>], IntOf("int32"), IntOf("int64"), [Bare EXCEPT !.type = <<"number">>], [Bare EXCEPT !.format = "int32"], [Bare EXCEPT !.type = <<"string">>, !.format = "email"],
    ListFor(5), ListFor(6), [Bare EXCEPT !.items = 6], [Bare EXCEPT !.ref = 4], [Bare EXCEPT !.ref = 4, !.format = "int32"], [Bare EXCEPT !.enum = <<<<<<"unread">>>>>>], [Bare EXCEPT !.prop = 5]}
AdmissionEnds == {[Bare EXCEPT !.type = <<"string">>, !.enum = <<<<Stg, <<"string", "b">>>>>>], IntOf("int64"), ListFor(5), [Bare EXCEPT !.anyOf = <<5, 6>>], [Bare EXCEPT !.ref = -1], [Bare EXCEPT !.ref = 5, !.nullable = "true"]}
AdmissionRoots == {Bare, [Bare EXCEPT !.type = <<"string", "integer">>], ListFor(6), [Bare EXCEPT !.format = "int64"]}
AdmissionItems == {<<IntOf(""), IntOf("int32")>>, <<IntOf("int64"), [Bare EXCEPT !.type = <<"number">>, !.note = "x"]>>}
TakeAdmission == case = Start("admission") /\ \E r \in AdmissionRoots, a, b \in AdmissionLeaves, e \in AdmissionEnds, i \in AdmissionItems, shape \in {"flat", "nested", "union"} :
    /\ (a.ref = 0 /\ b.ref = 0) => e = IntOf("int64")
    /\ Take([of |-> "admission", world |-> <<CASE shape = "flat" -> [r EXCEPT !.allOf = <<2, 3>>] [] shape = "nested" -> [r EXCEPT !.allOf = <<2>>] [] OTHER -> [r EXCEPT !.oneOf = <<2, 3>>],
                                             IF shape = "nested" THEN [a EXCEPT !.allOf = <<3>>] ELSE a, b, e, i[1], i[2]>>])
\* A union beside a body: 4 is what the body declares, 7 what a branch does there,
\* 6 a conjunct of the body, and a $ref lands on 5.
ObjectOf(prop) == [Bare EXCEPT !.type = <<"object">>, !.prop = prop]
UnionRoots == {Bare, ObjectOf(4), [Bare EXCEPT !.prop = 4, !.nullable = "true"], ListFor(4), [Bare EXCEPT !.allOf = <<6>>], [Bare EXCEPT !.type = <<"string">>],
    [Bare EXCEPT !.enum = <<<<Stg>>>>], [ObjectOf(4) EXCEPT !.type = <<"object", "null">>, !.disc = <<<<>>>>], [Bare EXCEPT !.required = TRUE]}
UnionLeaves == {[Bare EXCEPT !.required = TRUE], [Bare EXCEPT !.prop = 7], [ObjectOf(7) EXCEPT !.required = TRUE], [Bare EXCEPT !.ref = 5], [Bare EXCEPT !.type = <<"null">>], [Bare EXCEPT !.ref = -1],
    [Bare EXCEPT !.type = <<"string">>], [Bare EXCEPT !.items = 7], [Bare EXCEPT !.ref = 5, !.nullable = "true"], [Bare EXCEPT !.allOf = <<8>>], [Bare EXCEPT !.form = "false"]}
UnionHolds == {[declares |-> d, lands |-> l, conjunct |-> c, nests |-> n] :
    d \in {IntOf(""), [Bare EXCEPT !.ref = 5], [Bare EXCEPT !.allOf = <<5>>]}, l \in {IntOf("int32"), [ObjectOf(0) EXCEPT !.nullable = "true"]},
    c \in {[Bare EXCEPT !.prop = 4], [Bare EXCEPT !.ref = 5]}, n \in {IntOf(""), IntOf("int64"), [Bare EXCEPT !.ref = 5], [Bare EXCEPT !.note = "x"]}}
TakeUnion == case = Start("union") /\ \E r \in UnionRoots, a, b \in UnionLeaves, h \in UnionHolds, d \in {"3.0", "3.1"}, shape \in {"oneOf", "anyOf", "both", "one"} :
    /\ r.allOf = <<>> => h.conjunct = [Bare EXCEPT !.prop = 4]
    /\ shape = "one" => b = [Bare EXCEPT !.type = <<"null">>]
    /\ (\A s \in {a, b} : s.prop = 0 /\ s.items = 0 /\ s.allOf = <<>>) => h.nests = IntOf("") /\ h.declares = IntOf("")
    /\ (r.prop = 0 /\ r.items = 0 /\ r.allOf = <<>>) => h.declares = IntOf("") /\ h.nests = IntOf("") /\ a.prop = 0 /\ b.prop = 0
    /\ d = "3.0" => h.nests = IntOf("") /\ h.lands.type = <<"object">>
    /\ shape \in {"anyOf", "both"} => h.nests = IntOf("") /\ h.declares = IntOf("")
    /\ Take([of |-> "union", world |-> [i \in 1 .. 8 |->
            [(<<CASE shape = "both" -> [r EXCEPT !.oneOf = <<2, 3>>, !.anyOf = <<8>>] [] shape = "one" -> [r EXCEPT !.oneOf = <<2>>]
                  [] OTHER -> [r EXCEPT ![shape] = <<2, 3>>],
                a, b, h.declares, h.lands, h.conjunct, h.nests, [Bare EXCEPT !.prop = 7]>>)[i] EXCEPT !.doc = d]]])
\* Compositions above schema 1, diamonds and cycles among them, and what each maps.
TakeAncestors == case = Start("ancestors") /\ \E own \in {<<5>>, <<5, 6>>, <<8>>, <<6, 8>>}, up \in [2 .. 3 -> {<<>>, <<5>>, <<7>>, <<8>>, <<9, 7>>}], m \in [2 .. 4 -> {<<>>, <<<<<<2, 1>>, <<1, 1>>>>>>, <<<<<<3, 1>>, <<1, 2>>>>>>}], wraps \in {<<5, 6>>, <<6, 7>>} :
    Take([of |-> "ancestors", world |->
        <<[Bare EXCEPT !.allOf = own, !.disc = m[2]], [Bare EXCEPT !.allOf = up[2], !.disc = m[2]], [Bare EXCEPT !.allOf = up[3], !.disc = m[3]], [Bare EXCEPT !.disc = m[4], !.allOf = <<7>>],
          [Bare EXCEPT !.ref = 2], [Bare EXCEPT !.ref = 3], [Bare EXCEPT !.ref = 4], [Bare EXCEPT !.allOf = wraps], [Bare EXCEPT !.ref = 1]>>])
TakeTypeArray == case = Start("typearray") /\ \E t \in SeqOf({"string", "integer", "number", "object", "array"}, 3) :
    Take([of |-> "typearray", types |-> t])
\* Null is read as JSON Schema reads it, however far the walk got.
NullRead == case.of = "nulls" => S!NullsRead(case.world, 1) /\ Tight!NullsRead(case.world, 1)
\* A null the policy reads in is reported.
NullTold == case.of = "nulls" => S!InferredTold(case.world, 1)
\* An allOf of one $ref reads as the $ref.
WrapRead == case.of = "nulls" => \A n \in 1 .. 4 : S!WrapperReads(case.world, n)
\* Branches speak for a composition whatever their order.
VoicesHeard == case.of = "voices" => S!VoicesAgree(case.world, 1)
\* What a reading excludes, no value is.
AdmissionRead == case.of = "admission" => S!AdmissionSound(case.world, 1, Instances) /\ Tight!AdmissionSound(case.world, 1, Instances)
\* A refinement loses nothing.
Refines == case.of = "admission" => S!RefinesWhole(case.world, 1, Instances) /\ Tight!RefinesWhole(case.world, 1, Instances)
\* Conjuncts said to share no value share none.
SharingNone == case.of \in {"admission", "nulls"} => S!DisjointTrue(case.world, 1, Instances) /\ Tight!DisjointTrue(case.world, 1, Instances)
\* Whatever a union lowers to, no branch is dropped and no value with it.
UnionLowered == case.of = "union" => S!UnionWhole(case.world, 1, Instances) /\ Tight!UnionWhole(case.world, 1, Instances)
\* A union kept as validation reshapes nothing.
ShapeKept == case.of = "union" => S!ValidationOnly(case.world, 1, Instances) /\ Tight!ValidationOnly(case.world, 1, Instances)
\* A type array is exclusive exactly where its types are.
TypesExclusive == case.of = "typearray" => S!TypesApart(case.types)
\* A subtype answers to the nearest discriminator that names it.
AncestorsFound == case.of = "ancestors" => S!AncestorsNear(case.world, 1) /\ Tight!AncestorsNear(case.world, 1)

----------------------------------------------------------------------------
\* What a node and the schema it refers to keep of their extensions, under the
\* default policy, none, and one that reads stability alone.
P == INSTANCE Promotion
Words == {P!Text(w) : w \in {"", "deprecated", "beta", "preview", "other"}} \cup {P!Flag(TRUE), P!Flag(FALSE), P!Null}
With(key, values) == {<<>>} \cup {key :> v : v \in values}
Both(these, those) == {a @@ b : a \in these, b \in those}
Promotions == {P!Promoter(FALSE, <<>>), P!Promoter(TRUE, <<>>), P!Promoter(FALSE, [stability |-> <<P!Key("x-stability")>>]),
               P!Promoter(FALSE, [enumOpen |-> <<P!Key("x-stability"), P!Key("x-fern-availability")>>])}
TakeTiers == case = Start("tiers") /\
    \E p \in Promotions, own \in Both(With("x-stability", Words), With("x-fern-availability", Words)) : Take([of |-> "tiers", p |-> p, own |-> own])
Uses == Both(With("x-stability", {P!Text("deprecated")}), Both(With("x-deprecated-reason", {P!Text("t"), P!Null}), With("x-sensitive", {P!Flag(TRUE)})))
Ends == {P!Object(m) : m \in Both(With("description", {P!Text("u")}), With("eol", {P!Text("v")}))} \cup {P!Flag(TRUE)}
Schemata == Both(Both(With("x-fern-availability", {P!Text("deprecated")}), With("x-deprecated-reason", {P!Text("s")})),
                 Both(With("x-cfDeprecation", Ends), With("x-sensitive", {P!Flag(TRUE)})))
TakeLent == case = Start("lent") /\
    \E own \in Uses, entries \in Schemata, keyword \in BOOLEAN, writes \in {"none", "true", "false"} :
      Take([of |-> "lent", own |-> own, entries |-> entries, keyword |-> keyword, writes |-> writes])
\* A key of both is read by one; the first key written opens an enum.
TiersRead == case.of = "tiers" => P!ReadByOne(case.p, case.own) /\ P!OpenedByFirst(case.p, case.own)
\* A use reads what its schema holds.
LentHeld == case.of = "lent" => P!LentAsHeld(P!Promoter(FALSE, <<>>), case.own, case.entries, case.keyword, case.writes)

----------------------------------------------------------------------------
\* Trees of three values, any of them an alias of one that is not, and models
\* of three nodes.
E == INSTANCE Escapes
RefValues == {[doc |-> d, minted |-> 0, fragment |-> f] : d \in {"followed", "refused"}, f \in {<<"p", "p">>, <<"+", "+">>, <<"%2B", "+">>, <<"%2B", "%2B">>}}
ValueNodes(i) == {[ref |-> r, alias |-> 0, value |-> v] : r \in BOOLEAN, v \in RefValues}
                 \cup {[ref |-> r, alias |-> a, value |-> E!None] : r \in BOOLEAN, a \in 1 .. 3 \ {i}}
TakeEscape == case = Start("escape") /\
    \E a \in ValueNodes(1), b \in ValueNodes(2), c \in ValueNodes(3) :
      LET t == <<a, b, c>>
      IN  (\A i \in 1 .. 3 : t[i].alias # 0 => t[t[i].alias].alias = 0) /\ Take([of |-> "escape", tree |-> t])
TakeRestore == case = Start("restore") /\
    \E chain \in [1 .. 3 -> {<<>>, <<2>>, <<3>>, <<2, 1>>}], within \in [1 .. 3 -> {<<>>, <<2>>, <<3, 1>>}],
       source \in {<<1>>, <<>>}, built \in {<<>>, <<2>>} :
      Take([of |-> "restore", chain |-> chain, within |-> within, source |-> source, built |-> built])
\* $refs are respelled for the resolver alone.
RefsRespelled == case.of = "escape" => E!SpelledAndRestored(case.tree)
\* Every model is put back.
ModelsPut == case.of = "restore" => E!EveryModelPut(case.chain, case.within, case.source, case.built)

----------------------------------------------------------------------------
Init == case \in {Start(part) : part \in {"graph", "named", "paths", "registry", "holding",
                                    "scope", "operations", "model", "routed",
                                    "tree", "sites", "charges", "overlay", "graft", "mappings", "walk",
                                    "name", "literal", "marks",
                                    "defects", "damaged", "duplicates", "ref", "list", "spans", "stored",
                                    "read", "uri",
                                    "documents", "fragment", "ids", "chain", "adopt", "modelwalk", "schemaref",
                                    "bind",
                                    "bases", "defs", "through", "roots",
                                    "external", "settle", "ends", "away", "reached", "priced", "remote",
                                    "steps", "bounds", "types", "fold", "fields", "duration",
                                    "mount", "mountcost", "layers", "keys", "claims", "groups", "responses", "security", "copies", "service",
                                    "nulls", "voices", "admission", "union", "ancestors", "typearray",
                                    "tiers", "lent", "escape", "restore"}}
        /\ LoadInit
        /\ IF case = Start("read") THEN ReaderInit(Requests, Held, Trees) /\ (read.req.by # "layered" => read.held = <<>>)
           ELSE ReaderInit({NoRead.req}, {<<>>}, {[p \in Places |-> Nothing]})
Next == TakeGraph \/ TakeNamed \/ TakePaths \/ TakeRegistry \/ TakeHolding
        \/ TakeScope \/ TakeOperations \/ TakeModel \/ TakeRouted
        \/ TakeTree \/ TakeSites \/ TakeCharges \/ TakeOverlay \/ TakeGraft \/ TakeMappings \/ TakeWalk
        \/ TakeName \/ TakeLiteral \/ TakeMarks
        \/ TakeDefects \/ TakeDamaged \/ TakeDuplicates \/ TakeRef \/ TakeList \/ TakeSpans \/ TakeStored
        \/ TakeRead \/ TakeURI
        \/ TakePathPair \/ TakeFragment \/ TakeIDs \/ TakeChain \/ TakeAdopt \/ TakeModelWalk \/ TakeSchemaRef
        \/ TakeBind
        \/ TakeBases \/ TakeDefs \/ TakeThrough \/ TakeRoots
        \/ TakeReading \/ TakeSettle \/ TakeEnds \/ TakeAway \/ TakeReached \/ TakePriced \/ TakeRemote
        \/ TakeSteps \/ TakeBounds \/ TakeTypes \/ TakeFold \/ TakeFields \/ TakeDuration
        \/ TakeMount \/ TakeMountCost \/ TakeLayers \/ TakeKeys \/ TakeIDClaims \/ TakeGroups \/ TakeResponses \/ TakeSecurity \/ TakeCopies \/ TakeService
        \/ TakeNulls \/ TakeVoices \/ TakeAdmission \/ TakeUnion \/ TakeAncestors \/ TakeTypeArray
        \/ TakeTiers \/ TakeLent \/ TakeEscape \/ TakeRestore
        \/ GiveUp
Spec == Init /\ [][Next]_<<case, tree, read, loadVars>>

----------------------------------------------------------------------------
\* What the run checks: for each part of the compiler, the relations above.

\* What is read off the IR is what its definition says.  The walks (ir's Walk,
\* Clone and edges): visitors that share a walk see what each would see alone,
\* cycles are told, a clone has the shape of its original, the edges of a type are
\* those a walk meets, an ID dangles only where the walk that looked was whole, and
\* the log of paths replays them.  The indexes of irfacts, read directly, cycles of
\* every kind included: the layout order, the components, the subtypes, the
\* properties a type exposes, the targets of aliases and the usage graph; callbacks
\* swap who reads and who writes, and composing holds nothing.
FactsTrue ==
    [][(/\ SharedWalks /\ CyclesTold /\ ClonesKeepShape /\ EdgesWalked /\ DanglingTold
        /\ PathsReplayed
        /\ LayoutKept /\ ComponentsFound /\ SubtypesIndexed /\ ExposureIndexed
        /\ AliasesResolved /\ GraphRead /\ CallbacksSwap /\ ComposingHoldsNothing)]_case

\* What judges a lowered document reports each defect once and only defects.  The
\* passes: names that collide in a scope, parameters the dangling walk judges too,
\* aliases another name claims, arguments judged from a walk that was cut, routes
\* that carry no tag.  The verifier (irverify): two defects are reported as each
\* alone, a duplicate and a damaged ID exactly where it is, a reference once, a list
\* or span as its repair would change it, and a clean document is clean again when
\* stored and read.
JudgesTell ==
    [][(/\ ScopesReported /\ ParamsJudgedOnce /\ NamesClaimed /\ ArgsJudged /\ TagsCarried
        /\ DefectsReported /\ DuplicatesTold /\ DamageTold /\ RefsToldOnce /\ ListsRepaired
        /\ CleanStored)]_case

\* What a source's tree may cost (scan, budget, overlay) is refused before it is
\* spent: a budget never wraps round, cycles and alias amplification are judged by
\* the tree the aliases stand for, each finding names the least site and the
\* innermost node, an overlay is refused only on a fresh count, and a graft keeps
\* its meaning and its origins.
SourceCharged ==
    [][(/\ BudgetsSound /\ CyclesRefused /\ ShapesSound /\ AliasesJudged /\ SitesLeast
        /\ NestingFound /\ ClonesWeighed /\ OverlayCharged /\ GraftsRepaired /\ OriginsWhole)]_case

\* Reading a node (nodeview) does not depend on what was read before it, whatever
\* the caches hold, and a walk that was cut says so; splitting a name into words, a
\* literal into its decimal and an inferred mark into its list (spelling, ir) is
\* settled after one step and orders as the numbers do.
TextsRead ==
    [][(/\ ViewsPure /\ ChildrenPaired /\ WalksHonest /\ WordsFixed /\ DecimalsExact
        /\ BigValsStored /\ InferredSettled)]_case

\* A reference (resolve, ids) is followed in the scope of the document that wrote
\* it, chains past their limit included; distinct documents and positions never
\* share an ID, and a place is named for the declaration that reaches it.  A $ref is
\* respelled for the resolver alone: tree, models and messages say what was written.
\* A file URI (engine/reader) is taken only for a local path.  In other documents
\* (load) a chain cut short is resumed to its end, what lies outside the source is
\* checked once and priced, and one fetched over the network reaches no local file.
ReferencesTrue ==
    [][(/\ DocumentsApart /\ FragmentsSpelled /\ IDsInjective /\ ScopesTrue /\ PointersTrue
        /\ WalksLocated /\ ReferentsNamed /\ RefsRespelled /\ ModelsPut /\ FileURIsJudged
        /\ ChainsResumed /\ CutChainsEnd /\ AwayWalked /\ ReachedOnce /\ TreeReadsPriced /\ RemoteConfined)]_case

\* Binding references to identifiers (bind) settles, on an answer that does not
\* depend on the order of documents or of passes: no identifier is fetched before
\* every document that could declare it is read, chains end where the graph says,
\* and the base of a position is the one the walk from the root gives, however it
\* was remembered.
IdentifiersBound ==
    [][(/\ TablesStand /\ BasesRemembered /\ BasesNamed /\ ReadsRefused /\ DefsNearest
        /\ PlacesOwn /\ RootsAgree)]_case

\* Merging declarations (merge) is intersection: bounds and steps admit what both
\* sides do, a verdict that one type narrows another is true of the values they
\* admit, the fold carries what every declaration says, and a field is named for
\* its span.
MergeTrue ==
    [][(/\ CommonSteps /\ BoundsMeet /\ VerdictsTrue /\ FoldCarries /\ FieldIdentities
        /\ DurationGrammar)]_case

\* The operations of a document (operation, servers, auth) are lowered whole: the
\* nearest layer of a path item mounts each construct once, copies are charged
\* before they are made, an operationId is judged whatever order claims it, tags
\* form a forest, statuses land in one response, security loses no demand, and
\* every mount is in a group.
OperationsMounted ==
    [][(/\ LayersMount /\ MountsPriced /\ LayersPlaced /\ KeysTold /\ IDClaimsJudged
        /\ GroupsForest /\ StatusesLand /\ DemandsKept /\ ExpansionPriced /\ ServicesWhole)]_case

\* What a schema says (schema) is what JSON Schema says of the same keywords: of
\* null, wherever a walk got to within its budget, with every null read in by policy
\* reported; of its allOf, whichever order its branches are written in.  What a
\* reading says no value can be, none is, a refinement of an allOf loses nothing, a
\* union drops no branch, and a subtype answers to its nearest discriminator.  A vendor
\* extension (lowering's promotion) is read into one field or reported, and a use of
\* a schema reads through its $ref what the schema itself holds.
SchemasRead ==
    [][(/\ NullRead /\ NullTold /\ WrapRead /\ VoicesHeard
        /\ AdmissionRead /\ Refines /\ SharingNone
        /\ UnionLowered /\ ShapeKept /\ TypesExclusive /\ AncestorsFound
        /\ TiersRead /\ LentHeld)]_case
=============================================================================
