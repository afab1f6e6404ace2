------------------------------ MODULE TypeFacts ------------------------------
(***************************************************************************)
(* The relations between the types of a document: composition and subtypes *)
(* as ir walks them (composition.go, flatten.go), and the facts irfacts    *)
(* derives and indexes: alias targets, the hierarchy, exposed properties,  *)
(* the type graph, its components and usage.                               *)
(*                                                                         *)
(* A registry r gives each declared type its kind (a model, an alias       *)
(* scalar or another) and what it names: base (0 for none), implements and *)
(* mixins, held, args, the wire names it requires, its properties (wire    *)
(* name and ID) and whether it is polymorphic.                             *)
(***************************************************************************)
EXTENDS Naturals, Integers, Sequences, FiniteSets, SequencesExt, FiniteSetsExt

Declared(r) == DOMAIN r
Model(r, id) == id \in Declared(r) /\ r[id].kind = "model"
Alias(r, id) == id \in Declared(r) /\ r[id].kind = "alias" /\ r[id].base # 0
Reference(id) == IF id = 0 THEN <<>> ELSE <<id>>

\* A function, held as a table.
Table(f) == f @@ <<>>

\* What a relation, given as successor sets, reaches in at least one step.
RECURSIVE Grow(_, _)
Grow(next, S) ==
    LET more == S \cup UNION {next[s] : s \in S} IN IF more = S THEN S ELSE Grow(next, more)
Closure(next) == LET t == Table(next) IN Table([s \in DOMAIN t |-> Grow(t, t[s])])

----------------------------------------------------------------------------
\* aliasTarget: along the chain to a type that is no alias, or on a cyclic
\* chain to the first type met twice.
RECURSIVE AliasFrom(_, _, _)
AliasFrom(r, id, seen) ==
    IF ~Alias(r, id) \/ id \in seen THEN id ELSE AliasFrom(r, r[id].base, seen \cup {id})
AliasTarget(r, id) == AliasFrom(r, id, {})

\* Supertypes: the Base, then each Implements entry, each through its aliases.
Supertypes(r, id) ==
    IF ~Model(r, id) THEN {}
    ELSE {AliasTarget(r, t) : t \in ToSet(Reference(r[id].base) \o r[id].implements)} \ {0}

\* IsSubtypeWithin: the walk up from target, on a stack, in at most left steps:
\* one for each type it takes and for each alias it reads through.
RECURSIVE AliasSteps(_, _, _)
AliasSteps(r, id, seen) ==
    IF ~Alias(r, id) \/ id \in seen THEN 0 ELSE 1 + AliasSteps(r, r[id].base, seen \cup {id})
RECURSIVE SubtypeWalk(_, _, _, _, _)
SubtypeWalk(r, base, queue, seen, left) ==
    IF queue = <<>> THEN [sub |-> FALSE, ok |-> TRUE, left |-> left]
    ELSE LET id == Last(queue)
             rest == Front(queue)
             named == IF Model(r, id) THEN Reference(r[id].base) \o r[id].implements ELSE <<>>
             cost == FoldLeft(LAMBDA a, t : a + AliasSteps(r, t, {}), 0, named)
             supers == SelectSeq([i \in DOMAIN named |-> AliasTarget(r, named[i])], LAMBDA t : t # 0)
         IN  IF left = 0 THEN [sub |-> FALSE, ok |-> FALSE, left |-> 0]
             ELSE IF id \in seen THEN SubtypeWalk(r, base, rest, seen, left - 1)
             ELSE IF left - 1 < cost THEN [sub |-> FALSE, ok |-> FALSE, left |-> 0]
             ELSE IF base \in ToSet(supers) THEN [sub |-> TRUE, ok |-> TRUE, left |-> left - 1 - cost]
             ELSE SubtypeWalk(r, base, rest \o supers, seen \cup {id}, left - 1 - cost)
IsSubtypeWithin(r, target, base, limit) == SubtypeWalk(r, base, <<target>>, {}, limit)

\* partSources: what the parts a type does not declare itself come from.
PartSources(r, id) ==
    IF Model(r, id) THEN ToSet(Reference(r[id].base) \o r[id].implements \o r[id].mixins)
    ELSE IF Alias(r, id) THEN {r[id].base} ELSE {}

PartClosure(r) == Closure([t \in Declared(r) |-> PartSources(r, t) \cap Declared(r)])

\* exposedWalk: the properties of what a type leads to, itself included.
Exposed(r, id) ==
    LET leads == {id} \cup (IF id \in Declared(r) THEN PartClosure(r)[id] ELSE {})
    IN  UNION {{p.id : p \in ToSet(r[t].props)} : t \in {m \in leads : Model(r, m)}}

----------------------------------------------------------------------------
\* FlattenedProperties.  The walk meets the models in composition order, closes
\* strongly connected components as Tarjan's algorithm does, and reads the
\* models of a component when its first model finishes.

Entries(r, id) == Reference(r[id].base) \o r[id].implements \o r[id].mixins
Flattener == [met |-> <<>>, finished |-> <<>>, read |-> <<>>, low |-> <<>>, unflattened |-> <<>>]
Number(f, id) == CHOOSE n \in DOMAIN f.met : f.met[n] = id

\* Mutant: each model is read as it finishes, whatever its component.
FinishAlone(f, id, since) == [f EXCEPT !.read = Append(@, id)]

\* finish: the models finished since the first of a component was met are read
\* in the order they finished.
FinishModel(f, id, since) ==
    LET done == Append(f.finished, id)
    IN  IF f.low[Number(f, id)] < Number(f, id) THEN [f EXCEPT !.finished = done]
        ELSE [f EXCEPT !.read = @ \o SubSeq(done, since + 1, Len(done)),
                       !.finished = SubSeq(done, 1, since)]

\* walk, meet and parent.
RECURSIVE Compose(_, _, _), Follow(_, _, _, _)
Compose(r, f, id) ==
    LET met == [f EXCEPT !.met = Append(@, id), !.low = Append(@, Len(f.met) + 1)]
    IN  FinishModel(Follow(r, met, id, 1), id, Len(f.finished))
Follow(r, f, id, i) ==
    IF i > Len(Entries(r, id)) THEN f
    ELSE LET target == Entries(r, id)[i]
             t == AliasTarget(r, target)
             me == Number(f, id)
             down == Compose(r, f, t)
             low(g, n) == [g EXCEPT !.low[me] = Min({@, n})]
             next == IF ~Model(r, t)
                     THEN [f EXCEPT !.unflattened = IF target \in ToSet(@) THEN @ ELSE Append(@, target)]
                     ELSE IF t \notin ToSet(f.met) THEN low(down, down.low[Number(down, t)])
                     ELSE IF t \notin ToSet(f.read) THEN low(f, Number(f, t))
                     ELSE f
         IN  Follow(r, next, id, i + 1)

\* emit, result and flat: one member per wire name, at its first reading, taking
\* the last declaration read; required when one declaration or a model says so.
Flatten(r, root) ==
    LET t == AliasTarget(r, root)
        f == IF Model(r, t) THEN Compose(r, Flattener, t) ELSE Flattener
        own(m) == [i \in DOMAIN r[m].props |-> [owner |-> m, prop |-> r[m].props[i]]]
        decls == FoldLeft(LAMBDA s, m : s \o own(m), <<>>, f.read)
        wires == {decls[i].prop.wire : i \in DOMAIN decls}
        of(w) == SelectSeq(decls, LAMBDA d : d.prop.wire = w)
        requires == UNION {r[m].requires : m \in ToSet(f.read)}
    IN  [read |-> f.read, unflattened |-> f.unflattened,
         takes |-> [w \in wires |-> Last(of(w))],
         required |-> {w \in wires : w \in requires \/ \E d \in ToSet(of(w)) : d.prop.required},
         undeclared |-> requires \ wires]

----------------------------------------------------------------------------
\* tarjan: the components of adj, in the order they close.

LowersLink(t, w) == w \in ToSet(t.stack)

RECURSIVE Search(_, _, _), SearchEdges(_, _, _, _)
Search(adj, t, v) ==
    LET n == Len(t.order) + 1
        opened == [t EXCEPT !.order = Append(@, v), !.stack = Append(@, v), !.low[v] = n]
        s == SearchEdges(adj, opened, v, 1)
        from == CHOOSE k \in DOMAIN s.stack : s.stack[k] = v
    IN  IF s.low[v] < n THEN s
        ELSE [s EXCEPT !.out = Append(@, ToSet(SubSeq(s.stack, from, Len(s.stack)))),
                       !.stack = SubSeq(s.stack, 1, from - 1)]
SearchEdges(adj, t, v, i) ==
    IF i > Len(adj[v]) THEN t
    ELSE LET w == adj[v][i]
             place == CHOOSE k \in DOMAIN t.order : t.order[k] = w
             down == Search(adj, t, w)
             next == IF w \notin ToSet(t.order) THEN [down EXCEPT !.low[v] = Min({@, down.low[w]})]
                     ELSE IF LowersLink(t, w) THEN [t EXCEPT !.low[v] = Min({@, place})]
                     ELSE t
         IN  SearchEdges(adj, next, v, i + 1)
Tarjan(adj) ==
    LET none == [order |-> <<>>, stack |-> <<>>, low |-> Table([v \in DOMAIN adj |-> 0]), out |-> <<>>]
        from(t, v) == IF v \in ToSet(t.order) THEN t ELSE Search(adj, t, v)
    IN  FoldLeft(from, none, SetToSortSeq(DOMAIN adj, <)).out

----------------------------------------------------------------------------
\* intervals: the condensation, numbered in post-order from the components that
\* reach no other, down to those that reach them.

Condense(adj) ==
    LET comps == Tarjan(adj)
        comp == Table([v \in DOMAIN adj |-> CHOOSE c \in DOMAIN comps : v \in comps[c]])
    IN  [comp |-> comp,
         cyclic |-> Table([c \in DOMAIN comps |-> \E v \in comps[c] : ToSet(adj[v]) \cap comps[c] # {}]),
         kids |-> Table([p \in DOMAIN comps |->
                     SetToSortSeq({c \in DOMAIN comps \ {p} :
                                     \E v \in comps[c] : ToSet(adj[v]) \cap comps[p] # {}}, <)])]

RECURSIVE NumberFrom(_, _, _), NumberKids(_, _, _, _)
NumberFrom(kids, n, c) ==
    LET s == NumberKids(kids, [n EXCEPT !.first[c] = n.next, !.visited = @ \cup {c}], c, 1)
        lows == {s.lo[k] : k \in ToSet(kids[c])}
    IN  [s EXCEPT !.hi[c] = s.next, !.lo[c] = Min(lows \cup {s.next}), !.next = @ + 1]
NumberKids(kids, n, c, i) ==
    IF i > Len(kids[c]) THEN n
    ELSE NumberKids(kids, IF kids[c][i] \in n.visited THEN n ELSE NumberFrom(kids, n, kids[c][i]), c, i + 1)

Intervals(adj) ==
    LET d == Condense(adj)
        C == DOMAIN d.kids
        zero == Table([c \in C |-> 0])
        none == [lo |-> zero, hi |-> zero, first |-> zero, visited |-> {}, next |-> 0]
        roots == SetToSortSeq({c \in C : \A p \in C : c \notin ToSet(d.kids[p])}, <)
    IN  [d |-> d, n |-> FoldLeft(LAMBDA n, c : NumberFrom(d.kids, n, c), none, roots)]

\* Only what the component's own search numbered is certainly below it.
Settles(n, ct, cb) == n.hi[ct] >= n.first[cb]

\* below: whether t reaches b, and whether the intervals can say.
Below(x, t, b) ==
    LET ct == x.d.comp[t]
        cb == x.d.comp[b]
    IN  IF ct = cb THEN [sub |-> x.d.cyclic[ct], settled |-> TRUE]
        ELSE IF x.n.lo[ct] < x.n.lo[cb] \/ x.n.hi[ct] >= x.n.hi[cb] THEN [sub |-> FALSE, settled |-> TRUE]
        ELSE [sub |-> TRUE, settled |-> Settles(x.n, ct, cb)]

\* newAliasTargets: every alias resolved once, whatever order the registry's map
\* gives them in; settle and settleCycle.
\* settleCycle: a type of the cycle is its own target, one that leads to it
\* takes the first type of the cycle met.
SettleCycle(a, path, at) ==
    LET round == ToSet(SubSeq(path, at, Len(path)))
    IN  Table([id \in DOMAIN a |-> IF id \in round THEN id
                                   ELSE IF id \in ToSet(path) THEN path[at] ELSE a[id]])
RECURSIVE Resolve(_, _, _, _)
Resolve(r, a, path, cur) ==
    LET on == {i \in DOMAIN path : path[i] = cur}
        settle(target) == Table([id \in DOMAIN a |-> IF id \in ToSet(path) THEN target ELSE a[id]])
    IN  IF cur \in DOMAIN a /\ a[cur] # -1 THEN settle(a[cur])
        ELSE IF on # {}
        THEN SettleCycle(a, path, CHOOSE i \in on : TRUE)
        ELSE IF ~Alias(r, cur) THEN settle(cur)
        ELSE Resolve(r, a, Append(path, cur), r[cur].base)
AliasTargets(r, order) ==
    FoldLeft(LAMBDA a, id : Resolve(r, a, <<>>, id), Table([id \in Declared(r) |-> -1]), order)

\* newHierarchy: a vertex for each declared type, then for each supertype the
\* registry lacks, with the edges to its supertypes.
SuperEdges(r) ==
    LET lacking == UNION {Supertypes(r, id) : id \in Declared(r)} \ Declared(r)
    IN  Table([v \in Declared(r) \cup lacking |->
                 IF v \in Declared(r) THEN SetToSortSeq(Supertypes(r, v), <) ELSE <<>>])
ChildrenOf(r, id) == {c \in Declared(r) : id \in Supertypes(r, c)}

\* IsSubtype as the index answers it with left steps still to walk.
IndexedSubtype(r, x, target, base, left) ==
    LET w == IsSubtypeWithin(r, target, base, left)
        named == {target, base} \subseteq DOMAIN x.d.comp
        walked == IsSubtypeWithin(r, target, base, 1000)
    IN  IF left > 0 /\ w.ok THEN w.sub
        ELSE IF ~named THEN FALSE
        ELSE IF Below(x, target, base).settled THEN Below(x, target, base).sub
        ELSE walked.sub

\* newExposure and exposes: the one model that declares a property owns it, and
\* -1 stands for several.
PartEdges(r) ==
    Table([v \in Declared(r) |-> SetToSortSeq(PartSources(r, v) \cap Declared(r), <)])
Owners(r, prop) == {m \in Declared(r) : Model(r, m) /\ \E p \in ToSet(r[m].props) : p.id = prop}
OwnerOf(r, prop) ==
    LET owners == Owners(r, prop)
    IN  IF owners = {} THEN 0 ELSE IF Cardinality(owners) > 1 THEN -1 ELSE CHOOSE m \in owners : TRUE
Exposes(r, x, id, prop) ==
    LET owner == OwnerOf(r, prop)
    IN  IF id \notin Declared(r) \/ owner = 0 THEN [sub |-> FALSE, settled |-> TRUE]
        ELSE IF owner = -1 THEN [sub |-> FALSE, settled |-> FALSE]
        ELSE IF owner = id THEN [sub |-> TRUE, settled |-> TRUE]
        ELSE Below(x, id, owner)

----------------------------------------------------------------------------
\* newTypeGraph: each type's shape and range, and the edges between them.

Polymorphic(r, id) == LET t == AliasTarget(r, id) IN Model(r, t) /\ r[t].poly
ComposedVertex(r, id) == <<id, "shape">>
ReferenceTo(r, id) == IF Polymorphic(r, id) THEN <<id, "range">> ELSE <<id, "shape">>
Vertices(r) == Declared(r) \X {"shape", "range"}

TypeGraph(r) ==
    LET alias(id) == IF Alias(r, id) THEN {r[id].base} ELSE {}
        composed(id) == IF Model(r, id) THEN ToSet(Entries(r, id)) ELSE {}
        edges(v) ==
          IF v[2] = "shape"
          THEN {ReferenceTo(r, t) : t \in r[v[1]].held} \cup {ComposedVertex(r, t) : t \in composed(v[1])}
               \cup {<<t, "shape">> : t \in alias(v[1])}
          ELSE {<<v[1], "shape">>} \cup {<<t, "range">> : t \in alias(v[1]) \cup ChildrenOf(r, v[1])}
    IN  Table([v \in Vertices(r) |-> edges(v) \cap Vertices(r)])

\* newComponents: a type is recursive when its shape lies on a cycle.
Recursive(r) ==
    LET g == TypeGraph(r)
        vertex(n) == <<(n + 1) \div 2, IF n % 2 = 1 THEN "shape" ELSE "range">>
        number(v) == 2 * v[1] - (IF v[2] = "shape" THEN 1 ELSE 0)
        adj == Table([n \in {number(v) : v \in Vertices(r)} |->
                        SetToSortSeq({number(w) : w \in g[vertex(n)]}, <)])
        comps == ToSet(Tarjan(adj))
    IN  {id \in Declared(r) :
           LET n == number(<<id, "shape">>)
           IN  n \in ToSet(adj[n]) \/ \E c \in comps : n \in c /\ Cardinality(c) > 1}

\* newUsage: flags spread from the roots along the graph; a vertex passes on
\* only what it had not reached, and a field argument makes its type an input.
ArgFlags(flags) == {"input"}
RECURSIVE Spread(_, _, _, _)
Spread(r, g, pending, reached) ==
    IF pending = <<>> THEN reached
    ELSE LET step == Last(pending)
             fresh == step.flags \ reached[step.at]
             args == IF step.at[2] = "shape" THEN {ReferenceTo(r, t) : t \in r[step.at[1]].args \cap Declared(r)} ELSE {}
             more == SetToSeq({[at |-> w, flags |-> fresh] : w \in g[step.at]}
                              \cup {[at |-> w, flags |-> ArgFlags(fresh)] : w \in args})
         IN  IF fresh = {} THEN Spread(r, g, Front(pending), reached)
             ELSE Spread(r, g, Front(pending) \o more, [reached EXCEPT ![step.at] = @ \cup fresh])

\* document, operation and messages: the flags of each type the API surface
\* names.  An operation holds the types at the places of its request (sends), of
\* its responses (answers), of its errors (fails), of multipart bodies, and of
\* the messages and replies of its binding; asked are the channels' parameters
\* and the credentials, common the services' common errors.
Inbound(doc, i) == doc.ops[i].webhook \/ \E j \in DOMAIN doc.ops : i \in doc.ops[j].callbacks

MessageSides(direction) ==
    CASE direction = "send" -> [own |-> {"input"}, reply |-> {"output"}]
      [] direction = "receive" -> [own |-> {"output"}, reply |-> {"input"}]
      [] OTHER -> [own |-> {"input", "output"}, reply |-> {"input", "output"}]

\* Mutant: an error is read by the client, whoever starts the operation.
RootsErrorsRead(op, inbound) ==
    LET request == IF inbound THEN "output" ELSE "input"
        response == IF inbound THEN "input" ELSE "output"
        sides == MessageSides(op.direction)
    IN  (op.sends \X {request}) \cup (op.answers \X {response}) \cup (op.fails \X {"output", "error"})
        \cup (op.multipart \X {"multipart"}) \cup (op.messages \X sides.own) \cup (op.replies \X sides.reply)
OperationRoots(op, inbound) ==
    LET request == IF inbound THEN "output" ELSE "input"
        response == IF inbound THEN "input" ELSE "output"
        sides == MessageSides(op.direction)
    IN  (op.sends \X {request}) \cup (op.answers \X {response}) \cup (op.fails \X {response, "error"})
        \cup (op.multipart \X {"multipart"}) \cup (op.messages \X sides.own) \cup (op.replies \X sides.reply)
UsageRoots(r, doc) ==
    LET named == UNION {OperationRoots(doc.ops[i], Inbound(doc, i)) : i \in DOMAIN doc.ops}
                 \cup (doc.common \X {"output", "error"}) \cup (doc.asked \X {"input"})
    IN  Table([id \in Declared(r) |-> {p[2] : p \in {q \in named : q[1] = id}}])

\* markMultipart: along the aliases, as far as a type marked already.
RECURSIVE MarkMultipart(_, _, _)
MarkMultipart(r, usage, id) ==
    IF id \notin Declared(r) THEN usage
    ELSE IF "multipart" \in usage[id] THEN usage
    ELSE LET marked == [usage EXCEPT ![id] = @ \cup {"multipart"}]
         IN  IF Alias(r, id) THEN MarkMultipart(r, marked, r[id].base) ELSE marked

Usage(r, doc) ==
    LET roots == UsageRoots(r, doc)
        named == {id \in Declared(r) : roots[id] \ {"multipart"} # {}}
        start == SetToSeq({[at |-> ReferenceTo(r, id), flags |-> roots[id] \ {"multipart"}] : id \in named})
        reached == Spread(r, TypeGraph(r), start, Table([v \in Vertices(r) |-> {}]))
        spread == Table([id \in Declared(r) |-> reached[<<id, "shape">>] \cup reached[<<id, "range">>]])
        bodies == SetToSeq({id \in Declared(r) : "multipart" \in roots[id]})
    IN  FoldLeft(LAMBDA u, id : MarkMultipart(r, u, id), spread, bodies)

----------------------------------------------------------------------------
\* Subtypes by definition: the closure of Supertypes.
SubtypeClosure(r) ==
    LET e == SuperEdges(r) IN Closure([v \in DOMAIN e |-> ToSet(e[v])])
\* What a model composes, at any distance, through aliases.
Composes(r) ==
    Closure([m \in Declared(r) |-> IF Model(r, m)
                                   THEN {AliasTarget(r, t) : t \in ToSet(Entries(r, m))} \cap Declared(r)
                                   ELSE {}])

\* A flattening reads each model composed exactly once, and after every model it
\* composes that does not compose it in turn, whatever cycles the composition
\* has; so a declaration it takes is overridden by no model further down.
LayoutOrder(r, root) ==
    LET f == Flatten(r, root)
        t == AliasTarget(r, root)
        c == Composes(r)
        strictly(a, b) == b \in c[a] /\ a \notin c[b]
    IN  Model(r, t) =>
          /\ Cardinality(ToSet(f.read)) = Len(f.read)
          /\ ToSet(f.read) = {t} \cup {m \in c[t] : Model(r, m)}
          /\ \A i, j \in DOMAIN f.read : strictly(f.read[i], f.read[j]) => j < i
          /\ \A w \in DOMAIN f.takes : \A m \in ToSet(f.read) :
               strictly(m, f.takes[w].owner) => \A p \in ToSet(r[m].props) : p.wire # w
          /\ UNION {{p.id : p \in ToSet(r[m].props)} : m \in ToSet(f.read)} = Exposed(r, root)

\* The components are the classes of mutual reach, each after those it reaches.
ComponentsSound(adj) ==
    LET comps == Tarjan(adj)
        c == Closure([v \in DOMAIN adj |-> ToSet(adj[v])])
        place(v) == CHOOSE i \in DOMAIN comps : v \in comps[i]
    IN  /\ \A v \in DOMAIN adj : Cardinality({i \in DOMAIN comps : v \in comps[i]}) = 1
        /\ \A v, w \in DOMAIN adj :
             /\ (place(v) = place(w)) = (v = w \/ (w \in c[v] /\ v \in c[w]))
             /\ w \in c[v] => place(w) <= place(v)

\* The index answers as the walk of the definition does, however many steps it
\* still has to walk; what the intervals settle they settle rightly, and in a
\* forest they settle everything.
IndexAgrees(r) ==
    LET x == Intervals(SuperEdges(r))
        c == SubtypeClosure(r)
        e == SuperEdges(r)
        V == DOMAIN e
        forest == \A v \in V : Len(e[v]) <= 1
    IN  \A t, b \in V :
          /\ \A left \in 0 .. 3 : IndexedSubtype(r, x, t, b, left) = (b \in c[t])
          /\ Below(x, t, b).settled => Below(x, t, b).sub = (b \in c[t])
          /\ forest => Below(x, t, b).settled

\* Exposure from the index is exposure by definition.
ExposureAgrees(r, props) ==
    LET x == Intervals(PartEdges(r))
    IN  \A id \in Declared(r), p \in props :
          LET e == Exposes(r, x, id, p) IN e.settled => e.sub = (p \in Exposed(r, id))

\* Resolving every alias at once, in any order, is following each chain.
AliasesAgree(r) ==
    \A order \in {s \in [1 .. Cardinality(Declared(r)) -> Declared(r)] : IsInjective(s)} :
      \A id \in Declared(r) : Alias(r, id) => AliasTargets(r, order)[id] = AliasTarget(r, id)

\* A type is recursive when its shape reaches itself, and carries a flag when a
\* root with it, or a field argument a flag reached, leads to it; a multipart
\* body is marked as far as its aliases lead and no further.
GraphAgrees(r, doc) ==
    LET g == TypeGraph(r)
        roots == UsageRoots(r, doc)
        c == Closure(g)
        from(v) == {v} \cup c[v]
        rooted(f) == UNION {from(ReferenceTo(r, id)) : id \in {i \in Declared(r) : f \in roots[i]}}
        asked(S) == UNION {from(ReferenceTo(r, t)) : t \in UNION {r[id].args \cap Declared(r) :
                             id \in {i \in Declared(r) : <<i, "shape">> \in S}}}
        all == rooted("input") \cup rooted("output") \cup rooted("error")
        inputs[n \in 0 .. 3] == IF n = 0 THEN rooted("input") \cup asked(all)
                                ELSE inputs[n - 1] \cup asked(inputs[n - 1])
        types(S) == {v[1] : v \in S}
        aliases == Closure([id \in Declared(r) |-> IF Alias(r, id) THEN {r[id].base} \cap Declared(r) ELSE {}])
        bodies == {id \in Declared(r) : "multipart" \in roots[id]}
        u == Usage(r, doc)
    IN  /\ Recursive(r) = {id \in Declared(r) : <<id, "shape">> \in c[<<id, "shape">>]}
        /\ \A f \in {"output", "error"} : {id \in Declared(r) : f \in u[id]} = types(rooted(f))
        /\ {id \in Declared(r) : "multipart" \in u[id]} = bodies \cup UNION {aliases[id] : id \in bodies}
        /\ {id \in Declared(r) : "input" \in u[id]} = types(inputs[3])

\* An operation that a callback names, wherever it does, uses types as the same
\* operation with its two sides exchanged.
CallbackSwaps(r, doc, i) ==
    LET op == doc.ops[i]
        none == [doc EXCEPT !.ops = [j \in DOMAIN @ |-> [@[j] EXCEPT !.callbacks = {}, !.webhook = FALSE]]]
        called == [none EXCEPT !.ops[Len(none.ops)].callbacks = {i}]
        exchanged == [none EXCEPT !.ops[i].sends = op.answers \cup op.fails, !.ops[i].answers = op.sends,
                                  !.ops[i].fails = {}]
        plain(u) == [id \in DOMAIN u |-> u[id] \ {"error"}]
    IN  plain(Usage(r, called)) = plain(Usage(r, exchanged))

\* A subtype that only composes its polymorphic base is not recursive for it.
ComposingIsNotHolding(r) ==
    (\A id \in Declared(r) : r[id].held = {}) =>
      \A id \in Recursive(r) : id \in PartClosure(r)[id]

=============================================================================
