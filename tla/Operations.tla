----------------------------- MODULE Operations -----------------------------
(***************************************************************************)
(* How the OpenAPI compiler lowers a service                               *)
(* (compilers/openapi/internal/operation, servers, auth, and the expansion *)
(* budget of lowering): the layers a path item mount reads, what each      *)
(* mounted operation takes of them, the groups operations are filed in,    *)
(* and what is judged once every operation has lowered.                    *)
(*                                                                         *)
(* A pointer is a sequence of tokens.  What a construct says is abstracted *)
(* to the layer that wrote it.  An optional value is a sequence of none or *)
(* one.                                                                    *)
(***************************************************************************)
EXTENDS Integers, Sequences, SequencesExt, FiniteSets, FiniteSetsExt

CONSTANTS HttpMethods,      \* the fixed method fields, in lowering order
          MaxUnknownKeys,   \* the undeclared keys one object may contribute
          EntryWeight,      \* what a copy of one kept entry weighs
          ServerWeight,     \* what a copy of one server ID weighs
          KeyRank(_)        \* the place of a key in the order of keys

Without(f, keys) == [k \in DOMAIN f \ keys |-> f[k]]
\* f, with g's entries in place of its own.
Over(f, g) == [k \in DOMAIN f \cup DOMAIN g |-> IF k \in DOMAIN g THEN g[k] ELSE f[k]]
Empty == [k \in {} |-> 0]
Orders(s) == {[i \in DOMAIN s |-> s[p[i]]] : p \in {q \in [DOMAIN s -> DOMAIN s] : IsInjective(q)}}
InOrderOf(S, rank(_)) ==
    [i \in 1 .. Cardinality(S) |-> CHOOSE x \in S : Cardinality({y \in S : rank(y) < rank(x)}) = i - 1]

----------------------------------------------------------------------------
(* Path items and the layers of a mount.                                   *)
PathOperations(item) ==
    LET fixed == SelectSeq(HttpMethods, LAMBDA m : m \in DOMAIN item.fixed)
        extra == SelectSeq(item.extra, LAMBDA e : e.op # <<>>)
    IN  [i \in DOMAIN fixed |-> [seg |-> <<fixed[i], "">>, op |-> item.fixed[fixed[i]], additional |-> FALSE]]
        \o [i \in DOMAIN extra |-> [seg |-> <<"additionalOperations", extra[i].key>>, op |-> extra[i].op[1], additional |-> TRUE]]

PathItemFields == {"summary", "description", "servers", "parameters", "additionalOperations"}
Standard(key) == key \in ToSet(HttpMethods)
PathItemDeclares(entry) == entry.held \/ Standard(entry.key) \/ entry.extension \/ entry.key \in PathItemFields
UndeclaredPathItemKeys(item) ==
    {e.key : e \in {x \in ToSet(item.raw) : IF x.held THEN ~Standard(x.key) ELSE ~PathItemDeclares(x)}}
ExtensionNames(item) == {e.key : e \in {x \in ToSet(item.raw) : x.extension}}
DocKeywords == {"summary", "description"}
DeclaresText(item, keyword) == item.docs[keyword] = "text"

\* A parameter with no slot is a $ref that resolves to nothing.
ParamKey(p) == p.slot
ParamAt(decl, i) == decl \o <<"parameters", ToString(i - 1)>>
\* An entry of ctx 0 is lowered in its operation's own context.
AppendSourced(dst, params, decl, shadowed, ctx) ==
    LET kept == SelectSeq([i \in DOMAIN params |-> i], LAMBDA i : ParamKey(params[i]) = <<>> \/ ParamKey(params[i]) \notin shadowed)
    IN  dst \o [k \in DOMAIN kept |-> [p |-> params[kept[k]], at |-> ParamAt(decl, kept[k]), ctx |-> ctx]]
ShadowedKeys(params) == {ParamKey(p) : p \in ToSet(params)} \ {<<>>}

\* pathItemLayers: the fields beside each $ref of the chain, nearest first,
\* then the item it ends at.  hops[1] is the use site.
Visited(hops, use) == [i \in DOMAIN hops |-> [hops[i] EXCEPT !.decl = IF i = 1 THEN use ELSE @]]
Referent(nearer, end) ==
    IF \E l \in ToSet(nearer) : l.decl = end.decl /\ l.doc = end.doc THEN [end EXCEPT !.decl = Append(@, "$ref")] ELSE end
PathItemLayers(hops, use, end) ==
    LET seen == Visited(hops, use)
        layer(h) == [item |-> h.item, decl |-> h.decl, doc |-> h.doc]
        read == SelectSeq(seen, LAMBDA h : h.beside = "read")
        nearer == [i \in DOMAIN read |-> layer(read[i])]
    IN  [layers |-> Append(nearer, Referent(nearer, end)),
         unread |-> {i \in DOMAIN seen : seen[i].beside = "unread"}]

\* itemConstructs: each key a layer declares, with where it is first written.
ItemConstructs(l) ==
    LET ops == PathOperations(l.item)
        opKeys == {<<"operation">> \o ops[i].seg : i \in DOMAIN ops}
        docKeys == {<<"doc", k, "">> : k \in {w \in DocKeywords : DeclaresText(l.item, w)}}
        servers == IF l.item.servers = <<>> THEN {} ELSE {<<"servers", "", "">>}
        ext == {<<"extension", k, "">> : k \in ExtensionNames(l.item)}
        keys == {<<"key", k, "">> : k \in UndeclaredPathItemKeys(l.item)}
        params == {<<"parameter">> \o s : s \in ShadowedKeys(l.item.params)}
    IN  opKeys \cup docKeys \cup servers \cup ext \cup keys \cup params
FirstDeclared(l, key) ==
    IF key[1] = "parameter"
    THEN ParamAt(l.decl, Min({i \in DOMAIN l.item.params : ParamKey(l.item.params[i]) = Tail(key)}))
    ELSE l.decl \o Tail(key)

\* precedence: the nearest layer declaring a construct keeps it, and each
\* farther one that declares it again is reported.
\* Mutant: the item a chain ends at keeps what it declares.
FarthestOf(decls, key) == Max({i \in DOMAIN decls : key \in decls[i]})
OwnerOf(decls, key) == Min({i \in DOMAIN decls : key \in decls[i]})
Precedence(layers) ==
    LET decls == [i \in DOMAIN layers |-> ItemConstructs(layers[i])]
        keys == UNION Range(decls)
        owner == [k \in keys |-> OwnerOf(decls, k)]
    IN  IF Len(layers) = 1 THEN [owner |-> Empty, collisions |-> {}]
        ELSE [owner |-> owner,
              collisions |-> {[at |-> FirstDeclared(layers[owner[k]], k), again |-> FirstDeclared(layers[j], k)] :
                              <<k, j>> \in {x \in keys \X DOMAIN layers : x[2] > owner[x[1]] /\ x[1] \in decls[x[2]]}}]
Cedes(owner, i, key) == key \in DOMAIN owner /\ owner[key] # i

\* itemParams: each layer's parameters, less the slots a nearer one declares.
ItemParams(layers) ==
    IF Len(layers) = 1 THEN AppendSourced(<<>>, layers[1].item.params, layers[1].decl, {}, 0)
    ELSE FoldLeft(LAMBDA acc, i : [params |-> AppendSourced(acc.params, layers[i].item.params, layers[i].decl, acc.shadowed, i),
                                   shadowed |-> acc.shadowed \cup ShadowedKeys(layers[i].item.params)],
                  [params |-> <<>>, shadowed |-> {}], [i \in DOMAIN layers |-> i]).params
\* mergeParameters: an operation's own come first, and override the item's.
MergeParameters(itemParams, own, decl) ==
    AppendSourced(<<>>, own, decl, {}, 0)
    \o SelectSeq(itemParams, LAMBDA s : ParamKey(s.p) = <<>> \/ ParamKey(s.p) \notin ShadowedKeys(own))

\* mountedOperations: in the order one item holding them all would list them.
SegsOf(ops) == [i \in DOMAIN ops |-> ops[i].seg]
Listed(list, segs) == list \o SelectSeq(segs, LAMBDA s : s \notin ToSet(list))
ExtraSegs(extras) == FoldLeft(Listed, <<>>, Reverse(extras))
MountedOperations(layers) ==
    LET ops == [i \in DOMAIN layers |-> PathOperations(layers[i].item)]
        extras == [i \in DOMAIN layers |-> SegsOf(SelectSeq(ops[i], LAMBDA o : o.additional))]
        declaring(seg) == {i \in DOMAIN layers : seg \in ToSet(SegsOf(ops[i]))}
        take(seg) == LET i == Min(declaring(seg)) IN [layer |-> i, op |-> CHOOSE o \in ToSet(ops[i]) : o.seg = seg]
        fixed == SelectSeq([i \in DOMAIN HttpMethods |-> <<HttpMethods[i], "">>], LAMBDA s : declaring(s) # {})
        segs == fixed \o ExtraSegs(extras)
    IN  [i \in DOMAIN segs |-> take(segs[i])]

----------------------------------------------------------------------------
(* What a path item declares that its operations have no home for: kept    *)
(* entries, each the layer that wrote it.                                  *)
\* census: the undeclared keys in order, up to MaxUnknownKeys, none over an
\* entry already held.
Census(kept, keys, scope, i) ==
    LET fresh == InOrderOf(keys, KeyRank)
        taken == {fresh[k] : k \in 1 .. Min({Len(fresh), MaxUnknownKeys})}
    IN  Over([e \in {<<scope, k>> : k \in taken} |-> i], kept)
\* applyPathItem: documentation, extensions and undeclared keys, less what a
\* nearer layer keeps.
ApplyPathItem(kept, l, i, owner, scope) ==
    LET docs == IF \A w \in DocKeywords : ~DeclaresText(l.item, w) THEN {}
                ELSE {w \in DocKeywords : l.item.docs[w] # "absent" /\ ~Cedes(owner, i, <<"doc", w, "">>)}
        ext == {x \in ExtensionNames(l.item) : ~Cedes(owner, i, <<"extension", x, "">>)}
        keys == {k \in UndeclaredPathItemKeys(l.item) : ~Cedes(owner, i, <<"key", k, "">>)}
    IN  Census(Over(kept, [e \in {<<scope, n>> : n \in docs \cup ext} |-> i]), keys, scope, i)
ApplyLayers(layers, owner) ==
    FoldRight(LAMBDA i, kept : ApplyPathItem(kept, layers[i], i, owner, "pathItem"), [i \in DOMAIN layers |-> i], Empty)

\* paramLedger: which holder of its slot each entry is, counting from one.
Occurrences(params) ==
    [i \in DOMAIN params |-> Cardinality({j \in 1 .. i : ParamKey(params[j]) = ParamKey(params[i])})]
KeepItemParams(kept, l, i, owner, scope) ==
    LET mine == SelectSeq(l.item.params, LAMBDA p : ParamKey(p) # <<>> /\ ~Cedes(owner, i, <<"parameter">> \o ParamKey(p)))
        nth == Occurrences(mine)
    IN  Over(kept, [e \in {<<scope>> \o ParamKey(mine[k]) \o <<ToString(nth[k])>> : k \in DOMAIN mine} |-> i])
\* preserveUnmountedPathItem: an item that mounts no operation keeps all it
\* writes on the nearest node, keyed by its own mount.
PreserveUnmounted(layers, owner, scope) ==
    FoldLeft(LAMBDA kept, i : KeepItemParams(ApplyPathItem(kept, layers[i], i, owner, scope), layers[i], i, owner, scope),
             Empty, [i \in DOMAIN layers |-> i])

----------------------------------------------------------------------------
(* Servers: a declaration is registered once, under its own position.      *)
Declared(reg, doc, list, decl) ==
    LET at == {i \in DOMAIN list : list[i] # <<>>}
        id(i) == <<doc>> \o decl \o <<ToString(i - 1)>>
        ids == InOrderOf(at, LAMBDA i : i)
    IN  [reg |-> Over([k \in {id(i) : i \in at} |-> list[CHOOSE i \in at : id(i) = k]], reg),
         ids |-> [k \in DOMAIN ids |-> id(ids[k])],
         fresh |-> {id(i) : i \in at} \ DOMAIN reg]
\* Root: a document that declares no server is served at "/".
Root(reg, list) ==
    IF list # <<>> THEN Declared(reg, "source", list, <<>>)
    ELSE [reg |-> Over(reg, [k \in {<<"default">>} |-> <<"/">>]), ids |-> <<<<"default">>>>, fresh |-> {<<"default">>}]
ItemServers(reg, layers, owner) ==
    FoldLeft(LAMBDA acc, i : LET d == Declared(acc.reg, layers[i].doc, layers[i].item.servers, layers[i].decl)
                             IN  IF Cedes(owner, i, <<"servers", "", "">>) THEN acc
                                 ELSE [reg |-> d.reg, ids |-> acc.ids \o d.ids],
             [reg |-> reg, ids |-> <<>>], [i \in DOMAIN layers |-> i])

----------------------------------------------------------------------------
(* The expansion budget: what copies weigh, against one limit.             *)
\* Once past the limit nothing is admitted.
Crossed(spent, limit) == spent > limit
Charge(spent, limit, weight) == IF Crossed(spent, limit) THEN spent ELSE spent + weight
\* beneath: a key is raw YAML, its value what the grammar reads there.
Below(at, token) == IF at = "object" THEN (IF token = "schema" THEN "schema" ELSE IF token = "<<" THEN "raw" ELSE "object") ELSE "raw"
Beneath(n, at) ==
    CASE n.kind = "map" -> FoldLeft(LAMBDA acc, p : acc \o <<[node |-> p.key, at |-> "raw"], [node |-> p.value, at |-> Below(at, p.token)]>>,
                                    <<>>, n.pairs)
      [] n.kind = "list" -> [i \in DOMAIN n.pairs |-> [node |-> n.pairs[i].value, at |-> Below(at, "item")]]
      [] OTHER -> <<>>
\* weightOf: it visits at most one node past what is left.
RECURSIVE Weigh(_, _, _, _)
Weigh(nodes, stack, weight, left) ==
    IF stack = <<>> \/ left = 0 THEN weight
    ELSE LET f == Last(stack)
             n == nodes[f.node]
             rest == Front(stack)
         IN  IF f.at = "schema" THEN Weigh(nodes, rest, weight + 1, left - 1)
             ELSE IF n.kind = "scalar" THEN Weigh(nodes, rest, weight + 1 + n.len, left - 1)
             ELSE Weigh(nodes, rest \o Beneath(n, f.at), weight + 1, left - 1)
WeightOf(nodes, root, at, within) == Weigh(nodes, <<[node |-> root, at |-> at]>>, 0, within + 1)
\* admit: each declaration is weighed once for each reading, and remembered.
RECURSIVE Admit(_, _, _, _)
\* Mutant: a weight is remembered whatever the reading.
AdmitByNode(nodes, st, roots, limit) ==
    IF Crossed(st.spent, limit) \/ roots = <<>> THEN st
    ELSE LET key == [node |-> Head(roots).node, at |-> "raw"]
             w == IF key \in DOMAIN st.memo THEN st.memo[key] ELSE WeightOf(nodes, Head(roots).node, Head(roots).at, limit - st.spent)
         IN  Admit(nodes, [spent |-> st.spent + w, memo |-> Over(st.memo, [k \in {key} |-> w])], Tail(roots), limit)
Admit(nodes, st, roots, limit) ==
    IF Crossed(st.spent, limit) \/ roots = <<>> THEN st
    ELSE LET w == IF Head(roots) \in DOMAIN st.memo THEN st.memo[Head(roots)]
                  ELSE WeightOf(nodes, Head(roots).node, Head(roots).at, limit - st.spent)
         IN  Admit(nodes, [spent |-> st.spent + w, memo |-> Over(st.memo, [k \in {Head(roots)} |-> w])], Tail(roots), limit)

\* A run's copies cross the budget exactly where what they all weigh is past
\* it, whatever order they are made in and however short each weighing stops.
RECURSIVE TrueWeight(_, _, _)
TrueWeight(nodes, node, at) ==
    IF at = "schema" THEN 1
    ELSE IF nodes[node].kind = "scalar" THEN 1 + nodes[node].len
    ELSE FoldLeft(LAMBDA w, f : w + TrueWeight(nodes, f.node, f.at), 1, Beneath(nodes[node], at))
CopiesPriced(nodes, copies, limit) ==
    LET total == FoldLeft(LAMBDA w, roots : FoldLeft(LAMBDA v, r : v + TrueWeight(nodes, r.node, r.at), w, roots), 0, copies)
    IN  \A o \in Orders(copies) :
          Crossed(FoldLeft(LAMBDA st, roots : Admit(nodes, st, roots, limit), [spent |-> 0, memo |-> Empty], o).spent, limit)
            <=> total > limit

----------------------------------------------------------------------------
(* One mount of a path item.                                               *)
\* lowerParameters: a $ref'd entry is charged at every operation, and lowers
\* nowhere once the budget is crossed or when it resolves to nothing.
LowerParameters(st, params, limit) ==
    FoldLeft(LAMBDA acc, s :
               LET spent == IF s.p.ref /\ ParamKey(s.p) # <<>> THEN Charge(acc.spent, limit, s.p.weight) ELSE acc.spent
               IN  IF ParamKey(s.p) = <<>> \/ (s.p.ref /\ Crossed(spent, limit)) THEN [acc EXCEPT !.spent = spent]
                   ELSE [acc EXCEPT !.spent = spent,
                                    !.params = Append(@, [slot |-> ParamKey(s.p), at |-> s.at,
                                                          nth |-> 1 + Cardinality({i \in DOMAIN acc.params : acc.params[i].slot = ParamKey(s.p)})])],
             [spent |-> st, params |-> <<>>], params)
\* chargeItemCopy: every additional operation, the first too.
ChargeItemCopy(spent, limit, kept, servers, taken) ==
    FoldLeft(LAMBDA sp, s : IF s.p.ref \/ ParamKey(s.p) = <<>> THEN sp ELSE Charge(sp, limit, s.p.weight),
             Charge(spent, limit, EntryWeight * Cardinality(DOMAIN kept) + ServerWeight * Len(servers)), taken)
MountCharge(n, spent, limit, kept, servers, taken) == ChargeItemCopy(spent, limit, kept, servers, taken)
RECURSIVE MountPathItem(_, _, _, _, _, _)
\* lowerCallbacks: operations of the parent's group, which lower no callbacks
\* of their own; an expression that mounts none keeps what it wrote.  mount
\* is the parent's identity.
LowerCallbacks(mount, decl, src, st, limit) ==
    FoldLeft(LAMBDA acc, cb :
               LET m == MountPathItem(cb.layers, mount \o <<"callbacks", cb.name>>, acc.reg, acc.spent, limit, FALSE)
               IN  [reg |-> m.reg, spent |-> m.spent, ops |-> acc.ops \o m.ops, residue |-> Over(acc.residue, m.residue)],
             [reg |-> st.reg, spent |-> st.spent, ops |-> <<>>, residue |-> Empty], src.callbacks)
CallbacksOf(mount, decl, src, st, limit) == LowerCallbacks(mount, decl, src, st, limit)
\* lowerOperation: parameters, then callbacks, then its own servers.
LowerOperation(l, lo, mount, merged, acc, limit, withCallbacks) ==
    LET decl == l.decl \o lo.op.seg
        lowered == LowerParameters(acc.spent, merged, limit)
        st == [reg |-> acc.reg, spent |-> lowered.spent]
        cbs == CallbacksOf(mount \o lo.op.seg, decl, IF withCallbacks THEN lo.op.op ELSE [lo.op.op EXCEPT !.callbacks = <<>>], st, limit)
        own == Declared(cbs.reg, l.doc, lo.op.op.servers, decl)
    IN  [op |-> [id |-> mount \o lo.op.seg, decl |-> decl, layer |-> lo.layer, src |-> lo.op.op,
                 params |-> lowered.params, servers |-> own.ids, kept |-> Empty, calls |-> cbs.ops, orphans |-> cbs.residue],
         reg |-> own.reg, spent |-> cbs.spent]
\* mountPathItem: reg is the server registry, st what copies have spent.
MountPathItem(layers, mount, reg, st, limit, withCallbacks) ==
    LET ops == MountedOperations(layers)
        prec == Precedence(layers)
        params == ItemParams(layers)
        named == ItemServers(reg, layers, prec.owner)
        kept == ApplyLayers(layers, prec.owner)
        step(acc, lo) ==
            LET l == layers[lo.layer]
                merged == MergeParameters(params, lo.op.op.params, l.decl \o lo.op.seg)
                done == LowerOperation(l, lo, mount, merged, acc, limit, withCallbacks)
                takes == done.op.servers = <<>>
                op == [done.op EXCEPT !.servers = IF takes THEN named.ids ELSE @, !.kept = kept]
                taken == SubSeq(merged, Len(lo.op.op.params) + 1, Len(merged))
            IN  IF acc.stopped \/ (lo.op.additional /\ Crossed(acc.spent, limit)) THEN [acc EXCEPT !.stopped = TRUE]
                ELSE IF ~lo.op.additional THEN [acc EXCEPT !.ops = Append(@, op), !.reg = done.reg, !.spent = done.spent]
                ELSE [acc EXCEPT !.ops = Append(@, op), !.reg = done.reg, !.extra = @ + 1,
                                 !.spent = MountCharge(acc.extra, done.spent, limit, kept, IF takes THEN named.ids ELSE <<>>, taken)]
        all == FoldLeft(step, [ops |-> <<>>, reg |-> named.reg, spent |-> st, extra |-> 0, stopped |-> FALSE], ops)
    IN  [ops |-> all.ops, reg |-> all.reg, spent |-> all.spent, collisions |-> prec.collisions,
         residue |-> IF ops = <<>> THEN PreserveUnmounted(layers, prec.owner, "pathItem" \o FoldLeft(LAMBDA a, t : a \o t, "", mount)) ELSE Empty]

\* One item that writes near's fields over far's: what the two layers mean.
Inlined(near, far) ==
    LET nearKeys == {e.key : e \in ToSet(SelectSeq(near.extra, LAMBDA x : x.op # <<>>))}
        replaced(e) == IF e.key \in nearKeys THEN CHOOSE x \in ToSet(near.extra) : x.key = e.key /\ x.op # <<>> ELSE e
        farLive == SelectSeq(far.extra, LAMBDA e : e.op # <<>>)
        farKeys == {e.key : e \in ToSet(farLive)}
    IN  [near EXCEPT !.fixed = Over(far.fixed, @),
                     !.extra = [i \in DOMAIN farLive |-> replaced(farLive[i])] \o SelectSeq(@, LAMBDA e : e.key \notin farKeys)]
\* A mount loses nothing of what its layers declare and says nothing twice:
\* each construct is kept once, from the nearest layer declaring it, by every
\* operation that has no own, or by the residue where none is mounted; each
\* farther declaration is reported; and the operations stand in the order a
\* single item holding them all would give.
MountWhole(layers) ==
    LET mount == <<"paths", "p">>
        m == MountPathItem(layers, mount, Empty, 0, 99, FALSE)
        decls == [i \in DOMAIN layers |-> ItemConstructs(layers[i])]
        all == UNION Range(decls)
        nearest(k) == Min({i \in DOMAIN layers : k \in decls[i]})
        keepers == IF m.ops = <<>> THEN {m.residue} ELSE {o.kept : o \in ToSet(m.ops)}
        holds(kept, scope, name, i) == <<scope, name>> \in DOMAIN kept /\ kept[<<scope, name>>] = i
        scope == IF m.ops = <<>> THEN "pathItempathsp" ELSE "pathItem"
        layerOf(at) == CHOOSE i \in DOMAIN layers : \E j \in DOMAIN layers[i].item.params : at = ParamAt(layers[i].decl, j)
    IN  /\ \A k \in {x \in all : x[1] = "operation"} :
             Cardinality({i \in DOMAIN m.ops : m.ops[i].id = mount \o Tail(k)}) = 1
             /\ \A o \in ToSet(m.ops) : o.id = mount \o Tail(k) => o.layer = nearest(k)
        /\ Len(m.ops) = Cardinality({x \in all : x[1] = "operation"})
        /\ \A k \in {x \in all : x[1] \in {"doc", "extension"}}, kept \in keepers : holds(kept, scope, k[2], nearest(k))
        /\ \A i \in DOMAIN layers : LET mine == {k \in decls[i] : k[1] = "key" /\ nearest(k) = i} IN
             \A kept \in keepers : Cardinality({k \in mine : holds(kept, scope, k[2], i)}) = Min({MaxUnknownKeys, Cardinality(mine)})
        /\ \A k \in {x \in all : x[1] = "parameter"} :
             /\ \A o \in ToSet(m.ops) :
                  LET own == Tail(k) \in ShadowedKeys(o.src.params)
                      held == SelectSeq(o.params, LAMBDA p : p.slot = Tail(k))
                      written(ps) == Cardinality({j \in DOMAIN ps : ParamKey(ps[j]) = Tail(k)})
                  IN  /\ Len(held) = written(IF own THEN o.src.params ELSE layers[nearest(k)].item.params)
                      /\ \A j \in DOMAIN held : held[j].nth = j /\ (~own => layerOf(held[j].at) = nearest(k))
             /\ m.ops = <<>> => \E e \in DOMAIN m.residue : Len(e) = 4 /\ SubSeq(e, 2, 3) = Tail(k) /\ m.residue[e] = nearest(k)
        /\ LET lists == {x \in all : x[1] = "servers"} IN
             /\ \A o \in ToSet(m.ops) : (o.src.servers = <<>> /\ lists # {}) =>
                  Len(o.servers) = Len(SelectSeq(layers[nearest(<<"servers", "", "">>)].item.servers, LAMBDA s : s # <<>>))
             /\ Cardinality(DOMAIN m.reg) <= 1 + Cardinality({o \in ToSet(m.ops) : o.src.servers # <<>>})
        /\ Cardinality(m.collisions) = FoldSet(LAMBDA k, n : n + Cardinality({i \in DOMAIN layers : k \in decls[i]}) - 1, 0, all)
        /\ Len(layers) > 1 =>
             LET last == Len(layers)
                 one == [layers[last] EXCEPT !.item = Inlined(layers[last - 1].item, layers[last].item)]
             IN  LET n == MountPathItem(SubSeq(layers, 1, last - 2) \o <<one>>, mount, Empty, 0, 99, FALSE)
                 IN  [i \in DOMAIN m.ops |-> m.ops[i].id] = [i \in DOMAIN n.ops |-> n.ops[i].id]
\* Two layers never declare at one position of one document, so no two intern
\* a type there; fields the load phase did not model are all reported.
LayersApart(hops, use, end) ==
    LET got == PathItemLayers(hops, use, end)
    IN  /\ \A i, j \in DOMAIN got.layers : i # j => <<got.layers[i].doc, got.layers[i].decl>> # <<got.layers[j].doc, got.layers[j].decl>>
        /\ Len(got.layers) + Cardinality(got.unread) = 1 + Cardinality({i \in DOMAIN hops : hops[i].beside # "none"})
\* Whether a mount crosses the budget depends on what it copies, and not on
\* the order its additional operations are written in.
MountPriced(layer, limit) ==
    LET m(extra) == MountPathItem(<<[layer EXCEPT !.item.extra = extra]>>, <<"paths", "p">>, Empty, 0, limit, FALSE)
        full == MountPathItem(<<layer>>, <<"paths", "p">>, Empty, 0, 999, FALSE).spent
    IN  \A o \in Orders(layer.item.extra) : Crossed(m(o).spent, limit) <=> full > limit

----------------------------------------------------------------------------
(* Paths keys: a sequence of characters, read left to right.               *)
Literals == {"a", "z"}
HexDigits == {"a"}
IndexAny(s, i, chars) == LET at == {k \in i .. Len(s) : s[k] \in chars} IN IF at = {} THEN 0 ELSE Min(at)
\* expression: the name between the braces, where one opens at i.
ExpressionAt(s, i) ==
    LET close == IndexAny(s, i + 1, {"{", "}"})
    IN  IF close <= i + 1 \/ s[close] = "{" THEN <<>> ELSE <<SubSeq(s, i + 1, close - 1)>>
PercentAt(s, i) == i + 2 <= Len(s) /\ s[i + 1] \in HexDigits /\ s[i + 2] \in HexDigits
RECURSIVE ReadKey(_, _, _)
ReadKey(s, i, st) ==
    IF i > Len(s) \/ s[i] = "#" THEN st
    ELSE CASE s[i] = "?" -> [st EXCEPT !.defects = @ \cup {"query"}]
           [] s[i] = "{" -> LET name == ExpressionAt(s, i) IN
                IF name = <<>> THEN ReadKey(s, i + 1, [st EXCEPT !.defects = @ \cup {"brace"}])
                ELSE ReadKey(s, i + Len(name[1]) + 2,
                             [st EXCEPT !.names = @ \cup {name[1]}, !.defects = IF name[1] \in st.names THEN @ \cup {"repeat"} ELSE @])
           [] s[i] = "}" -> ReadKey(s, i + 1, [st EXCEPT !.defects = @ \cup {"brace"}])
           [] s[i] = "%" -> IF PercentAt(s, i) THEN ReadKey(s, i + 3, st) ELSE ReadKey(s, i + 1, [st EXCEPT !.defects = @ \cup {"percent"}])
           [] s[i] = "/" -> ReadKey(s, i + 1, IF i > 1 /\ s[i - 1] = "/" THEN [st EXCEPT !.defects = @ \cup {"empty"}] ELSE st)
           [] OTHER -> ReadKey(s, i + 1, IF s[i] \in Literals THEN st ELSE [st EXCEPT !.defects = @ \cup {"encode"}])
PathKeyDefects(s) ==
    ReadKey(s, 1, [names |-> {}, defects |-> {}]).defects \cup (IF s # <<>> /\ s[1] = "/" THEN {} ELSE {"slash"})

\* The template grammar: every path of n characters, as its parts.
Parts(chars, n) ==
    IF n = 1 THEN {<<c>> : c \in (Literals \cup {"/"}) \cap chars}
    ELSE (IF n = 3 THEN {<<"%", x, y>> : x, y \in HexDigits} ELSE {})
         \cup (IF n >= 3 THEN {<<"{">> \o name \o <<"}">> : name \in [1 .. n - 2 -> chars \ {"{", "}"}]} ELSE {})
RECURSIVE Templates(_, _)
Templates(chars, n) ==
    IF n = 1 THEN {<<<<"/">>>>}
    ELSE {Append(t, p) : <<t, p>> \in UNION {{x \in Templates(chars, k) \X Parts(chars, n - k) :
            /\ x[2] = <<"/">> => Last(x[1]) # <<"/">>
            /\ Len(x[2]) >= 3 /\ x[2][1] = "{" => x[2] \notin ToSet(x[1])} : k \in 1 .. n - 1}}
Written(parts) == FoldLeft(\o, <<>>, parts)
PathKeysOf(chars, n) ==
    LET whole(k) == {Written(t) : t \in Templates(chars, k)}
        after(k) == UNION {[1 .. j -> chars] : j \in 0 .. k}
    IN  UNION {whole(k) : k \in 1 .. n} \cup {w \o <<"#">> \o f : <<w, f>> \in UNION {whole(k) \X after(n - k - 1) : k \in 1 .. n - 1}}
\* A key is reported exactly where no parse of the grammar accepts it.
KeysJudged(keys, valid) == \A s \in keys : PathKeyDefects(s) = {} <=> s \in valid

----------------------------------------------------------------------------
(* operationIds: a claim is the node declaring it, 0 for none, and the     *)
(* pointers it was lowered with, ordered as numbers; written is the node   *)
(* the document's text holds at each pointer.                              *)
\* byDeclaration: sets joined on a shared node or declaration pointer.
Joined(a, b) == (a.node # 0 /\ a.node = b.node) \/ a.decl = b.decl
Unite(sets, i, join) == {UNION {s \in sets : s \cap join # {}} \cup {i}} \cup {s \in sets : s \cap join = {}}
ByDeclaration(claims) ==
    FoldLeft(LAMBDA sets, i : Unite(sets, i, {j \in 1 .. i - 1 : Joined(claims[i], claims[j])}), {}, [i \in DOMAIN claims |-> i])
Holds(written, cl) == cl.decl \in DOMAIN written /\ written[cl.decl] = cl.node
\* declare: where a declaration is written, and its mounts, its own first.
Ascending(S) == InOrderOf(S, LAMBDA x : x)
Declare(claims, group, written) ==
    LET of == {claims[i] : i \in group}
        here == {c \in of : Holds(written, c)}
        own == {c.mount : c \in {x \in here : x.mount = x.decl}}
    IN  [at |-> Min({c.decl : c \in IF here # {} THEN here ELSE of}),
         mounts |-> Ascending(own) \o Ascending({c.mount : c \in of} \ own)]
Judge(claims, written) ==
    LET decls == {Declare(claims, g, written) : g \in ByDeclaration(claims)}
        order == InOrderOf(decls, LAMBDA d : d.at)
    IN  FlattenSeq([i \in DOMAIN order |->
          (IF i = 1 THEN <<>> ELSE <<[kind |-> "conflict", at |-> order[i].at, other |-> order[1].at]>>)
          \o [k \in 1 .. Len(order[i].mounts) - 1 |->
                [kind |-> "reuse", at |-> order[i].mounts[k + 1], other |-> order[i].mounts[1]]]])
\* The findings on one operationId are a function of the document: whatever
\* order its operations lower in they are the same, one for every claim but
\* one, and a conflict only where two texts write it.
IDsJudged(claims, written) ==
    LET found == Judge(claims, written)
        texts == {c.decl : c \in ToSet(claims)}
        Same(a, b) == \E c, d \in ToSet(claims) : c.decl = a /\ d.decl = b /\ Joined(c, d)
        RECURSIVE Grown(_)
        Grown(S) == LET more == S \cup {b \in texts : \E a \in S : Same(a, b)} IN IF more = S THEN S ELSE Grown(more)
    IN  /\ \A o \in Orders(claims) : Judge(o, written) = found
        /\ Len(found) = Len(claims) - 1
        /\ Cardinality({i \in DOMAIN found : found[i].kind = "conflict"}) = Cardinality({Grown({t}) : t \in texts}) - 1
        /\ LET own == {c.mount : c \in {x \in ToSet(claims) : x.mount = x.decl /\ Holds(written, x)}} IN
             \A f \in ToSet(found) : (f.kind = "reuse" /\ f.at \in own) => f.other \in own

----------------------------------------------------------------------------
(* Groups: tags are declared in a list, the first of a name winning.       *)
IndexTags(tags) ==
    [n \in {t.name : t \in ToSet(tags)} |-> tags[Min({i \in DOMAIN tags : tags[i].name = n})]]
Navigational(x, tag) == tag \notin DOMAIN x \/ x[tag].kind \in {"", "nav"}
TagParent(x, tag) ==
    IF tag \notin DOMAIN x \/ x[tag].parent \notin DOMAIN x \/ ~Navigational(x, x[tag].parent) THEN "" ELSE x[tag].parent
\* chain: outermost first; where the parents form a cycle it starts at the
\* first tag of the cycle it reached.
RECURSIVE ChainFrom(_, _)
ChainFrom(x, walk) ==
    LET parent == TagParent(x, Last(walk))
        met == {i \in DOMAIN walk : walk[i] = parent}
    IN  IF parent = "" THEN walk
        ELSE IF met # {} THEN SubSeq(walk, 1, Min(met))
        ELSE ChainFrom(x, Append(walk, parent))
Chain(x, tag) == Reverse(ChainFrom(x, <<tag>>))
\* groupFor: by the first navigational tag, or else the default group; or, by
\* path prefix, the path's first segment.
GroupFor(x, byPrefix, op) ==
    LET nav == SelectSeq(op.tags, LAMBDA t : Navigational(x, t))
    IN  IF byPrefix THEN <<<<"prefix", op.segment>>>>
        ELSE IF nav = <<>> THEN <<<<"default", "">>>>
        ELSE LET c == Chain(x, nav[1]) IN [i \in DOMAIN c |-> <<"tag", c[i]>>]

NoGroups == [order |-> <<>>, ops |-> Empty, parentOf |-> Empty]
\* place: each level is created on first sight, under the one before it.
Level(g, id, parent) ==
    IF id \in DOMAIN g.ops THEN g
    ELSE [order |-> Append(g.order, id), ops |-> Over(g.ops, [k \in {id} |-> <<>>]),
          parentOf |-> IF parent = <<>> THEN g.parentOf ELSE Over(g.parentOf, [k \in {id} |-> parent])]
Place(g, levels, ops) ==
    LET placed == FoldLeft(LAMBDA acc, i : Level(acc, levels[i], IF i = 1 THEN <<>> ELSE levels[i - 1]), g, [i \in DOMAIN levels |-> i])
    IN  [placed EXCEPT !.ops[Last(levels)] = @ \o ops]
\* finalize builds from the end of the order, where children are built.
NoGroup == [id |-> <<"", "">>, ops |-> <<>>, groups |-> <<>>]
Finalize(g) ==
    LET under(id) == SelectSeq(g.order, LAMBDA k : k \in DOMAIN g.parentOf /\ g.parentOf[k] = id)
        grp(built, id) == [id |-> id, ops |-> g.ops[id],
                           groups |-> [i \in DOMAIN under(id) |-> IF under(id)[i] \in DOMAIN built THEN built[under(id)[i]] ELSE NoGroup]]
        built == FoldRight(LAMBDA id, acc : Over(acc, [k \in {id} |-> grp(acc, id)]), g.order, Empty)
        tops == SelectSeq(g.order, LAMBDA id : id \notin DOMAIN g.parentOf)
    IN  [i \in DOMAIN tops |-> built[tops[i]]]

RECURSIVE OpsIn(_), Nested(_, _), Ancestor(_, _, _)
Ancestor(x, tag, n) == IF n = 0 THEN tag ELSE Ancestor(x, TagParent(x, tag), n - 1)
\* The operations of a tree of groups, and each group with its parent.
OpsIn(groups) == FoldLeft(LAMBDA acc, g : acc \o g.ops \o OpsIn(g.groups), <<>>, groups)
Nested(groups, parent) == UNION {{<<g.id, parent, ToSet(g.ops)>>} \cup Nested(g.groups, g.id) : g \in ToSet(groups)}
\* Every operation is filed once; no group stands under one of its own
\* descendants; and whatever order operations lower in, the same groups stand
\* under the same parents with the same operations.
GroupsFiled(tags, ops) ==
    LET x == IndexTags(tags)
        filed(o) == Finalize(FoldLeft(LAMBDA g, op : Place(g, GroupFor(x, FALSE, op), <<op.id>>), NoGroups, o))
        tree == filed(ops)
    IN  /\ Len(OpsIn(tree)) = Len(ops) /\ ToSet(OpsIn(tree)) = {op.id : op \in ToSet(ops)}
        /\ LET nested == Nested(tree, <<>>) IN
             /\ \A o \in Orders(ops) : Nested(filed(o), <<>>) = nested
             /\ \A n \in nested : LET tag == n[1][2] IN
                  n[1][1] = "tag" => n[2] = (IF Len(Chain(x, tag)) = 1 THEN <<>> ELSE <<"tag", TagParent(x, tag)>>)
        /\ \A t \in DOMAIN x : LET c == Chain(x, t) IN
             /\ IsInjective(c) /\ \A i \in DOMAIN c : Chain(x, c[i]) = SubSeq(c, 1, i)
             /\ TagParent(x, t) # "" => (Len(c) = 1 <=> \E n \in 1 .. Cardinality(DOMAIN x) : Ancestor(x, t, n) = t)

----------------------------------------------------------------------------
(* Responses: a key is its characters.                                     *)
DefaultKey == <<"default">>
NoRange == [from |-> 0, to |-> 0]
DigitOf(c) == CASE c = "0" -> 0 [] c = "1" -> 1 [] c = "2" -> 2 [] c = "4" -> 4 [] c = "5" -> 5 [] c = "9" -> 9 [] OTHER -> -1
Wildcard(c) == c \in {"X", "x"}
\* statusRange: none where the key names no status.
StatusRange(code) ==
    IF code = DefaultKey THEN <<NoRange>>
    ELSE IF Len(code) # 3 \/ DigitOf(code[1]) \notin 1 .. 5 THEN <<>>
    ELSE LET base == DigitOf(code[1]) * 100 IN
         IF Wildcard(code[2]) /\ Wildcard(code[3]) THEN <<[from |-> base, to |-> base + 99]>>
         ELSE IF DigitOf(code[2]) < 0 \/ DigitOf(code[3]) < 0 THEN <<>>
         ELSE LET n == base + DigitOf(code[2]) * 10 + DigitOf(code[3]) IN <<[from |-> n, to |-> n]>>
IsErrorRange(rng) == rng.from >= 400
FaultFor(rng) == IF rng.from \in 400 .. 499 THEN "client" ELSE IF rng.from \in 500 .. 599 THEN "server" ELSE ""
\* lowerResponses: an entry that resolves to nothing lowers nowhere.
LowerResponses(entries, default) ==
    LET live == SelectSeq(entries, LAMBDA e : e.resolves)
        rng(e) == LET r == StatusRange(e.key) IN IF r = <<>> THEN NoRange ELSE r[1]
        failing == SelectSeq(live, LAMBDA e : IsErrorRange(rng(e)))
        others == SelectSeq(live, LAMBDA e : ~IsErrorRange(rng(e)))
        named == {e \in ToSet(live) : StatusRange(e.key) # <<>>}
    IN  [responses |-> [i \in DOMAIN others |-> [name |-> others[i].key, statuses |-> StatusRange(others[i].key)]],
         errors |-> [i \in DOMAIN failing |-> [name |-> failing[i].key, statuses |-> <<rng(failing[i])>>, fault |-> FaultFor(rng(failing[i]))]],
         default |-> IF default THEN <<[name |-> DefaultKey, statuses |-> StatusRange(DefaultKey)]>> ELSE <<>>,
         invalid |-> {e.key : e \in ToSet(live) \ named},
         duplicates |-> {d \in {{e.key : e \in {x \in named : rng(x) = rng(y)}} : y \in named} : Cardinality(d) > 1}]
\* Every entry lands once under the statuses its key matches as text, as an
\* error exactly where they are client or server errors; only the default is
\* the catch-all; and two spellings of one range are told whatever their order.
ResponsesLand(entries, default) ==
    LET out == LowerResponses(entries, default)
        Matched(c) == IF Wildcard(c) THEN 0 .. 9 ELSE {d \in 0 .. 9 : ToString(d) = c}
        Statuses(key) == IF Len(key) # 3 \/ Wildcard(key[1]) THEN {}
                         ELSE {100 * d[1] + 10 * d[2] + d[3] : d \in (Matched(key[1]) \cap 1 .. 5) \X Matched(key[2]) \X Matched(key[3])}
        Says(key) == IF Cardinality(Statuses(key)) \in {1, 100} THEN Statuses(key) ELSE {}
        Claimed(r) == UNION {s.from .. s.to : s \in ToSet(r.statuses)}
        live == {e.key : e \in {x \in ToSet(entries) : x.resolves}}
    IN  /\ Len(out.responses) + Len(out.errors) = Cardinality(live)
        /\ \A r \in ToSet(out.responses) \cup {[name |-> e.name, statuses |-> e.statuses] : e \in ToSet(out.errors)} :
             r.name \in live /\ Claimed(r) = Says(r.name)
        /\ {e.name : e \in ToSet(out.errors)} = {k \in live : Says(k) # {} /\ Says(k) \subseteq 400 .. 599}
        /\ \A e \in ToSet(out.errors) : e.fault = (IF Min(Claimed(e)) < 500 THEN "client" ELSE "server")
        /\ \A r \in ToSet(out.responses) : r.statuses # <<NoRange>>
        /\ \A j, k \in live : (j # k /\ Says(j) = Says(k) /\ Says(j) # {}) => \E d \in out.duplicates : {j, k} \subseteq d
        /\ \A o \in Orders(entries) : LowerResponses(o, default).duplicates = out.duplicates

----------------------------------------------------------------------------
(* Security requirements: schemes held by ID, a requirement the set of     *)
(* names it demands, or <<>> where it was written as no object.            *)
AuthOf(name) == <<"auth", name>>
UnresolvedAuth(name) == <<"unresolved", name>>
\* lowerSecuritySchemes: an entry naming no mechanism is kept under an ID no
\* requirement reaches as declared.
LowerSecuritySchemes(entries) == {IF e.mechanism THEN AuthOf(e.name) ELSE UnresolvedAuth(e.name) : e \in entries}
SchemeUsed(reg, name) == IF AuthOf(name) \in reg THEN AuthOf(name) ELSE UnresolvedAuth(name)
Demands(reg, names) == {SchemeUsed(reg, n) : n \in names}
Requirements(reg, list) ==
    LET written == IF list = <<>> THEN <<>> ELSE SelectSeq(list[1], LAMBDA r : r # <<>>)
        options == [i \in DOMAIN written |-> Demands(reg, written[i][1])]
    IN  [options |-> IF list = <<>> \/ (list[1] # <<>> /\ written = <<>>) THEN <<>> ELSE <<options>>,
         reg |-> reg \cup UNION Range(options)]
\* An operation demands neither less nor more than its document writes: what
\* a caller must hold is read from every option, an unreadable list inherits,
\* and the registry names every scheme a requirement does, in any order.
SecurityKept(entries, lists) ==
    LET reg == LowerSecuritySchemes(entries)
        after(o) == FoldLeft(LAMBDA r, l : Requirements(r, l).reg, reg, o)
        names == {e.name : e \in entries} \cup UNION {UNION {r[1] : r \in {x \in ToSet(l[1]) : x # <<>>}} : l \in {k \in ToSet(lists) : k # <<>>}}
    IN  /\ \A o \in Orders(lists) : after(o) = after(lists)
        /\ \A l \in ToSet(lists) : LET got == Requirements(reg, l).options IN
             IF l = <<>> \/ (l[1] # <<>> /\ \A r \in ToSet(l[1]) : r = <<>>) THEN got = <<>>
             ELSE \A held \in SUBSET names :
                    (l[1] = <<>> \/ \E r \in ToSet(l[1]) : r # <<>> /\ r[1] \subseteq held)
                      <=> (got[1] = <<>> \/ \E o \in ToSet(got[1]) : {s[2] : s \in o} \subseteq held)
        /\ \A l \in ToSet(lists) : \A o \in UNION {ToSet(g) : g \in ToSet(Requirements(reg, l).options)} : o \subseteq after(lists)

----------------------------------------------------------------------------
(* A service: its paths, then its webhooks, in source order.               *)
\* lowerPathItem and lowerWebhooks: one item, filed by its route.
LowerItem(st, x, item, limit) ==
    LET m == MountPathItem(item.layers, item.mount, st.reg, st.spent, limit, TRUE)
        file(acc, op) ==
            LET levels == IF item.webhook THEN <<<<"webhooks", "">>>> ELSE GroupFor(x, FALSE, op.src)
                called == [i \in DOMAIN op.calls |-> op.calls[i].id]
                claims == [i \in 1 .. Len(op.calls) + 1 |-> LET o == IF i > Len(op.calls) THEN op ELSE op.calls[i] IN [mount |-> o.id, decl |-> o.decl]]
            IN  [acc EXCEPT !.groups = Place(@, levels, <<op.id>> \o called), !.claims = @ \o claims, !.calls = @ \cup {<<op.id, id>> : id \in ToSet(called)}]
    IN  FoldLeft(file, [st EXCEPT !.reg = m.reg, !.spent = m.spent, !.residue = Over(@, m.residue)], m.ops)
\* lowerPaths, lowerWebhooks: stopped between items when the run is cancelled;
\* an item that resolves to nothing is passed over.
LowerService(doc, cancelledAt, limit) ==
    LET root == Root(Empty, doc.servers)
        start == [reg |-> root.reg, spent |-> 0, groups |-> NoGroups, claims |-> <<>>, calls |-> {}, residue |-> Empty]
        live == SelectSeq(SubSeq(doc.items, 1, Min({cancelledAt, Len(doc.items)})), LAMBDA i : i.layers # <<>>)
        done == FoldLeft(LAMBDA st, item : LowerItem(st, IndexTags(doc.tags), item, limit), start, live)
    IN  [done EXCEPT !.groups = Finalize(@)]
\* Every operation of a service has an ID of its own, however many mounts
\* share its declaration, claims its operationId once, and stands in one
\* group, a callback's in its parent's; a declaration's servers are one entry
\* of the registry; and a run stopped early holds a part of what it would have.
ServiceWhole(doc, limit) ==
    LET all == LowerService(doc, Len(doc.items), limit)
        ids == OpsIn(all.groups)
        filed == {n[3] : n \in Nested(all.groups, <<>>)}
    IN  /\ Cardinality(ToSet(ids)) = Len(ids)
        /\ {c.mount : c \in ToSet(all.claims)} = ToSet(ids) /\ Len(all.claims) = Len(ids)
        /\ \A c \in all.calls : \E g \in filed : c[1] \in g /\ c[2] \in g
        /\ \A n \in 0 .. Len(doc.items) : LET some == LowerService(doc, n, limit) IN
             /\ ToSet(OpsIn(some.groups)) \subseteq ToSet(ids)
             /\ \A g \in {k[1] : k \in Nested(some.groups, <<>>)} : g \in {k[1] : k \in Nested(all.groups, <<>>)}
             /\ DOMAIN some.reg \subseteq DOMAIN all.reg
=============================================================================
