------------------------------- MODULE NodeView -------------------------------
(***************************************************************************)
(* nodeview: a mapping read as the parser reads it, its `<<` merges        *)
(* expanded.  A View memoizes expansions and indexes keys, and must answer *)
(* as a fresh view would whatever was read before.                         *)
(*                                                                         *)
(* d gives each mapping its pairs in order: a pair of its own, or the      *)
(* mappings a `<<` key merges.  Aliases are followed: a mapping is named   *)
(* by its number wherever it is used.                                      *)
(***************************************************************************)
EXTENDS Source

CONSTANTS MergeDepthLimit, MaxCachedPairs, MinIndexedPairs

Own(key, val) == [merge |-> FALSE, key |-> key, val |-> val, from |-> <<>>]
Merges(from) == [merge |-> TRUE, key |-> "", val |-> 0, from |-> from]

NewView == [pairs |-> <<>>, keys |-> <<>>, cached |-> NewBudget(AtMost(MaxCachedPairs)),
            inFlight |-> {}, exhausted |-> FALSE]
NoExpansion == [pairs |-> <<>>, merged |-> <<>>, repeat |-> <<>>, height |-> 0, complete |-> FALSE]

----------------------------------------------------------------------------
CopiesOf(pairs, key) == {i \in DOMAIN pairs : pairs[i].key = key}
KeepCopy(pairs, rule) ==
    LET kept == {i \in DOMAIN pairs : i = (IF rule = "last" THEN Max(CopiesOf(pairs, pairs[i].key))
                                           ELSE Min(CopiesOf(pairs, pairs[i].key)))}
    IN  [i \in 1 .. Cardinality(kept) |-> pairs[SetToSortSeq(kept, <)[i]]]
\* firstRepeat: the key whose second copy comes first, or none.
FirstRepeat(pairs) ==
    LET again == {i \in DOMAIN pairs : i # Min(CopiesOf(pairs, pairs[i].key))}
    IN  IF again = {} THEN <<>> ELSE <<pairs[Min(again)].key>>

\* flatten: what a merge brings that the mapping does not write, the first
\* source winning, then the mapping's own pairs.
SettlePairs(explicit, merged, rule) ==
    LET free == SelectSeq(merged, LAMBDA p : CopiesOf(explicit, p.key) = {})
    IN  KeepCopy(free, "first") \o KeepCopy(explicit, rule)

EntryPoint(v, depth) == depth = 0 /\ v.inFlight = {}
\* Mutant: a complete expansion answers at any depth.
ServesAlways(v, e, depth) == e.complete \/ EntryPoint(v, depth)
\* serves: only what a fresh view would answer here.
Serves(v, e, depth) == IF e.complete THEN depth + e.height <= MergeDepthLimit ELSE EntryPoint(v, depth)

\* memoize, while the pairs held fit the budget.
Memoize(v, n, e) ==
    LET held == Len(e.pairs) + (IF e.repeat # <<>> /\ e.repeat[2] = n THEN Len(e.merged) ELSE 0)
    IN  IF ~Admits(Remaining(v.cached), held) THEN v
        ELSE [v EXCEPT !.pairs = (n :> e) @@ @, !.cached = Spend(@, held)]

RECURSIVE Expand(_, _, _, _)
\* expandContent and mergeSource: each `<<` source in turn, read as a source is.
ExpandContent(d, v, n, depth) ==
    LET source(acc, m) ==
          LET got == Expand(d, acc.v, m, depth + 1)
          IN  [v |-> got.v, merged |-> acc.merged \o got.e.merged, complete |-> acc.complete /\ got.e.complete,
               height |-> Max({acc.height, got.e.height + 1}),
               repeat |-> IF acc.repeat # <<>> THEN acc.repeat ELSE got.e.repeat]
        pairs == SelectSeq(d[n], LAMBDA p : ~p.merge)
        tall(acc, p) == IF p.merge THEN [acc EXCEPT !.height = Max({@, 1})] ELSE acc
        all == FoldLeft(LAMBDA acc, p : FoldLeft(source, tall(acc, p), p.from),
                        [v |-> v, merged |-> <<>>, complete |-> TRUE, height |-> 0, repeat |-> <<>>], d[n])
        own == FirstRepeat(pairs)
    IN  [v |-> all.v,
         e |-> [pairs |-> SettlePairs(pairs, all.merged, "last"), merged |-> SettlePairs(pairs, all.merged, "first"),
                repeat |-> IF own # <<>> THEN <<own[1], n>> ELSE all.repeat,
                height |-> all.height, complete |-> all.complete]]
Expand(d, v, n, depth) ==
    LET c == ExpandContent(d, [v EXCEPT !.inFlight = @ \cup {n}], n, depth)
        after == [c.v EXCEPT !.inFlight = @ \ {n}]
    IN  IF n \in DOMAIN v.pairs /\ Serves(v, v.pairs[n], depth) THEN [v |-> v, e |-> v.pairs[n]]
        ELSE IF n \in v.inFlight THEN [v |-> v, e |-> NoExpansion]
        ELSE IF depth > MergeDepthLimit THEN [v |-> [v EXCEPT !.exhausted = TRUE], e |-> NoExpansion]
        ELSE [v |-> IF c.e.complete \/ EntryPoint(after, depth) THEN Memoize(after, n, c.e) ELSE after, e |-> c.e]

MappingPairs(d, v, n) == Expand(d, v, n, 0)
PairFor(pairs, key) ==
    LET at == CopiesOf(pairs, key) IN IF at = {} THEN 0 ELSE pairs[Min(at)].val

\* mappingChild and keyIndex: an index is built on the second read of a wide
\* mapping whose pairs the memo holds, and read without asking again.
MappingChild(d, v, n, token) ==
    LET got == MappingPairs(d, v, n)
        wide == Len(got.e.pairs) >= MinIndexedPairs /\ n \in DOMAIN got.v.pairs
        marked == n \in DOMAIN v.keys
        entry == IF marked THEN got.e.pairs ELSE <<>>
    IN  IF marked /\ v.keys[n] # <<>> THEN [v |-> v, child |-> PairFor(v.keys[n], token)]
        ELSE [v |-> IF wide THEN [got.v EXCEPT !.keys = (n :> entry) @@ @] ELSE got.v,
              child |-> PairFor(got.e.pairs, token)]

\* childOfSource reads at the first copy.
SourceCopy(rule) == "first"
\* childIn: Child without building the pairs.
RECURSIVE ChildIn(_, _, _, _, _)
ChildIn(d, n, key, rule, path) ==
    LET own == {i \in DOMAIN d[n] : ~d[n][i].merge /\ d[n][i].key = key}
        sources == FoldLeft(LAMBDA s, p : s \o p.from, <<>>, d[n])
        inSource == [i \in DOMAIN sources |-> ChildIn(d, sources[i], key, SourceCopy(rule), Append(path, n))]
        found == {i \in DOMAIN sources : inSource[i] # 0}
    IN  IF Len(path) > MergeDepthLimit \/ n \in ToSet(path) THEN 0
        ELSE IF own # {} THEN d[n][IF rule = "last" THEN Max(own) ELSE Min(own)].val
        ELSE IF found = {} THEN 0 ELSE inSource[Min(found)]

----------------------------------------------------------------------------
\* Walk.Run over a Source tree, with a bound on nodes and one on depth; prune
\* and stop are what Visit answers, aliases whether one stands for its target.
VisitOf(w, n) == IF w.follows /\ Aliased(w.t, n) THEN w.t.alias[n] ELSE n
\* A node past the depth is not visited, and the walk says so.
DeepCut(out) == [out EXCEPT !.cut = TRUE]
RECURSIVE RunWalk(_, _, _)
RunWalk(w, stack, out) ==
    LET f == Last(stack)
        rest == Front(stack)
        n == VisitOf(w, f.n)
        push == Append(rest, [f EXCEPT !.n = n, !.leave = TRUE])
                \o [i \in DOMAIN Content(w.t, n) |->
                      [n |-> Reverse(Content(w.t, n))[i], depth |-> f.depth + 1, leave |-> FALSE]]
        seen == [out EXCEPT !.visited = Append(@, n)]
    IN  IF stack = <<>> THEN out
        ELSE IF f.leave THEN RunWalk(w, rest, [out EXCEPT !.left = Append(@, f.n)])
        ELSE IF Len(out.visited) >= w.nodes THEN [out EXCEPT !.cut = TRUE]
        ELSE IF w.depth > 0 /\ f.depth > w.depth THEN RunWalk(w, rest, DeepCut(out))
        ELSE IF n = w.stop THEN [seen EXCEPT !.stopped = TRUE]
        ELSE RunWalk(w, IF n = w.prune THEN rest ELSE push, seen)
Walked(w) == RunWalk(w, <<[n |-> 1, depth |-> 0, leave |-> FALSE]>>,
                     [visited |-> <<>>, left |-> <<>>, cut |-> FALSE, stopped |-> FALSE])

----------------------------------------------------------------------------
\* Reads share a view: each is answered as a view of its own would answer.
ViewPure(d, reads) ==
    LET read(acc, r) ==
          LET got == IF r.token = "" THEN MappingPairs(d, acc.v, r.n) ELSE MappingChild(d, acc.v, r.n, r.token)
              answer == IF r.token = "" THEN got.e ELSE got.child
              alone == IF r.token = "" THEN MappingPairs(d, NewView, r.n).e ELSE MappingChild(d, NewView, r.n, r.token).child
          IN  [v |-> got.v, same |-> acc.same /\ answer = alone]
    IN  FoldLeft(read, [v |-> NewView, same |-> TRUE], reads).same

\* Child finds the value MappingPairs pairs with the key, through merges, chains
\* past the depth bound, cycles and repeated keys.
ChildAsPaired(d, n, key) == ChildIn(d, n, key, "last", <<>>) = PairFor(MappingPairs(d, NewView, n).e.pairs, key)

\* A walk that does not say it was cut or stopped visited every node no prune
\* hides, and left each node it descended into after all that is below it.
WalkHonest(w) ==
    LET out == Walked(w)
        hidden(n) == w.prune \in Ancestors(w.t, n)
        at(n) == CHOOSE i \in DOMAIN out.left : out.left[i] = n
    IN  (~out.cut /\ ~out.stopped /\ ~w.follows) =>
          /\ ToSet(out.visited) = {n \in TreeNodes(w.t) : ~hidden(n)} /\ IsInjective(out.visited)
          /\ ToSet(out.left) = ToSet(out.visited) \ {w.prune}
          /\ \A a, b \in ToSet(out.left) : a \in Ancestors(w.t, b) => at(b) < at(a)

===============================================================================
