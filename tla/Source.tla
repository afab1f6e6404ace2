-------------------------------- MODULE Source --------------------------------
(***************************************************************************)
(* A decoded YAML source before the parser sees it: budgets of counts that *)
(* saturate (budget), the index one walk takes (sourceindex), the refusals *)
(* of what expands or nests too far (scan), and an overlay's application   *)
(* under the node budget (overlay).                                        *)
(*                                                                         *)
(* A tree t numbers its nodes in document order: t.parent (0 for the root, *)
(* 1), t.alias (the node an alias names, 0 for no alias), t.token (the     *)
(* bytes a holder reaches the node by) and t.merged (under a merge key).   *)
(* A mapping's keys are read with the values they name.                    *)
(***************************************************************************)
EXTENDS Naturals, Integers, Sequences, FiniteSets, SequencesExt, FiniteSetsExt

CONSTANTS MaxInt,                \* math.MaxInt
          MaxAliasAmplification, \* maxAliasAmplification
          MinExpandedNodes       \* minExpandedNodes

----------------------------------------------------------------------------
\* Limit and Budget.

\* sum: held at MaxInt.
SatSum(a, b) == IF b > MaxInt - a THEN MaxInt ELSE a + b

Unbounded == [most |-> 0, bounded |-> FALSE]
AtMost(n) == [most |-> IF n < 0 THEN 0 ELSE n, bounded |-> TRUE]
FromOption(value, def) == IF value < 0 THEN Unbounded ELSE IF value = 0 THEN AtMost(def) ELSE AtMost(value)
Admits(l, n) == ~l.bounded \/ n <= l.most
CapOf(l) == IF l.bounded THEN l.most ELSE MaxInt
PastOf(l) == SatSum(CapOf(l), 1)
PlusOf(l, o) == IF l.bounded /\ o.bounded THEN AtMost(SatSum(l.most, o.most)) ELSE Unbounded

NewBudget(l) == [limit |-> l, spent |-> 0, cut |-> FALSE]
Exhausted(b) == b.cut \/ ~Admits(b.limit, b.spent)
Spend(b, n) == IF n < 0 THEN [b EXCEPT !.cut = TRUE] ELSE [b EXCEPT !.spent = SatSum(@, n)]
Exhaust(b) == [b EXCEPT !.cut = TRUE, !.spent = Max({@, PastOf(b.limit)})]
Remaining(b) ==
    IF Exhausted(b) THEN AtMost(0) ELSE IF b.limit.bounded THEN AtMost(b.limit.most - b.spent) ELSE Unbounded

----------------------------------------------------------------------------
\* The tree.

TreeNodes(t) == DOMAIN t.parent
Aliased(t, n) == t.alias[n] # 0
Content(t, n) == SetToSortSeq({c \in TreeNodes(t) : t.parent[c] = n}, <)
\* childrenOf: what a node's expansion depends on.
ChildrenIn(t, n) == IF Aliased(t, n) THEN <<t.alias[n]>> ELSE Content(t, n)
Container(t, n) == Content(t, n) # <<>>

RECURSIVE Ancestors(_, _)
Ancestors(t, n) == IF t.parent[n] = 0 THEN {} ELSE {t.parent[n]} \cup Ancestors(t, t.parent[n])

\* recordAlias: the aliases that name one of their own ancestors.
AnchorCycles(t) == {n \in TreeNodes(t) : t.alias[n] \in Ancestors(t, n)}

\* Every pointer through an edge is longer by its token and a separator.
EdgeBytes(t, c, nodes) == Min({MaxInt, nodes * (Len(t.token[c]) + 1)})

\* Measure.shapeOf and holding: a subtree's nesting, nodes and pointer bytes,
\* a node still being measured counts as nothing.
RECURSIVE Measured(_, _, _, _)
MeasureAll(t, m, inFlight, nodes) ==
    FoldLeft(LAMBDA acc, c : Measured(t, acc, inFlight, c), m, Reverse(nodes))
Measured(t, m, inFlight, n) ==
    LET over == SelectSeq(ChildrenIn(t, n), LAMBDA c : c \notin inFlight \cup {n})
        done == MeasureAll(t, m, inFlight \cup {n}, over)
        nothing == [nesting |-> 0, nodes |-> 0, pointers |-> 0]
        of(c) == IF c \in DOMAIN done THEN done[c] ELSE nothing
        holding(s, c) ==
          [nesting |-> Max({s.nesting, of(c).nesting}), nodes |-> SatSum(s.nodes, of(c).nodes),
           pointers |-> SatSum(s.pointers, SatSum(EdgeBytes(t, c, of(c).nodes), of(c).pointers))]
        held == FoldLeft(holding, [nothing EXCEPT !.nodes = 1], Content(t, n))
        shape == IF Aliased(t, n) THEN of(t.alias[n])
                 ELSE [held EXCEPT !.nesting = @ + (IF Container(t, n) THEN 1 ELSE 0)]
    IN  IF n \in DOMAIN m THEN m ELSE (n :> shape) @@ done
ShapeOf(t, n) == Measured(t, <<>>, {}, n)[n]
\* Build: one walk counts and measures, and keeps the aliases to an ancestor.
Indexed(t, maxNodes) ==
    [ShapeOf(t, 1) EXCEPT !.nodes = Min({Cardinality(TreeNodes(t)), Max({0, maxNodes})})]
    @@ [cycles |-> AnchorCycles(t), expanded |-> ShapeOf(t, 1).nodes, truncated |-> Cardinality(TreeNodes(t)) > maxNodes]
\* PointerAmplification and nestingWithin leave a recursive anchor to its own refusal.
PointersRefused(idx, allowance) == idx.pointers > allowance /\ idx.cycles = {}
NestingRefused(idx, limit) == idx.nesting > limit /\ idx.cycles = {}

----------------------------------------------------------------------------
\* aliasWeigher.  A child met while it is in flight is cut at the first count
\* past the allowance.

\* A node past the allowance by its own content, or by a cycle.
Innermost(l, weight, kids, w) ==
    ~Admits(l, weight) /\ \A c \in ToSet(kids) : c \in w.cut \/ Admits(l, w.weight[c])

RECURSIVE WeighFrom(_, _, _, _)
WeighFrom(t, l, w, n) ==
    LET kids == ChildrenIn(t, n)
        flying == w.inFlight \cup {n}
        cycles == {c \in ToSet(kids) : c \in flying}
        cut == [w EXCEPT !.inFlight = flying, !.cut = @ \cup cycles,
                         !.weight = [c \in cycles |-> PastOf(l)] @@ @]
        done == FoldLeft(LAMBDA acc, c : WeighFrom(t, l, acc, c), cut, Reverse(kids))
        total == FoldLeft(LAMBDA b, c : Spend(b, done.weight[c]), Spend(NewBudget(l), 1), kids)
        weight == IF Aliased(t, n) THEN done.weight[t.alias[n]] ELSE Min({total.spent, PastOf(l)})
    IN  IF n \in DOMAIN w.weight THEN w
        ELSE IF n \in DOMAIN done.weight THEN done
        ELSE [done EXCEPT !.inFlight = @ \ {n}, !.weight = (n :> weight) @@ @,
                          !.innermost = IF Innermost(l, weight, kids, done) THEN Append(@, n) ELSE @]
WeighAliases(t, l) ==
    WeighFrom(t, l, [weight |-> <<>>, inFlight |-> {}, cut |-> {}, innermost |-> <<>>], 1)

ShapeAllowance(raw) ==
    IF raw > MaxInt \div MaxAliasAmplification THEN AtMost(MaxInt)
    ELSE AtMost(Max({MaxAliasAmplification * raw, MinExpandedNodes}))

----------------------------------------------------------------------------
\* Least: the node of several whose pointer is least in byte order, found from
\* the top down, a level at a time.

Separator == <<1>>
\* stepsIn: the node is held where its pointer reads, not under a merge key.
HeldIn(t, n) == ~\E a \in Ancestors(t, n) \cup {n} : t.merged[a]
RECURSIVE PointerOf(_, _)
PointerOf(t, n) == IF t.parent[n] = 0 THEN <<>> ELSE PointerOf(t, t.parent[n]) \o Separator \o t.token[n]

RECURSIVE ByteLess(_, _)
ByteLess(a, b) ==
    IF b = <<>> THEN FALSE ELSE IF a = <<>> THEN TRUE
    ELSE Head(a) < Head(b) \/ (Head(a) = Head(b) /\ ByteLess(Tail(a), Tail(b)))

\* What only leads to a wanted node is followed by the separator.
StepKey(t, n, want) == IF n \in want THEN t.token[n] ELSE t.token[n] \o Separator

\* leastSteps, of the nodes under level on the way to a wanted node.
LeastSteps(t, level, want) ==
    LET leads(n) == n \in want \/ \E x \in want : n \in Ancestors(t, x)
        under == {n \in TreeNodes(t) : t.parent[n] \in level /\ leads(n)}
    IN  {n \in under : \A o \in under : ~ByteLess(StepKey(t, o, want), StepKey(t, n, want))}
RECURSIVE DescendLeast(_, _, _, _)
DescendLeast(t, level, nodes, want) ==
    LET found == {i \in DOMAIN nodes : nodes[i] \in level \cap want}
    IN  IF level = {} THEN nodes[1]
        ELSE IF found # {} THEN nodes[Min(found)]
        ELSE DescendLeast(t, LeastSteps(t, level, want), nodes, want)
LeastOf(t, nodes) ==
    IF Len(nodes) = 1 THEN nodes[1]
    ELSE DescendLeast(t, {1}, nodes, {n \in ToSet(nodes) : HeldIn(t, n)})

\* aliasAmplification, once recursive anchors are refused: one weighing against
\* the bound that binds, and a second to name a document past both.
AliasesRefused(t, surplus) ==
    LET raw == Cardinality(TreeNodes(t))
        shape == ShapeAllowance(raw)
        bound == PlusOf(AtMost(raw), surplus)
        budgeted == CapOf(bound) < CapOf(shape)
        culprits == WeighAliases(t, IF budgeted THEN bound ELSE shape).innermost
        bombs == WeighAliases(t, shape).innermost
    IN  IF AnchorCycles(t) # {} THEN [code |-> "cyclic-ref", at |-> LeastOf(t, SetToSortSeq(AnchorCycles(t), <))]
        ELSE IF culprits = <<>> THEN [code |-> "none", at |-> 0]
        ELSE IF ~budgeted \/ bombs # <<>>
        THEN [code |-> "alias-amplification", at |-> LeastOf(t, bombs)]
        ELSE [code |-> "budget-exceeded", at |-> LeastOf(t, culprits)]

\* tooDeep.
DeepPast(level, nesting, limit) == level + nesting > limit

\* deepSites: where the tree first nests past the bound, on each way down.
RECURSIVE SitesFrom(_, _, _, _)
SitesFrom(t, limit, n, level) ==
    LET deep == {c \in ToSet(Content(t, n)) : DeepPast(level, ShapeOf(t, c).nesting, limit)}
        site(c) == IF t.merged[c] THEN {n}
                   ELSE IF level = limit THEN {c}
                   ELSE SitesFrom(t, limit, c, level + (IF Container(t, c) THEN 1 ELSE 0))
    IN  IF deep = {} THEN {n} ELSE UNION {site(c) : c \in deep}
DeepSites(t, limit) ==
    LET top == IF Container(t, 1) THEN 1 ELSE 0
    IN  IF top > limit THEN {1}
        ELSE IF ~DeepPast(0, ShapeOf(t, 1).nesting, limit) THEN {}
        ELSE SitesFrom(t, limit, 1, top)

----------------------------------------------------------------------------
\* The overlay's weigher: the nodes the library's clone builds, which follows an
\* alias and copies it too.  Each node is weighed once.

\* A clone of it would not end.
Endless(l) == PastOf(l)

RECURSIVE CloneWeight(_, _, _, _, _)
CloneWeight(t, l, memo, onPath, n) ==
    LET kids == ChildrenIn(t, n)
        step(acc, c) ==
          IF Exhausted(acc.total) THEN acc
          ELSE LET m == CloneWeight(t, l, acc.memo, onPath \cup {n}, c)
               IN  [memo |-> m.memo, total |-> Spend(acc.total, m.weight)]
        sum == FoldLeft(step, [memo |-> memo, total |-> Spend(NewBudget(l), 1)], kids)
        weight == Min({sum.total.spent, PastOf(l)})
    IN  IF n \in DOMAIN memo THEN [memo |-> memo, weight |-> memo[n]]
        ELSE IF n \in onPath THEN [memo |-> memo, weight |-> Endless(l)]
        ELSE [memo |-> (n :> weight) @@ sum.memo, weight |-> weight]
Weigh(t, l, n) == CloneWeight(t, l, <<>>, {}, n).weight

\* An action adds at most matches copies of weight nodes, really adds adds, and
\* takes removes away of what is there.  cost, held at the first count past the budget.
Cost(l, a) ==
    IF a.matches = 0 THEN 0
    ELSE IF a.weight > PastOf(l) \div a.matches THEN PastOf(l) ELSE a.weight * a.matches

\* measure: a count that stops one node past the budget.
MeasuredSize(l, size) == Spend(NewBudget(l), Min({size, PastOf(l)}))

\* Mutant: the running size is believed.
RefuseOnCharge(l, running, size, cost) == running
\* Before a refusal the tree is counted afresh.
Recount(l, running, size, cost) == Spend(MeasuredSize(l, size), cost)

\* charge and step, over the actions: the tree's size, the running size, and the
\* first action refused.
ChargeAction(l, st, a) ==
    LET cost == Cost(l, a)
        spent == Spend(st.running, cost)
        again == Recount(l, spent, st.size, cost)
        charged == IF cost = 0 THEN st.running ELSE IF ~Exhausted(spent) THEN spent ELSE again
        built == Max({1, st.size + a.adds - a.removes})
    IN  IF st.refused THEN st
        ELSE IF cost > 0 /\ Exhausted(charged)
        THEN [st EXCEPT !.refused = TRUE, !.wanted = st.size + a.weight * a.matches]
        ELSE [st EXCEPT !.running = charged, !.size = built,
                        !.built = IF cost > 0 THEN Append(@, st.size + a.weight * a.matches) ELSE @]
RunSequence(l, size, actions) ==
    FoldLeft(LAMBDA st, a : ChargeAction(l, st, a),
             [size |-> size, running |-> MeasuredSize(l, size), refused |-> FALSE, wanted |-> 0, built |-> <<>>],
             actions)

----------------------------------------------------------------------------
\* repairGrafts.  After the application some nodes of t are in no Content list
\* the root reaches; t.parent of such a node is 0.

InTree(t) == {n \in TreeNodes(t) : n = 1 \/ 1 \in Ancestors(t, n)}

\* children: the step to a node, none to a `<<` merge's value (or to one of a
\* list of them), whose members are read as the merging mapping's own.
FrameStep(t, n) == IF t.merged[n] THEN <<>> ELSE t.token[n]
Down(path, step) == IF step = <<>> THEN path ELSE Append(path, step)

\* What a node stands for with every alias followed, to a depth of fuel.
RECURSIVE MeaningOf(_, _, _)
MeaningOf(t, n, fuel) ==
    IF fuel = 0 THEN <<"end">>
    ELSE IF Aliased(t, n) THEN MeaningOf(t, t.alias[n], fuel - 1)
    ELSE [i \in DOMAIN Content(t, n) |-> <<FrameStep(t, Content(t, n)[i]), MeaningOf(t, Content(t, n)[i], fuel - 1)>>]

\* expandAlias: a copy that holds no aliases, each node copied spending.
RECURSIVE ExpandAlias(_, _, _)
ExpandAlias(t, n, work) ==
    LET spent == Spend(work, 1)
        kids == Content(t, n)
        step(acc, c) ==
          IF ~acc.ok THEN acc
          ELSE LET e == ExpandAlias(t, c, acc.work)
               IN  [ok |-> e.ok, work |-> e.work, out |-> Append(acc.out, <<FrameStep(t, c), e.out>>)]
    IN  IF Exhausted(spent) THEN [ok |-> FALSE, work |-> spent, out |-> <<>>]
        ELSE IF Aliased(t, n) THEN ExpandAlias(t, t.alias[n], spent)
        ELSE FoldLeft(step, [ok |-> TRUE, work |-> spent, out |-> <<>>], kids)

\* Mutant: an alias to a grafted node is left where it is.
KeptAlias(t, n) == FALSE
\* substituteChildren: a child that is an alias to a node outside the tree.
Grafted(t, n) == Aliased(t, n) /\ t.alias[n] \notin InTree(t)

\* substituteGrafts: each graft replaced by its content.  out is what the readers
\* of the tree then see, to whom an alias names a node of the tree or nothing.
RECURSIVE Repaired(_, _, _)
Repaired(t, n, work) ==
    LET step(acc, c) ==
          LET spent == Spend(acc.work, 1)
              e == IF Grafted(t, c) THEN ExpandAlias(t, t.alias[c], spent) ELSE Repaired(t, c, spent)
          IN  IF ~acc.ok THEN acc
              ELSE IF Exhausted(spent) THEN [acc EXCEPT !.ok = FALSE]
              ELSE [ok |-> e.ok, work |-> e.work, out |-> Append(acc.out, <<FrameStep(t, c), e.out>>)]
        seen == IF t.alias[n] \in InTree(t) THEN MeaningOf(t, n, 9) ELSE <<>>
    IN  IF Aliased(t, n) THEN [ok |-> TRUE, work |-> work, out |-> seen]
        ELSE FoldLeft(step, [ok |-> TRUE, work |-> work, out |-> <<>>], Content(t, n))

\* Every position of what a graft was replaced by.
RECURSIVE Positions(_, _)
Positions(out, path) == {path} \cup UNION {Positions(out[i][2], Down(path, out[i][1])) : i \in DOMAIN out}

\* attribute: the positions whose node the snapshot lacks or had another value
\* for.  before gives the source's nodes their values, value the tree's now.
RECURSIVE Attributed(_, _, _, _, _)
Attributed(t, before, value, n, path) ==
    LET changed == n \notin DOMAIN before \/ before[n] # value[n]
        below(c) == IF Grafted(t, c) THEN Positions(MeaningOf(t, c, 9), Down(path, FrameStep(t, c)))
                    ELSE Attributed(t, before, value, c, Down(path, FrameStep(t, c)))
    IN  {path : x \in {y \in {1} : changed}} \cup UNION {below(c) : c \in ToSet(Content(t, n))}
\* snapshot and attribute each visit what a Content walk reaches, within walks.
RECURSIVE Visited(_)
Visited(out) == 1 + FoldLeft(LAMBDA a, c : a + Visited(c[2]), 0, out)
\* repairGrafts: normalized when the tree was walked within walks, safe unless a
\* graft could not be replaced; readers is what a Content walk then visits.
RepairGrafts(t, walks) ==
    LET normalized == Admits(walks, Cardinality(InTree(t)))
        leafed == [t EXCEPT !.alias = [n \in DOMAIN @ |-> IF Grafted(t, n) THEN @[n] ELSE 0]]
    IN  [normalized |-> normalized, safe |-> ~normalized \/ Repaired(t, 1, NewBudget(walks)).ok,
         readers |-> Visited(Repaired(leafed, 1, NewBudget(Unbounded)).out)]

\* Past the bound every position keeps the source.
Degraded(t, walks, complete, found) == IF complete THEN found ELSE {}

\* applyWithin, of an overlay whose actions ran: what is refused, and whose each
\* position is.
ApplyWithin(t, walks, before, value) ==
    LET r == RepairGrafts(t, walks)
        complete == Admits(walks, Cardinality(DOMAIN before)) /\ r.normalized /\ Admits(walks, r.readers)
    IN  [applied |-> r.safe,
         pointers |-> IF r.safe THEN Degraded(t, walks, complete, Attributed(t, before, value, 1, <<>>)) ELSE {}]
\* Origin.IndexAt and IndexOf.
IndexAt(o, pointer) == IF pointer \in o.pointers THEN "overlay" ELSE "source"
IndexOf(o, pointer, from) ==
    LET indices == {IndexAt(o, p) : p \in from}
    IN  IF Cardinality(indices) = 1 THEN CHOOSE i \in indices : TRUE ELSE IndexAt(o, pointer)

----------------------------------------------------------------------------
\* No charge wraps: a budget is exhausted exactly when what was charged, held at
\* MaxInt, is past its limit or a charge was negative, it never recovers, and
\* what Remaining admits is what can still be spent.
BudgetSound(l, charges) ==
    LET b(n) == FoldLeft(Spend, NewBudget(l), SubSeq(charges, 1, n))
        real(n) == FoldLeft(LAMBDA a, c : a + Max({c, 0}), 0, SubSeq(charges, 1, n))
        negative(n) == \E i \in 1 .. n : charges[i] < 0
    IN  \A n \in 0 .. Len(charges) :
          /\ Exhausted(b(n)) = (negative(n) \/ ~Admits(l, Min({real(n), MaxInt})))
          /\ n > 0 /\ Exhausted(b(n - 1)) => Exhausted(b(n))
          /\ l.most < MaxInt /\ ~Exhausted(b(n)) =>
               \A c \in 0 .. MaxInt : Admits(Remaining(b(n)), c) = ~Exhausted(Spend(b(n), c))
          /\ Exhausted(Exhaust(b(n)))

\* The expansion of a node, by definition, where no alias leads back to it.
RECURSIVE TrueWeight(_, _)
TrueWeight(t, n) ==
    IF Aliased(t, n) THEN TrueWeight(t, t.alias[n])
    ELSE FoldLeft(LAMBDA a, c : a + TrueWeight(t, c), 1, Content(t, n))
RECURSIVE TrueClone(_, _)
TrueClone(t, n) == FoldLeft(LAMBDA a, c : a + TrueClone(t, c), 1, ChildrenIn(t, n))
\* The lengths of the pointers to everything below n, and how deep it nests.
RECURSIVE TruePaths(_, _)
TruePaths(t, n) ==
    IF Aliased(t, n) THEN TruePaths(t, t.alias[n])
    ELSE <<0>> \o FoldLeft(LAMBDA a, c : a \o [i \in DOMAIN TruePaths(t, c) |-> TruePaths(t, c)[i] + Len(t.token[c]) + 1],
                           <<>>, Content(t, n))
RECURSIVE TrueNesting(_, _)
TrueNesting(t, n) ==
    IF Aliased(t, n) THEN TrueNesting(t, t.alias[n])
    ELSE IF ~Container(t, n) THEN 0
    ELSE 1 + Max({TrueNesting(t, c) : c \in ToSet(Content(t, n))})

\* An alias names a node written before it, so a tree whose aliases name none of
\* their ancestors expands to an end: no node leads back to itself.
AcyclicOnceRefused(t) ==
    LET next == [n \in TreeNodes(t) |-> ToSet(ChildrenIn(t, n))]
        reach[k \in 0 .. Cardinality(TreeNodes(t))] ==
          IF k = 0 THEN next
          ELSE LET r == reach[k - 1] IN [n \in TreeNodes(t) |-> r[n] \cup UNION {next[m] : m \in r[n]}]
        closure == reach[Cardinality(TreeNodes(t))]
    IN  AnchorCycles(t) = {} => \A n \in TreeNodes(t) : n \notin closure[n]

\* What the index measures is the tree the parser builds.
ShapeSound(t) ==
    AnchorCycles(t) = {} =>
      LET s == Indexed(t, Len(t.parent))
          paths == TruePaths(t, 1)
          held(n) == Min({n, MaxInt})
      IN  /\ s.nesting = TrueNesting(t, 1)
          /\ s.expanded = held(Len(paths)) /\ ~s.truncated
          /\ s.pointers = held(FoldLeft(LAMBDA a, p : a + p, 0, paths))
          /\ PointersRefused(s, 9) = (s.pointers > 9)

\* A document is refused for its aliases exactly when it expands past what it
\* may, for the shape when it is past that too, at the least of the innermost
\* nodes past the bound.
RefusedRightly(t, surplus) ==
    LET r == AliasesRefused(t, surplus)
        raw == Cardinality(TreeNodes(t))
        real == TrueWeight(t, 1)
        shape == ShapeAllowance(raw)
        past(n) == ~Admits(IF r.code = "budget-exceeded" THEN PlusOf(AtMost(raw), surplus) ELSE shape, TrueWeight(t, n))
    IN  /\ (r.code = "cyclic-ref") = (AnchorCycles(t) # {})
        /\ AnchorCycles(t) = {} =>
             /\ (r.code = "alias-amplification") = ~Admits(shape, real)
             /\ (r.code = "budget-exceeded") = (Admits(shape, real) /\ ~Admits(PlusOf(AtMost(raw), surplus), real))
             /\ r.code # "none" => past(r.at) /\ \A c \in ToSet(ChildrenIn(t, r.at)) : ~past(c)

\* The site several candidates are reported at is the least of their pointers,
\* whatever order they come in.
SiteLeast(t) ==
    \A s \in {x \in [1 .. 3 -> TreeNodes(t) \ {1}] : IsInjective(x)} :
      LET at == LeastOf(t, s)
      IN  (\E i \in DOMAIN s : HeldIn(t, s[i])) =>
            /\ HeldIn(t, at)
            /\ \A i \in DOMAIN s : HeldIn(t, s[i]) => ~ByteLess(PointerOf(t, s[i]), PointerOf(t, at))

\* A place past the bound is named exactly when the document nests past it.
DeepNamed(t, limit) ==
    AnchorCycles(t) = {} =>
      /\ (DeepSites(t, limit) # {}) = (TrueNesting(t, 1) > limit)
      /\ NestingRefused(Indexed(t, Len(t.parent)), limit) = (DeepSites(t, limit) # {})

\* The clone's weight is what it would build, and without end past any limit.
CloneWeighed(t, l) ==
    Weigh(t, l, 1) = (IF AnchorCycles(t) # {} THEN PastOf(l) ELSE Min({TrueClone(t, 1), PastOf(l)}))

\* An action that builds is applied only when all it can build fits beside the
\* tree as it stands, and refused only when it does not, whatever earlier
\* actions added or removed.
ChargedRightly(l, size, actions) ==
    LET st == RunSequence(l, size, actions)
    IN  /\ \A i \in DOMAIN st.built : Admits(l, st.built[i])
        /\ st.refused => ~Admits(l, st.wanted)

\* Repairing grafts loses nothing: what the readers see then is what the
\* parser, which follows aliases, reads.
RepairKeepsMeaning(t, l) ==
    LET r == Repaired(t, 1, NewBudget(l))
    IN  r.ok => r.out = MeaningOf(t, 1, 9)

RECURSIVE AddressOf(_, _)
AddressOf(t, n) == IF n = 1 THEN <<>> ELSE Down(AddressOf(t, t.parent[n]), FrameStep(t, n))
\* An overlay is answerable for all it wrote (each node new or rewritten, and all a
\* graft brought) or for nothing, nothing when a walk of the tree before or after
\* stopped short, and all when none is bounded; and a mapping is the overlay's by its
\* members only when it wrote every one.
OriginWhole(t, walks, before, value) ==
    LET o == ApplyWithin(t, walks, before, value)
        all == Positions(MeaningOf(t, 1, 9), <<>>)
        new == {n \in InTree(t) : n \notin DOMAIN before \/ before[n] # value[n]}
        grafts == {n \in InTree(t) : Grafted(t, n)}
        wrote == {AddressOf(t, n) : n \in new \ grafts} \cup UNION {Positions(MeaningOf(t, n, 9), AddressOf(t, n)) : n \in grafts}
        under(p) == {q \in all : Len(q) = Len(p) + 1 /\ SubSeq(q, 1, Len(p)) = p}
    IN  /\ o.pointers \in {{}, wrote} /\ (walks = Unbounded => o.pointers = wrote)
        /\ o.pointers # {} => \A read \in {DOMAIN before, InTree(t)} : Admits(walks, Cardinality(read))
        /\ \A p \in all : IndexOf(o, p, under(p)) = "overlay" =>
                            p \in wrote \/ (under(p) # {} /\ under(p) \subseteq wrote)

===============================================================================
