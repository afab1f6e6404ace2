-------------------------------- MODULE Walk --------------------------------
(***************************************************************************)
(* The traversals of ir: WalkValues, which shows a value graph to several  *)
(* visitors at once, the deep copy of an edit, TypeEdges, the path log and *)
(* the references gathered on a walk.                                      *)
(*                                                                         *)
(* A graph g gives each object its kind and the objects it holds, in       *)
(* order.  An object is reached through a reference of its kind: a pointer *)
(* or a slice (a map is one whose entries come in key order).  A step down *)
(* counts one level.  pruned gives each visitor the objects whose children *)
(* it declines.                                                            *)
(***************************************************************************)
EXTENDS Naturals, Sequences, FiniteSets, SequencesExt, FiniteSetsExt

Root == 1
Pointer(g, o) == g.kind[o] = "pointer"
Objects(g) == DOMAIN g.kids

----------------------------------------------------------------------------
\* WalkValues.  log is what was shown to whom and by which path, seen the
\* visitors that entered each pointer, inside the references the walk is in.

\* newValueWalk, and the entry of the pointer a walk is rooted at.
NewWalk(g, visitors) ==
    [log |-> <<>>, steps |-> <<>>, inside |-> {Root}, cycles |-> {}, cut |-> FALSE,
     seen |-> [o \in Objects(g) |-> IF o = Root THEN visitors ELSE {}]]

\* Mutant: a pointer one visitor entered is entered by no other.
FreshForAll(w, o, active) == IF w.seen[o] = {} THEN active ELSE {}

\* pointer: the visitors that have not entered the pointer yet.
Fresh(w, o, active) == active \ w.seen[o]

\* closesCycle: a reference met from inside itself, told to the visitors there.
ClosesCycle(w, o, active) ==
    [w EXCEPT !.cycles = @ \cup (IF o \in w.inside THEN {<<v, o, w.steps>> : v \in active} ELSE {})]

\* walk and descend: o is shown, unless it is past the cap, and entered for the
\* visitors that ask.  children, pointer, sequence and mapping: a pointer is
\* entered once for each visitor, a slice whenever the walk is not inside it.
RECURSIVE WalkInto(_, _, _, _, _, _, _), Children(_, _, _, _, _, _, _, _)
WalkInto(g, pruned, cap, w, o, depth, active) ==
    LET asking == {v \in active : o \notin pruned[v]}
        shown == [w EXCEPT !.log = Append(@, [to |-> active, object |-> o, path |-> w.steps])]
    IN  IF depth > cap THEN [w EXCEPT !.cut = TRUE]
        ELSE IF asking = {} THEN shown
        ELSE Children(g, pruned, cap, shown, o, depth, asking, 1)
Children(g, pruned, cap, w, o, depth, active, i) ==
    IF i > Len(g.kids[o]) THEN w
    ELSE LET k == g.kids[o][i]
             entering == IF Pointer(g, k) THEN Fresh(w, k, active)
                         ELSE IF k \in w.inside THEN {} ELSE active
             into == [w EXCEPT !.inside = @ \cup {k}, !.steps = Append(@, i),
                               !.seen[k] = IF Pointer(g, k) THEN @ \cup entering ELSE @]
             down == WalkInto(g, pruned, cap, into, k, depth + 1, entering)
             after == IF entering = {} THEN ClosesCycle(w, k, active)
                      ELSE [down EXCEPT !.inside = w.inside, !.steps = w.steps]
         IN  Children(g, pruned, cap, after, o, depth, active, i + 1)

\* One traversal for all visitors.
WalkValues(g, pruned, cap, visitors) ==
    WalkInto(g, pruned, cap, NewWalk(g, visitors), Root, 0, visitors)

\* What one visitor is shown and told of a walk.
ShownTo(w, v) ==
    LET mine == SelectSeq(w.log, LAMBDA s : v \in s.to)
    IN  [i \in DOMAIN mine |-> <<mine[i].object, mine[i].path>>]
ToldTo(w, v) == {c \in w.cycles : c[1] = v}

----------------------------------------------------------------------------
\* cloneNode.  copies lists the references copied, in order, and edges where
\* each value of the copy leads: the place among the copies.

\* A reference is copied once: its copy is recorded before it is filled in.
Met(g, c, o) == \E k \in DOMAIN c.copies : c.copies[k] = o

\* fill, pointer, fields, slice and entries.
RECURSIVE Fill(_, _, _, _, _, _)
Fill(g, cap, c, o, depth, i) ==
    IF depth > cap THEN [c EXCEPT !.cut = TRUE]
    ELSE IF i > Len(g.kids[o]) THEN c
    ELSE LET k == g.kids[o][i]
             down == Fill(g, cap, [c EXCEPT !.copies = Append(@, k)], k, depth + 1, 1)
             at == IF Met(g, c, k) THEN CHOOSE p \in DOMAIN c.copies : c.copies[p] = k
                   ELSE Len(c.copies) + 1
             next == IF Met(g, c, k) THEN c ELSE down
         IN  Fill(g, cap, [next EXCEPT !.edges = Append(@, [from |-> o, at |-> i, to |-> at])],
                  o, depth, i + 1)

CloneNode(g, cap) == Fill(g, cap, [copies |-> <<Root>>, edges |-> <<>>, cut |-> FALSE], Root, 0, 1)

----------------------------------------------------------------------------
Past(depth, cap) == depth > cap

\* descent and TypeEdges: the objects a typed traversal reaches, which enters
\* nothing it is inside and remembers nothing it has left.
RECURSIVE EdgesFrom(_, _, _, _, _)
EdgesFrom(g, cap, inside, o, depth) ==
    IF Past(depth, cap) THEN {}
    ELSE {o} \cup UNION {EdgesFrom(g, cap, inside \cup {k}, k, depth + 1) :
                         k \in ToSet(g.kids[o]) \ inside}
TypeEdges(g, cap) == EdgesFrom(g, cap, {Root}, Root, 0)

----------------------------------------------------------------------------
\* PathLog: each path is kept as the steps it shares with the one before it and
\* the rest.

SharedSteps(a, b) ==
    LET n == Min({Len(a), Len(b)})
    IN  CHOOSE k \in 0 .. n : /\ \A i \in 1 .. k : a[i] = b[i]
                              /\ k = n \/ a[k + 1] # b[k + 1]

\* Record: the log after the path.
Record(log, path) ==
    LET shared == SharedSteps(log.last, path)
        tail == SubSeq(path, shared + 1, Len(path))
    IN  [last |-> SubSeq(log.last, 1, shared) \o tail,
         tails |-> log.tails \o tail,
         entries |-> Append(log.entries, [shared |-> shared, end |-> Len(log.tails) + Len(tail)])]
EmptyLog == [last |-> <<>>, tails |-> <<>>, entries |-> <<>>]
LogOf(paths) == FoldLeft(Record, EmptyLog, paths)

\* All: the steps of each path, from those of the one before.
Replay(log) ==
    LET start(i) == IF i = 1 THEN 0 ELSE log.entries[i - 1].end
        path[i \in 0 .. Len(log.entries)] ==
          IF i = 0 THEN <<>>
          ELSE SubSeq(path[i - 1], 1, log.entries[i].shared)
               \o SubSeq(log.tails, start(i) + 1, log.entries[i].end)
    IN  [i \in DOMAIN log.entries |-> path[i]]

----------------------------------------------------------------------------
\* IDReferences.  An object declares an ID of its own, and names one; keyed says
\* whether a registry of the document keys the class, and keys which it holds.

\* Visit and refer: the references kept, for what was declared so far.
Kept(w, declares, names, keyed, keys) ==
    LET order == [i \in DOMAIN w.log |-> w.log[i].object]
        known(i) == IF keyed THEN keys ELSE {declares[order[j]] : j \in 1 .. i}
    IN  {i \in DOMAIN order : names[order[i]] # 0 /\ names[order[i]] \notin known(i)}

\* Mutant: a walk that was cut is believed.
DanglesCut(id, declared, keyed, cut) == keyed \/ id \notin declared

\* dangles: a class the walk's nodes declare is only judged when it read them all.
Dangles(id, declared, keyed, cut) == keyed \/ (~cut /\ id \notin declared)

\* Unresolved: the IDs named that nothing declares.
Unresolved(w, declares, names, keyed, keys) ==
    LET order == [i \in DOMAIN w.log |-> w.log[i].object]
        declared == {declares[order[i]] : i \in DOMAIN order}
    IN  {names[order[i]] : i \in {k \in Kept(w, declares, names, keyed, keys) :
                                    Dangles(names[order[k]], declared, keyed, w.cut)}}

----------------------------------------------------------------------------
\* What can be reached from an object in at least one step, and from the root.
Beyond(g, from) ==
    LET step(S) == S \cup UNION {ToSet(g.kids[o]) : o \in S}
        within[n \in 0 .. Cardinality(Objects(g))] ==
          IF n = 0 THEN ToSet(g.kids[from]) ELSE step(within[n - 1])
    IN  within[Cardinality(Objects(g))]
Reached(g) == {Root} \cup Beyond(g, Root)
Cyclic(g) == \E o \in Reached(g) : o \in Beyond(g, o)

\* Visitors that share a traversal see what each would see alone: the same
\* values by the same paths in the same order, and the same cycles, whatever
\* the others prune; and the walk was cut when one of them would have been.
SharedAsAlone(g, pruned, cap, visitors) ==
    LET shared == WalkValues(g, pruned, cap, visitors)
        alone(v) == WalkValues(g, pruned, cap, {v})
    IN  /\ \A v \in visitors : /\ ShownTo(shared, v) = ShownTo(alone(v), v)
                               /\ ToldTo(shared, v) = ToldTo(alone(v), v)
        /\ shared.cut = (\E v \in visitors : alone(v).cut)

\* A walk that prunes nothing and is not cut reports a cycle exactly when the
\* value has no finite encoding.
CyclesReported(g, visitor) ==
    LET w == WalkValues(g, [v \in {visitor} |-> {}], Cardinality(Objects(g)), {visitor})
    IN  (w.cycles # {}) = Cyclic(g)

\* A deep copy keeps the shape: every reference has one copy, shared where it
\* was shared, in a cycle where it was in one; and one that is cut is refused.
CloneKeepsShape(g) ==
    LET c == CloneNode(g, Cardinality(Objects(g)))
    IN  /\ ~c.cut
        /\ Len(c.copies) = Cardinality(Reached(g)) /\ ToSet(c.copies) = Reached(g)
        /\ \A o \in Reached(g) : \A i \in DOMAIN g.kids[o] :
             Cardinality({x \in DOMAIN c.edges : c.edges[x].from = o /\ c.edges[x].at = i}) = 1
        /\ \A x \in DOMAIN c.edges : c.copies[c.edges[x].to] = g.kids[c.edges[x].from][c.edges[x].at]

\* TypeEdges finds what a walk finds, though it follows a shared pointer from
\* each field and the walk follows it once, and nothing less than a walk the
\* same cap cuts.
EdgesAsWalked(g, cap) ==
    LET w == WalkValues(g, [v \in {"edges"} |-> {}], cap, {"edges"})
    IN  /\ {w.log[i].object : i \in DOMAIN w.log} \subseteq TypeEdges(g, cap)
        /\ TypeEdges(g, Cardinality(Objects(g))) = Reached(g)

\* A path log replays the paths recorded into it.
LogReplays(paths) == Replay(LogOf(paths)) = paths

\* The references reported are those nothing declares, wherever on the walk the
\* declaration comes; and a walk that was cut accuses no reference wrongly.
DanglingReported(g, cap, declares, names) ==
    LET w == WalkValues(g, [v \in {"ids"} |-> {}], cap, {"ids"})
        real == {names[o] : o \in Reached(g)} \ ({declares[o] : o \in Reached(g)} \cup {0})
        told == Unresolved(w, declares, names, FALSE, {})
    IN  IF w.cut THEN told \subseteq real ELSE told = real

=============================================================================
