------------------------------ MODULE Escapes ------------------------------
(***************************************************************************)
(* $refs respelled for the resolver and put back as written                *)
(* (compilers/openapi/internal/load, escapes.go).                          *)
(*                                                                         *)
(* The resolver reads '+' in a fragment as a space, and reads a document   *)
(* part by name alone.  So each $ref of a tree is respelled while models   *)
(* are built from it, and tree and models are put back when they are.      *)
(*                                                                         *)
(* A tree is the sequence of its values in the order a walk meets them:    *)
(* whether each is the value of a $ref key, and the scalar it holds or the *)
(* index of the one it is an alias of.  A $ref's value is the name of its  *)
(* document, how often that was respelled, and its fragment as characters. *)
(***************************************************************************)
EXTENDS Integers, Sequences, FiniteSets, SequencesExt

None == [doc |-> "none", minted |-> 0, fragment |-> <<>>]

\* refuses, refused and forResolver: a document part the read refuses by its name is
\* respelled under a scheme of the compiler's own, which no read follows either.
Refuses(v) == v.doc = "refused" \/ v.minted > 0
ForResolver(v) ==
    [doc |-> v.doc,
     minted |-> IF Refuses(v) THEN v.minted + 1 ELSE v.minted,
     fragment |-> [i \in DOMAIN v.fragment |-> IF v.fragment[i] = "+" THEN "%2B" ELSE v.fragment[i]]]
WritesEscape(v) == \E i \in DOMAIN v.fragment : v.fragment[i] = "%2B"

\* Strings compare by bytes, and '%' is before '+' and every letter.
Rank(c) == IF c = "%2B" THEN 0 ELSE IF c = "+" THEN 1 ELSE 2
Less(v, w) ==
    /\ Len(v.fragment) = Len(w.fragment)
    /\ \E i \in DOMAIN v.fragment : /\ Rank(v.fragment[i]) < Rank(w.fragment[i])
                                    /\ \A j \in 1 .. i - 1 : v.fragment[j] = w.fragment[j]

Deref(tree, n) == IF tree[n].alias = 0 THEN n ELSE tree[n].alias
ValueAt(tree, n) == tree[Deref(tree, n)].value

----------------------------------------------------------------------------
\* escapes: what was respelled, node by node, with each node changed as it was.
NewEscapes(tree) ==
    [tree |-> tree, written |-> <<>>, changed |-> <<>>, spellings |-> <<>>, verbatim |-> {}, minted |-> {}]
Put(f, x, y) == [z \in DOMAIN f \cup {x} |-> IF z = x THEN y ELSE f[z]]

\* becomeScalar: the node keeps its place and holds the value itself.
BecomeScalar(e, n, value) ==
    [e EXCEPT !.changed = Append(@, [node |-> n, was |-> e.tree[n]]),
              !.tree = [@ EXCEPT ![n] = [ref |-> @.ref, alias |-> 0, value |-> value]]]

\* escape, of one $ref value: an alias becomes a scalar of its own, so the scalar it
\* names is not changed.
EscapeRef(e, n) ==
    LET v == ValueAt(e.tree, n)
        spelled == ForResolver(v)
        noted == [e EXCEPT
                    !.spellings = IF spelled \notin DOMAIN @ \/ Less(v, @[spelled]) THEN Put(@, spelled, v) ELSE @,
                    !.minted = IF Refuses(v) THEN @ \cup {[doc |-> v.doc, minted |-> spelled.minted]} ELSE @,
                    !.written = Put(@, n, v)]
    IN  IF spelled = v THEN [e EXCEPT !.verbatim = IF WritesEscape(v) THEN @ \cup {v} ELSE @]
        ELSE BecomeScalar(noted, n, spelled)
RECURSIVE EscapeRefs(_, _)
EscapeRefs(e, n) ==
    IF n > Len(e.tree) THEN e
    ELSE EscapeRefs(IF e.tree[n].ref THEN EscapeRef(e, n) ELSE e, n + 1)
\* Mutant: an alias outside a $ref is left on the scalar respelled.
EscapeRefsOnly(tree) == EscapeRefs(NewEscapes(tree), 1)
\* aliasesOutsideRefs: an alias of a $ref respelled may be text, and keeps it as written.
Escape(tree) ==
    LET e == EscapeRefs(NewEscapes(tree), 1)
        respelled == {n \in DOMAIN e.written : tree[n].alias = 0}
        text[n \in 0 .. Len(tree)] ==
            IF n = 0 THEN e
            ELSE IF ~tree[n].ref /\ tree[n].alias \in respelled THEN BecomeScalar(text[n - 1], n, e.written[tree[n].alias])
            ELSE text[n - 1]
    IN  text[Len(tree)]

\* restoreTrees.
RestoreTrees(e) ==
    LET back[i \in 0 .. Len(e.changed)] ==
            IF i = 0 THEN e.tree ELSE [back[i - 1] EXCEPT ![e.changed[i].node] = e.changed[i].was]
    IN  back[Len(e.changed)]
\* original, refCopies and add: a model built while the tree was respelled is put back
\* by the scalar it was built from, before the tree is.
PutBack(e, n) ==
    LET at == Deref(e.tree, n) IN IF at \in DOMAIN e.written THEN e.written[at] ELSE ValueAt(e.tree, n)
\* asWritten and respellings: what a message quotes of the spelling handed over.
AsWritten(e, spelled) ==
    IF spelled \in DOMAIN e.spellings /\ spelled \notin e.verbatim THEN e.spellings[spelled] ELSE spelled

\* A $ref that is an alias of one the walk respelled before it.  Such a $ref is
\* respelled again where its document is refused, and is taken for one the source
\* writes with "%2B" where it is not.
RespelledTwice(tree) ==
    \E n \in DOMAIN tree : /\ tree[n].ref /\ tree[n].alias # 0 /\ tree[n].alias < n
                           /\ tree[tree[n].alias].ref
                           /\ ForResolver(ValueAt(tree, n)) # ValueAt(tree, n)

\* While models are built, every $ref reads as the resolver should read it and all
\* other text as written.  Afterwards the tree is what it was, whatever was an alias
\* of what, and every model and every message says what the source writes; a document
\* refused by its name is known by the name the resolver asks for.
SpelledAndRestored(tree) ==
    LET e == Escape(tree)
        refs == {n \in DOMAIN tree : tree[n].ref}
    IN  /\ RestoreTrees(e) = tree
        /\ \A n \in DOMAIN tree \ refs : ValueAt(e.tree, n) = ValueAt(tree, n)
        /\ \A n \in refs : Refuses(ValueAt(tree, n)) =>
             LET v == ValueAt(e.tree, n) IN [doc |-> v.doc, minted |-> v.minted] \in e.minted
        /\ ~RespelledTwice(tree) =>
             \A n \in refs :
               LET v == ValueAt(tree, n) IN
               /\ ValueAt(e.tree, n) = ForResolver(v)
               /\ PutBack(e, n) = v
               /\ \E m \in refs : /\ AsWritten(e, ForResolver(v)) = ValueAt(tree, m)
                                  /\ ForResolver(ValueAt(tree, m)) = ForResolver(v)

----------------------------------------------------------------------------
\* restorer: the models reached from those the lowering reads.  Each model has the
\* objects its chain reached, and an object the models its walk yields.
Add(r, m) ==
    IF m \in r.seen THEN r
    ELSE [seen |-> r.seen \cup {m}, walked |-> r.walked, queue |-> r.queue \o r.chain[m], chain |-> r.chain]
\* Mutant: an object already seen as a model is not walked.
AddObjectUnseen(r, o, within) ==
    IF o \in r.walked \cup r.seen THEN r
    ELSE FoldLeft(Add, [Add(r, o) EXCEPT !.walked = @ \cup {o}], within[o])
AddObject(r, o, within) ==
    IF o \in r.walked THEN r
    ELSE FoldLeft(Add, [Add(r, o) EXCEPT !.walked = @ \cup {o}], within[o])
RECURSIVE DrainQueue(_, _)
DrainQueue(r, within) ==
    IF r.queue = <<>> THEN r
    ELSE DrainQueue(AddObject([r EXCEPT !.queue = Tail(@)], Head(r.queue), within), within)
Restored(chain, within, source, built) ==
    LET seen == FoldLeft(Add, [seen |-> {}, walked |-> {}, queue |-> <<>>, chain |-> chain], source)
        added[i \in 0 .. Len(built)] == IF i = 0 THEN seen ELSE AddObject(added[i - 1], built[i], within)
    IN  DrainQueue(added[Len(built)], within).seen

\* Every model the lowering can come to read is put back, by whichever of the source,
\* a chain, an object or a landing it is first met.
EveryModelPut(chain, within, source, built) ==
    LET objects(S) == {o \in DOMAIN chain : \E m \in S : o \in ToSet(chain[m])}
        held(O) == O \cup {m \in DOMAIN chain : \E o \in O : m \in ToSet(within[o])}
        reach[i \in 0 .. Cardinality(DOMAIN chain)] ==
            IF i = 0 THEN ToSet(source) \cup held(ToSet(built)) ELSE reach[i - 1] \cup held(objects(reach[i - 1]))
    IN  Restored(chain, within, source, built) = reach[Cardinality(DOMAIN chain)]
=============================================================================
