------------------------------ MODULE Resolve -------------------------------
(***************************************************************************)
(* What a reference means to the lowering (compilers/openapi resolve,      *)
(* navigation, fragment, ids): whether it names a position of the source   *)
(* or of another document, which document holds what its chain ends at,    *)
(* and the pointer and the ID that follow.  A world of references gives    *)
(* for each entry what the parser's resolver recorded of it (external).    *)
(***************************************************************************)
EXTENDS Naturals, Sequences, FiniteSets, SequencesExt

CONSTANTS MaxRefChain,       \* maxRefChain: the hops a chain is followed
          MaxNavigableHops   \* maxNavigableHops: the objects read through

----------------------------------------------------------------------------
\* SameDocument: a path is spelled, is a URL or is a file's; a file's is
\* absolute, below the working directory, or above it.
Cwd == <<"w">>
AbsPath(p) == CASE p.root -> p.segs
                [] ~p.root /\ p.up -> SubSeq(Cwd, 1, Len(Cwd) - 1) \o p.segs
                [] OTHER -> Cwd \o p.segs
IsLocal(p) == ~p.root /\ ~p.up
Cleaned(p) == <<p.root, p.up, p.segs>>
SameAnchor(a, b) == a.root = b.root /\ (a.root \/ (IsLocal(a) /\ IsLocal(b)))
SameDocument(a, b) ==
    /\ a.spelled # "" /\ b.spelled # ""
    /\ \/ a.spelled = b.spelled
       \/ ~a.url /\ ~b.url /\ (Cleaned(a) = Cleaned(b) \/ (~SameAnchor(a, b) /\ AbsPath(a) = AbsPath(b)))

\* SameDocument: two paths name one document exactly when they are spelled alike
\* or are one file's from the working directory, though it is seldom read.
DocumentsToldApart(a, b) ==
    SameDocument(a, b) <=> /\ a.spelled # "" /\ b.spelled # ""
                           /\ a.spelled = b.spelled \/ (~a.url /\ ~b.url /\ AbsPath(a) = AbsPath(b))

----------------------------------------------------------------------------
\* fragment.ForResolver: a fragment as its tokens; "%zz" cannot be unescaped.
FragmentPart(f) == IF \E i \in DOMAIN f : f[i] = "#" THEN SubSeq(f, 1, SelectInSeq(f, LAMBDA x : x = "#") - 1) ELSE f
CannotUnescape(part) == \E i \in DOMAIN part : part[i] = "%zz"
\* The resolver (external) query-unescapes what it can and keeps the rest raw.
ResolverReads(f) ==
    LET part == FragmentPart(f)
    IN  IF CannotUnescape(part) THEN part
        ELSE [i \in DOMAIN part |-> CASE part[i] = "+" -> " " [] part[i] = "%2B" -> "+" [] OTHER -> part[i]]
ForResolver(f) ==
    LET part == FragmentPart(f)
    IN  IF CannotUnescape(part) THEN f
        ELSE [i \in DOMAIN f |-> IF i <= Len(part) /\ f[i] = "+" THEN "%2B" ELSE f[i]]
FragmentText(f) == ResolverReads(ForResolver(f))
\* Pointer reads percent escapes and nothing else, and what cannot be read is
\* left as written; nothing past the part the resolver reads is respelled.
FragmentsRead(f) ==
    LET part == FragmentPart(f)
    IN  /\ FragmentText(f) = IF CannotUnescape(part) THEN part
                             ELSE [i \in DOMAIN part |-> IF part[i] = "%2B" THEN "+" ELSE part[i]]
        /\ SubSeq(ForResolver(f), Len(part) + 1, Len(f)) = SubSeq(f, Len(part) + 1, Len(f))

----------------------------------------------------------------------------
\* IDs: tokens are sequences of characters, a pointer a sequence of tokens.
EscapeChar(c) == CASE c = "~" -> <<"~", "0">> [] c = "/" -> <<"~", "1">> [] OTHER -> <<c>>
Escaped(chars) == FlattenSeq([i \in DOMAIN chars |-> EscapeChar(chars[i])])
Ptr(tokens) == FlattenSeq([i \in DOMAIN tokens |-> <<"/">> \o Escaped(tokens[i])])
QualifiedRaw(space, label) == <<space, "@">> \o label
Qualified(space, label) == <<space, "@">> \o Escaped(label)
SpaceIn(label, space) == IF label = <<>> THEN <<space>> ELSE Qualified(space, label)
Coordinate(label, tokens) == (IF label = <<>> THEN <<>> ELSE Qualified("", label)) \o Ptr(tokens)
\* componentEntrySplit and ComponentSchema: what a pointer addresses among the
\* component schemas.
ComponentSchema(tokens) ==
    CASE ~(Len(tokens) = 3 /\ tokens[1] = <<"components">> /\ tokens[2] = <<"schemas">>) -> "not"
      [] Len(tokens) = 3 /\ tokens[1] = <<"components">> /\ tokens[2] = <<"schemas">> /\ tokens[3] = <<>> -> "unnamed"
      [] OTHER -> "named"
SchemaSpace(tokens) == IF ComponentSchema(tokens) = "named" THEN "openapi" ELSE "anon"
IDText(kind, label, space, tokens) == <<kind, ":">> \o SpaceIn(label, space) \o Ptr(tokens)
ForPointer(label, tokens) == IDText("t", label, SchemaSpace(tokens), tokens)
Numbered(tokens, occurrence) == IF occurrence < 2 THEN tokens ELSE Append(tokens, <<ToString(occurrence)>>)
EnumMember(label, tokens, key, occurrence) ==
    IDText("e", label, SchemaSpace(tokens), Numbered(Append(tokens, key), occurrence))
ParamID(mount, name, in, occurrence) ==
    IDText("param", <<>>, "openapi", mount \o Numbered(<<<<"parameters">>, name, in>>, occurrence))
\* Namespaces: the type, property and enum member spaces declared for a compile
\* over the documents others.
NamespacesOf(others) == {SpaceIn(d, s) : d \in others \cup {<<>>}, s \in {"openapi", "anon", "composed"}}

\* One coordinate and one ID for each position of each document, whatever their
\* names hold, every space declared, and none of them the composed one.
IDsApart(x, y, others) ==
    /\ Coordinate(x.label, x.at) = Coordinate(y.label, y.at) => x = y
    /\ ForPointer(x.label, x.at) = ForPointer(y.label, y.at) => x = y
    /\ SpaceIn(x.label, SchemaSpace(x.at)) \in NamespacesOf(others)
    /\ ForPointer(x.label, x.at) # IDText("t", y.label, "composed", y.at)
    /\ ParamID(x.at, <<"n">>, <<"q">>, 2) = ParamID(y.at, <<"n">>, <<"q">>, 1) => x.at # y.at
    /\ \A k \in 1 .. 2 : EnumMember(x.label, x.at, <<"k">>, k) = EnumMember(y.label, y.at, <<"k">>, k) => x = y

----------------------------------------------------------------------------
\* A scope: over the source's content, or Foreign over what holder holds ("" for
\* no document at all).
InSource == [foreign |-> FALSE, holder |-> "source"]
InDocument(doc) == IF doc = "source" THEN InSource ELSE [foreign |-> TRUE, holder |-> doc]
NoDocument == [foreign |-> TRUE, holder |-> ""]

\* namesSelf and InternalPointer: a reference's document part is none, the
\* source's or another's; a fragment that is no pointer names no position.
NamesSelf(scope, uri) ==
    CASE ~scope.foreign /\ uri = "none" -> TRUE
      [] scope.foreign /\ scope.holder = "" -> FALSE
      [] OTHER -> (IF uri = "none" THEN scope.holder ELSE uri) = "source"
InternalPointer(scope, e) == e.pointer /\ NamesSelf(scope, e.uri)

\* endOf: where the chain of an entry ends; w[e].to is 0 for an inline entry
\* and for one that resolved nothing.
RECURSIVE HopsFrom(_, _, _)
HopsFrom(w, e, left) == IF left = 0 \/ w[e].to = 0 THEN <<e>> ELSE <<e>> \o HopsFrom(w, w[e].to, left - 1)
CutEnd == [doc |-> "cut", passes |-> 0]
EndOfHop(w, e) == [doc |-> w[e].resolved, passes |-> w[e].passes]
EndOfLast(w, e) == LET chain == HopsFrom(w, e, MaxRefChain) IN EndOfHop(w, chain[Len(chain) - 1])
EndOf(w, e) ==
    LET chain == HopsFrom(w, e, MaxRefChain)
    IN  IF w[chain[Len(chain)]].to # 0 THEN CutEnd ELSE EndOfHop(w, chain[Len(chain) - 1])

\* Scope.reached: the walk to the pointer may pass a reference of its own, which
\* is followed a turn each.
RECURSIVE Turned(_, _, _)
Turned(w, end, turns) ==
    CASE turns = 0 -> NoDocument
      [] turns > 0 /\ end.doc = "cut" -> NoDocument
      [] turns > 0 /\ end.doc # "source" /\ end.doc # "cut" -> InDocument(end.doc)
      [] OTHER -> IF end.passes = 0 THEN InSource ELSE Turned(w, EndOf(w, end.passes), turns - 1)
ScopeOf(w, scope, e) == IF w[e].to = 0 THEN scope ELSE Turned(w, EndOf(w, e), MaxRefChain)

\* Hops: each reference the chain passes after its entry, and the scope it is
\* in; Chained tells whether there is one.
Chained(w, e) == w[e].to # 0 /\ w[w[e].to].ref
HopsOf(w, e) ==
    LET chain == HopsFrom(w, e, MaxRefChain)
        n == Cardinality({i \in 2 .. Len(chain) : w[chain[i]].ref})
    IN  [i \in 1 .. n |-> [ref |-> chain[i + 1], foreign |-> Turned(w, EndOfHop(w, chain[i]), MaxRefChain).foreign]]

\* ObjectAt: the pointer of the declaration a chain ends at here, adopted only
\* once the chain has ended, and the hops noted, none of them when one is refused.
Refuses(w, e) == w[w[e].to].beside
RECURSIVE AdoptFrom(_, _, _, _, _)
AdoptFrom(w, scope, e, left, hops) ==
    CASE left = 0 -> [found |-> TRUE, at |-> 0, noted |-> hops]
      [] left > 0 /\ w[e].to = 0 -> [found |-> TRUE, at |-> IF hops = <<>> THEN 0 ELSE Last(hops), noted |-> hops]
      [] left > 0 /\ w[e].to # 0 /\ ~InternalPointer(scope, w[e]) -> [found |-> TRUE, at |-> 0, noted |-> hops]
      [] OTHER -> IF Refuses(w, e) THEN [found |-> FALSE, at |-> 0, noted |-> <<>>]
                  ELSE AdoptFrom(w, InSource, w[e].to, left - 1, Append(hops, w[e].to))
ObjectAt(w, scope, e) == AdoptFrom(w, scope, e, MaxRefChain, <<>>)

\* UseDocs: folded from the declaration outward, an empty field of a hop leaving
\* what is beneath it.
UseDocs(w, e, docs) ==
    LET chain == HopsFrom(w, e, MaxRefChain - 1)
    IN  FoldRight(LAMBDA hop, acc : IF w[hop].docs = "" THEN acc ELSE w[hop].docs, chain, docs)

\* retainUnreferencedComponents: an entry no lowering resolved a reference to.
RetainUnreferenced(entries, noted) == entries \ Range(noted)

\* What the resolver does (external): the document that holds an entry is where
\* the hop that found it resolved, past any reference its pointer passed.
RECURSIVE FinalOf(_, _)
FinalOf(w, e) == IF w[e].to = 0 THEN e ELSE FinalOf(w, w[e].to)
Consistent(w) ==
    \A e \in DOMAIN w : w[e].to # 0 =>
      /\ w[e].uri = "source" => w[e].resolved = "source"
      /\ w[e].uri = "other" => w[e].resolved = "other"
      /\ w[e].uri = "none" /\ w[e].home = "source" => w[e].resolved = "source"
      /\ w[w[e].to].home = IF w[e].resolved # "source" THEN w[e].resolved
                           ELSE IF w[e].passes = 0 THEN "source" ELSE w[FinalOf(w, w[e].passes)].home
      /\ w[e].passes # 0 => w[w[e].passes].to # 0
Bounded(w, e) == Len(HopsFrom(w, e, Cardinality(DOMAIN w))) <= MaxRefChain + 1
\* The turns a chain's scope takes, a walk to a pointer each.
RECURSIVE TurnsOf(_, _, _)
TurnsOf(w, e, left) ==
    LET chain == HopsFrom(w, e, Cardinality(DOMAIN w))
        h == w[chain[Len(chain) - 1]]
    IN  IF left = 0 THEN 0
        ELSE IF h.resolved # "source" \/ h.passes = 0 THEN 1 ELSE 1 + TurnsOf(w, h.passes, left - 1)

\* ScopeOf and Hops: what a chain reaches is read in the document that holds it;
\* past the bound it is read in none, where no reference names the source.
ScopesHeld(w) ==
    \A e \in DOMAIN w :
      LET s == ScopeOf(w, InDocument(w[e].home), e)
      IN  /\ \/ s = InDocument(w[FinalOf(w, e)].home)
             \/ s = NoDocument /\ (TurnsOf(w, e, MaxRefChain + 1) > MaxRefChain \/ \E x \in DOMAIN w : ~Bounded(w, x))
          /\ s = NoDocument => \A uri \in {"none", "source", "other"} : ~NamesSelf(s, uri)
          /\ ~Bounded(w, e) => s = NoDocument
          /\ \A h \in Range(HopsOf(w, e)) : ~h.foreign => w[h.ref].home = "source"
          /\ Chained(w, e) <=> HopsOf(w, e) # <<>>

\* ObjectAt: a pointer is adopted only where every hop of the chain resolved in
\* the source, and then it is where the chain ends; a refused chain reaches
\* nothing, so what only it passes is kept verbatim.
PointersAdopted(w) ==
    \A e \in DOMAIN w :
      LET got == ObjectAt(w, InDocument(w[e].home), e)
          chain == HopsFrom(w, e, Cardinality(DOMAIN w))
          hops == {chain[i] : i \in 1 .. Len(chain) - 1}
      IN  /\ got.at # 0 => got.at = FinalOf(w, e) /\ \A h \in hops : w[h].resolved = "source"
          /\ ~got.found => RetainUnreferenced(DOMAIN w, got.noted) = DOMAIN w
          /\ got.found /\ (\A h \in hops : w[h].pointer /\ w[h].resolved = "source" /\ w[h].home = "source") /\ Len(chain) <= MaxRefChain =>
               got.at = IF w[e].to = 0 THEN 0 ELSE FinalOf(w, e)
          /\ UseDocs(w, e, "declared") = (LET told == {i \in DOMAIN chain : i <= MaxRefChain /\ w[chain[i]].docs # ""}
                                          IN  IF told = {} THEN "declared" ELSE w[chain[CHOOSE i \in told : \A j \in told : i <= j]].docs)

----------------------------------------------------------------------------
\* The model a pointer is walked through: an object answers a token by a field
\* or an embedded map, or leaves for the mapping it was built from; a reference
\* stands for its target.  m[n] is [kind, kids, raw, stands].
RECURSIVE StandsFor(_, _, _)
StandsFor(m, n, left) == IF m[n].stands = 0 THEN n ELSE IF left = 0 THEN 0 ELSE StandsFor(m, m[n].stands, left - 1)
\* ReadingOf and objectReading, for at most maxNavigableHops objects.
ReadingOf(m, n, token) ==
    LET s == StandsFor(m, n, MaxNavigableHops - 1)
    IN  CASE m[n].kind = "raw" -> "leaving"
          [] m[n].kind = "nil" -> "answering"
          [] OTHER -> IF s = 0 \/ m[s].kind \in {"nil", "scalar"} THEN "answering"
                      ELSE IF m[s].kind = "raw" THEN "leaving"
                      ELSE IF token \in DOMAIN m[s].kids \/ m[s].raw = 0 THEN "answering" ELSE "leaving"
\* The library's read of one token (external): it reads through every object.
StepTo(m, n, token) ==
    LET s == StandsFor(m, n, Cardinality(DOMAIN m))
    IN  IF s = 0 THEN 0
        ELSE IF token \in DOMAIN m[s].kids THEN m[s].kids[token]
        ELSE IF m[s].raw # 0 /\ token \in DOMAIN m[m[s].raw].kids THEN m[m[s].raw].kids[token] ELSE 0
\* Scope.locate and leave: the last reference stepped past; a schema's own $ref
\* is a keyword, and raw YAML holds no reference.
LocateRef(m, tokens) ==
    LET RECURSIVE Go(_, _, _)
        Go(n, i, last) ==
          IF i > Len(tokens) \/ m[n].kind = "schema" THEN last
          ELSE LET next == StepTo(m, n, tokens[i])
                   past == IF m[n].kind = "ref" /\ next # 0 THEN n ELSE last
               IN  IF ReadingOf(m, n, tokens[i]) = "leaving" \/ next = 0 THEN past ELSE Go(next, i + 1, past)
    IN  Go(1, 1, 0)
\* The library's walk of the whole pointer: what it finds and the last reference
\* it reads through before it leaves the model.
LibraryWalk(m, tokens) ==
    LET RECURSIVE Go(_, _, _)
        Go(n, i, last) ==
          IF i > Len(tokens) THEN <<n, last>>
          ELSE LET next == StepTo(m, n, tokens[i])
               IN  IF next = 0 THEN <<0, last>> ELSE Go(next, i + 1, IF m[n].kind = "ref" THEN n ELSE last)
    IN  Go(1, 1, 0)
\* locate notes a reference exactly where the read through it finds something,
\* and for a pointer the library reads whole, the last it passed.
WalkLocated(m, tokens) ==
    LET whole == LibraryWalk(m, tokens)
        through == {i \in DOMAIN tokens : LibraryWalk(m, SubSeq(tokens, 1, i))[1] # 0}
    IN  /\ whole[1] # 0 => LocateRef(m, tokens) = whole[2]
        /\ LocateRef(m, tokens) \in {0} \cup {LibraryWalk(m, SubSeq(tokens, 1, i))[2] : i \in through}

----------------------------------------------------------------------------
\* A schema $ref as the bindings answer it: its hop's status, where it lands and
\* is spelled, whether it is on a loop, and what is declared there.
PlacedAt(h) == IF h.named /\ h.doc = "source" THEN [doc |-> "source", at |-> h.spelled] ELSE [doc |-> h.doc, at |-> h.target]
TargetOK(h) == h.entry /\ h.status = "resolved" /\ ~h.member
\* ComponentRef: a name the document does not declare is a dangling one.
ComponentRef(at, declares) ==
    IF ComponentSchema(at) # "named" THEN ComponentSchema(at) ELSE IF at[3] \in declares THEN "named" ELSE "undeclared"
HoistableDecl(decl) == decl \in {"body", "bool"}
NamesReferent(h, declares) ==
    LET p == PlacedAt(h)
        state == ComponentRef(p.at, declares)
    IN  /\ TargetOK(h)
        /\ IF p.doc = "source" /\ state \in {"named", "undeclared"} THEN state = "named" ELSE HoistableDecl(h.decl)
\* resolveSchemaRef, resolveAt and resolvePointer: the ID and the coordinate
\* promised, if any.
ResolvePointer(label, at, declares, decl) ==
    LET state == ComponentRef(at, declares)
    IN  IF label = <<>> /\ state \in {"named", "undeclared"}
        THEN [ok |-> state = "named", id |-> IDText("t", <<>>, "openapi", at), promised |-> <<>>]
        ELSE IF ~HoistableDecl(decl) THEN [ok |-> FALSE, id |-> <<>>, promised |-> <<>>]
        ELSE [ok |-> TRUE, id |-> ForPointer(label, at), promised |-> Coordinate(label, at)]
ResolveSchemaRef(h, declares) ==
    LET p == PlacedAt(h)
    IN  IF ~TargetOK(h) THEN [ok |-> FALSE, id |-> <<>>, promised |-> <<>>]
        ELSE ResolvePointer(IF p.doc = "source" THEN <<>> ELSE <<p.doc>>, p.at, declares, h.decl)

\* NamesReferent answers what resolveSchemaRef answers, and a reference resolves
\* to a declared component or to the position it promised, never to another.
ReferentsAgree(h, declares) ==
    LET r == ResolveSchemaRef(h, declares)
        p == PlacedAt(h)
    IN  /\ NamesReferent(h, declares) <=> r.ok
        /\ r.ok /\ r.promised = <<>> => p.doc = "source" /\ p.at[3] \in declares
        /\ r.ok /\ r.promised # <<>> => r.promised = Coordinate(IF p.doc = "source" THEN <<>> ELSE <<p.doc>>, p.at)
=============================================================================
