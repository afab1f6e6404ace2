------------------------------- MODULE Bind -------------------------------
(***************************************************************************)
(* The reference table (compilers/openapi/internal/bind): every schema     *)
(* $ref of a source, and of each document one reaches, read into an answer.*)
(*                                                                         *)
(* Whether a URI is an identifier turns on which documents are read, and   *)
(* which are read on what the URIs name, so the table is read in passes: a *)
(* pass answers every reference against what the documents counted declare,*)
(* holds back the documents absolute URIs name until its walks are done,   *)
(* and is read again when what it reached changes an answer it gave.       *)
(*                                                                         *)
(* A world maps each name to a document; a position is a name and one of   *)
(* its places: 0, its root, or a place directly below it.  The root of the *)
(* source is the OpenAPI object, and every other position a schema, which  *)
(* may write an identifier, a $ref and a discriminator's mapping value.    *)
(* URIs are written here as resolveURI spells them, and a done context,    *)
(* after which no one reads the table, is left out.                        *)
(***************************************************************************)
EXTENDS Integers, Sequences, FiniteSets, SequencesExt, FiniteSetsExt, TLC

CONSTANTS
    Absolute,      \* the names that are absolute URIs
    MaxRereads     \* a bound of this model: the passes Bind is followed for

Source == "s"
NoRef == [uri |-> "none", at |-> 0]

\* comparePositions and byName: the source first, another document by its
\* name, in the order given, then the place.
Before(order, p, q) ==
    LET of(name) == CHOOSE i \in DOMAIN order : order[i] = name
    IN  IF p[1] = q[1] THEN p[2] < q[2] ELSE p[1] = Source \/ (q[1] # Source /\ of(p[1]) < of(q[1]))
InTurn(S, lt(_, _)) == [i \in 1 .. Cardinality(S) |-> CHOOSE x \in S : Cardinality({y \in S : lt(y, x)}) = i - 1]
Sorted(b, S) == InTurn(S, LAMBDA p, q : Before(b.order, p, q))
Least(b, S) == CHOOSE p \in S : \A q \in S : q = p \/ Before(b.order, p, q)

----------------------------------------------------------------------------
\* resources: a document's own, or one an identifier naming another URI roots.
OwnResource(d) == [root |-> <<d, 0>>, uri |-> d, id |-> FALSE]
Enter(w, in, p) ==
    LET id == w[p[1]].ids[p[2]]
    IN  IF id = "" \/ id = in.uri THEN in
        ELSE IF id = p[1] THEN OwnResource(p[1])
        ELSE [root |-> p, uri |-> id, id |-> TRUE]
Holding(w, p) ==
    LET top == IF p[1] = Source THEN OwnResource(Source) ELSE Enter(w, OwnResource(p[1]), <<p[1], 0>>)
    IN  IF p[2] = 0 THEN top ELSE Enter(w, top, p)

\* finder.identify: what the schemas of a document declare, read whole.
DeclaredBy(w, d) == {<<Holding(w, <<d, p>>).uri, <<d, p>>>> :
                       p \in {i \in DOMAIN w[d].ids : Holding(w, <<d, i>>).id /\ Holding(w, <<d, i>>).root = <<d, i>>}}

\* identifiers: what answers is what the documents counted declare, or every
\* document read, once a change would return to declarations read against.
Answering(b) == UNION {DeclaredBy(b.w, d) : d \in {x \in b.read : b.every \/ x \in b.counted}}
AnswerIn(uris, uri) == {x[2] : x \in {y \in uris : y[1] = uri}}
ChangesAsked(b, uris) == \E u \in b.asked : AnswerIn(uris, u) # AnswerIn(b.uris, u)
CommitForgetful(b, counted) ==
    LET c == [b EXCEPT !.counted = counted]
    IN  [c EXCEPT !.uris = Answering(c), !.changed = ChangesAsked(b, Answering(c))]
Commit(b, counted) ==
    LET c == [b EXCEPT !.counted = counted]
        e == [c EXCEPT !.every = @ \/ (ChangesAsked(b, Answering(c)) /\ counted \in b.readings)]
    IN  [e EXCEPT !.uris = Answering(e), !.changed = ChangesAsked(b, Answering(e))]
Begin(b) == [b EXCEPT !.uris = Answering(b), !.readings = @ \cup {b.counted}]
\* grow counts the documents reached since, and answers again only the URIs
\* they declare; a change to one asked is left for commit to judge.
Grow(b, reached) ==
    LET c == [b EXCEPT !.counted = @ \cup reached]
        affected == {x[1] : x \in UNION {DeclaredBy(b.w, d) : d \in reached}}
        next == {x \in Answering(c) : x[1] \in affected}
    IN  IF \E u \in affected \cap b.asked : AnswerIn(next, u) # AnswerIn(b.uris, u)
        THEN [c EXCEPT !.changed = TRUE]
        ELSE [c EXCEPT !.uris = {x \in @ : x[1] \notin affected} \cup next, !.changed = FALSE]

----------------------------------------------------------------------------
\* docs: each document opened once, its failure kept, and what a pass reached.
Spend(b, n) == [b EXCEPT !.steps = @ + n]
Over(b) == b.limit >= 0 /\ b.steps > b.limit
Reach(b, d) == [b EXCEPT !.fresh = IF d \in b.reached THEN @ ELSE @ \cup {d}, !.reached = @ \cup {d}]
OpenDoc(b, d) ==
    IF d \in b.opened THEN Reach(b, d)
    ELSE IF d \in b.failed \/ ~b.opens THEN b
    ELSE IF b.w[d].fails # "" THEN [Spend(b, 1) EXCEPT !.failed = @ \cup {d}]
    ELSE Reach([Spend(b, 1) EXCEPT !.opened = @ \cup {d}], d)
Unread(b, d) == d \notin b.opened /\ d \notin b.failed /\ b.opens

\* named, opened and read: the resource a reference's document part names.  An
\* identifier answers before a location does, and a location an absolute URI
\* names is held until the walks of the pass are done.
To(b, res, reason) == [b |-> b, res |-> res, reason |-> reason]
ReadNamed(b, d) ==
    IF d \in Absolute /\ Unread(b, d) THEN To([b EXCEPT !.held = @ \cup {d}], OwnResource(d), "Held")
    ELSE LET o == OpenDoc(b, d)
         IN  To(o, OwnResource(d), IF d \in o.opened THEN "" ELSE IF ~b.opens THEN "ExternalOff" ELSE b.w[d].fails)
NamedBy(b, in, uri) ==
    LET a == [b EXCEPT !.asked = @ \cup {uri}]
        found == AnswerIn(b.uris, uri)
        at == CHOOSE p \in found : TRUE
    IN  CASE uri = "" -> To(b, in, "")
          [] uri = Source -> To(b, OwnResource(Source), "")
          [] uri \notin {"", Source} /\ Cardinality(found) = 1 -> To(Reach(a, at[1]), [root |-> at, uri |-> uri, id |-> TRUE], "")
          [] uri \notin {"", Source} /\ Cardinality(found) > 1 -> To(a, in, "DuplicateID")
          [] OTHER -> ReadNamed(a, uri)

\* land and answers: the position a pointer names from the root of a resource.
LandAt(w, res, at) ==
    LET p == IF res.root[2] = 0 THEN <<res.root[1], at>> ELSE res.root
    IN  IF (at > 0 /\ res.root[2] > 0) \/ p[2] \notin DOMAIN w[p[1]].refs
        THEN [at |-> p, reason |-> IF res.id THEN "NoResourceTarget" ELSE "NoTarget"]
        ELSE [at |-> p, reason |-> IF p = <<Source, 0>> THEN "NotSchema" ELSE ""]
Unresolved(reason) == [status |-> "Unresolved", reason |-> reason, target |-> <<Source, 0>>]
ResolvedTo(p) == [status |-> "Resolved", reason |-> "", target |-> p]
Cut == [status |-> "OverBudget", reason |-> "", target |-> <<Source, 0>>]
ResolveRef(b, site, ref) ==
    LET to == NamedBy(b, Holding(b.w, site), ref.uri)
        land == LandAt(b.w, to.res, ref.at)
    IN  [b |-> to.b, hop |-> IF to.reason # "" THEN Unresolved(to.reason)
                             ELSE IF land.reason # "" THEN Unresolved(land.reason) ELSE ResolvedTo(land.at)]

\* landed, walk and walkPending: where a hop lands is walked as a schema, with
\* everything below it, once; the model holds the source's own schemas.
Landed(b, p) == [b EXCEPT !.pending = @ \cup {p}, !.landings = IF p[1] = Source THEN @ ELSE @ \cup {p}]
RefAt(b, p) == b.w[p[1]].refs[p[2]]
MapAt(b, p) == b.w[p[1]].maps[p[2]]
HoldsRef(b, p) == RefAt(b, p) # NoRef
Visit(b, S) ==
    LET sites == {p \in S : HoldsRef(b, p)} \ b.sites
        maps == {p \in S : MapAt(b, p) # NoRef} \ b.mapSites
    IN  [b EXCEPT !.sites = @ \cup sites, !.fresh1 = @ \cup sites, !.mapSites = @ \cup maps, !.freshMaps = @ \cup maps]
WalkFrom(b, p) ==
    LET below == (IF p[2] = 0 THEN {<<p[1], i>> : i \in DOMAIN b.w[p[1]].refs} ELSE {p}) \ b.covered
    IN  Visit([Spend(b, 1 + Cardinality(below)) EXCEPT !.covered = @ \cup below, !.read = @ \cup {p[1]}], below)
WalkPending(b) ==
    LET roots == {p \in b.pending : p[1] # Source}
    IN  [FoldLeft(WalkFrom, [b EXCEPT !.pending = {}], Sorted(b, roots)) EXCEPT !.walked = roots # {}]

----------------------------------------------------------------------------
\* hop: the $ref at a position is read once and remembered.
HopAt(b, p) ==
    IF p \in DOMAIN b.hops THEN b
    ELSE LET r == ResolveRef(Spend(b, 1), p, RefAt(b, p))
             h == IF Over(r.b) THEN Cut ELSE r.hop
             s == [r.b EXCEPT !.hops = @ @@ (p :> h)]
         IN  IF h.status = "Resolved" THEN Landed(s, h.target)
             ELSE IF h.reason = "Held" THEN [s EXCEPT !.heldSites = @ \cup {p}] ELSE s

\* closeLoop: the members of a loop are settled and taken off the path.
EndsIn(status, end, hops, member) == [status |-> status, end |-> end, hops |-> hops, member |-> member]
Nowhere == <<Source, 0>>
Settled(b, positions, end) == [b EXCEPT !.chains = @ @@ [p \in positions |-> end]]
CloseLoop(b, members) ==
    [Settled(b, members, EndsIn("Cyclic", Nowhere, 0, TRUE)) EXCEPT !.loops = @ \cup {[members |-> members, site |-> Least(b, members)]}]

\* follow and chain: a chain runs until it meets what is settled, what waits,
\* itself, a hop that ends it or a position that writes no $ref; every position
\* passed is settled on the way back, or waits.
RECURSIVE FollowRefs(_, _, _)
FollowRefs(b, p, path) ==
    LET out(c, l, end, waits) == [b |-> c, path |-> l, end |-> end, waits |-> waits]
        none == EndsIn("Unresolved", Nowhere, 0, FALSE)
        i == CHOOSE k \in 1 .. Len(path) : path[k] = p
        h == HopAt(b, p)
        hop == h.hops[p]
    IN  IF p \in DOMAIN b.chains THEN out(b, path, b.chains[p], FALSE)
        ELSE IF p \in b.waitsOn THEN out(b, path, none, TRUE)
        ELSE IF p \in Range(path)
             THEN out(CloseLoop(b, Range(SubSeq(path, i, Len(path)))), SubSeq(path, 1, i - 1), EndsIn("Cyclic", Nowhere, 0, FALSE), FALSE)
        ELSE IF Over(h) THEN out(h, path, EndsIn("OverBudget", Nowhere, 0, FALSE), FALSE)
        ELSE IF hop.status # "Resolved" THEN out(h, Append(path, p), none, hop.reason = "Held")
        ELSE IF ~HoldsRef(h, hop.target) THEN out(h, Append(path, p), EndsIn("Resolved", hop.target, 0, FALSE), FALSE)
        ELSE FollowRefs(h, hop.target, Append(path, p))
SettleBack(b, path, end) ==
    [b EXCEPT !.chains = @ @@ [p \in Range(path) |->
       IF end.status # "Resolved" THEN [end EXCEPT !.member = FALSE]
       ELSE [end EXCEPT !.hops = @ + 1 + Len(path) - (CHOOSE k \in 1 .. Len(path) : path[k] = p)]]]
ChainOf(b, site) ==
    LET f == FollowRefs(b, site, <<>>)
    IN  IF f.waits THEN [f.b EXCEPT !.waitsOn = @ \cup Range(f.path), !.waiting = TRUE]
        ELSE [SettleBack(f.b, f.path, f.end) EXCEPT !.waiting = FALSE]

\* A chain cut at its first hop has no answer of its own.
ChainAt(b, p) == IF p \in DOMAIN b.chains THEN b.chains[p] ELSE EndsIn("", Nowhere, 0, FALSE)

\* mapping: a mapping value is read as a $ref written at its discriminator,
\* and the chain on from where it lands.
MappingOf(b, k) ==
    LET r == ResolveRef(Spend(b, 1), k, MapAt(b, k))
        h == IF Over(r.b) THEN Cut ELSE r.hop
        l == Landed(r.b, h.target)
        c == ChainOf(l, h.target)
        answer(s, chain) == [s EXCEPT !.mappings = (k :> [hop |-> h, chain |-> chain]) @@ @, !.waiting = FALSE]
    IN  IF h.reason = "Held" THEN [r.b EXCEPT !.heldMaps = @ \cup {k}, !.waiting = TRUE]
        ELSE IF h.status # "Resolved" THEN answer(r.b, EndsIn(h.status, Nowhere, 0, FALSE))
        ELSE IF ~HoldsRef(l, h.target) THEN answer(l, EndsIn("Resolved", h.target, 1, FALSE))
        ELSE IF c.waiting THEN c
        ELSE answer(c, LET e == ChainAt(c, h.target) IN IF e.status = "Resolved" THEN [e EXCEPT !.hops = @ + 1] ELSE e)

\* settle: every site and mapping value noted since it last ran, in order.
SettleSite(b, site) ==
    LET c == ChainOf(b, site)
    IN  IF c.waiting THEN [c EXCEPT !.waitSites = @ \cup {site}]
        ELSE [c EXCEPT !.entries = (site :> [hop |-> c.hops[site], chain |-> ChainAt(c, site)]) @@ @]
SettleMapping(b, k) == LET m == MappingOf(b, k) IN IF m.waiting THEN [m EXCEPT !.waitMaps = @ \cup {k}] ELSE m
Settle(b) ==
    LET n == [Spend(b, Cardinality(b.fresh1) + Cardinality(b.freshMaps)) EXCEPT !.fresh1 = {}, !.freshMaps = {}]
    IN  FoldLeft(SettleMapping, FoldLeft(SettleSite, n, Sorted(b, b.fresh1)), Sorted(b, b.freshMaps))

----------------------------------------------------------------------------
\* requeue: the hops held are forgotten, to be read again now the documents
\* they waited for are; release: once nothing is held, what waits is settled
\* once more, unless no held document was read since it last was.
Requeue(b) ==
    [b EXCEPT !.hops = [p \in DOMAIN @ \ b.heldSites |-> @[p]], !.waitsOn = @ \ b.heldSites,
              !.fresh1 = @ \cup (b.heldSites \cap b.waitSites), !.waitSites = @ \ b.heldSites,
              !.freshMaps = @ \cup b.heldMaps, !.waitMaps = @ \ b.heldMaps,
              !.heldSites = {}, !.heldMaps = {}, !.released = FALSE, !.goes = TRUE]
Release(b) ==
    IF b.released \/ b.waitSites \cup b.waitMaps = {} THEN [b EXCEPT !.goes = FALSE]
    ELSE [b EXCEPT !.released = TRUE, !.waitsOn = {}, !.fresh1 = @ \cup b.waitSites, !.freshMaps = @ \cup b.waitMaps,
                   !.waitSites = {}, !.waitMaps = {}, !.goes = TRUE]
ReadHeld(b) == [FoldLeft(OpenDoc, b, SetToSeq(b.held)) EXCEPT !.held = {}]

\* settled: the first drain of a pass commits what it reached whole, a later
\* one grows by what it reached since, and commits only to judge a change.
DrainSettled(b) ==
    LET i == [Spend(b, Cardinality(b.fresh)) EXCEPT !.read = b.opened, !.fresh = {}]
        g == Grow(i, b.fresh)
        c == Commit(IF b.committed THEN g ELSE i, b.reached)
    IN  IF b.committed /\ ~g.changed THEN g
        ELSE [Spend(c, Cardinality(b.reached)) EXCEPT !.committed = TRUE]
GoOn(b) ==
    LET s == DrainSettled(b)
    IN  IF s.changed THEN [s EXCEPT !.stale = TRUE, !.goes = FALSE]
        ELSE IF s.held = {} THEN Release(s) ELSE Requeue(ReadHeld(s))

\* run: a pass walks the source, then settles and walks until nothing is left,
\* going on past what it held while that changes no answer it gave.
NewPass(b) ==
    Begin(Visit([b EXCEPT !.reached = {Source}, !.fresh = {}, !.held = {}, !.hops = <<>>, !.chains = <<>>, !.loops = {},
                          !.entries = <<>>, !.mappings = <<>>, !.sites = {}, !.mapSites = {}, !.fresh1 = {}, !.freshMaps = {},
                          !.pending = {}, !.landings = {}, !.covered = {}, !.waitsOn = {}, !.waitSites = {}, !.waitMaps = {},
                          !.heldSites = {}, !.heldMaps = {}, !.released = FALSE, !.committed = FALSE, !.stale = FALSE,
                          !.read = @ \cup {Source}, !.passes = @ + 1],
                {<<Source, p>> : p \in DOMAIN b.w[Source].refs \ {0}}))
RECURSIVE Drain(_), RunPass(_), BindFrom(_)
Drain(b) == LET w == WalkPending(Settle(b)) IN IF Over(b) THEN b ELSE IF w.walked /\ ~Over(w) THEN Drain(w) ELSE w
RunPass(b) ==
    LET d == Drain(b)
        g == GoOn(d)
    IN  IF Over(d) THEN d ELSE IF g.goes THEN RunPass(g) ELSE g

\* Bind: passes are read until one stands, the one the budget runs out in too.
BindFrom(b) ==
    LET p == RunPass(NewPass(b))
    IN  IF p.stale /\ ~Over(p) /\ p.passes < MaxRereads THEN BindFrom(p) ELSE p
Bind(w, order, limit, opens) ==
    BindFrom([w |-> w, order |-> order, limit |-> limit, steps |-> 0, opens |-> opens, opened |-> {Source}, failed |-> {},
              reached |-> {}, fresh |-> {}, read |-> {}, counted |-> {Source}, every |-> FALSE, uris |-> {}, asked |-> {},
              readings |-> {}, changed |-> FALSE, held |-> {}, hops |-> <<>>, chains |-> <<>>, loops |-> {}, entries |-> <<>>,
              mappings |-> <<>>, sites |-> {}, mapSites |-> {}, fresh1 |-> {}, freshMaps |-> {}, pending |-> {}, landings |-> {},
              covered |-> {}, waitsOn |-> {}, waitSites |-> {}, waitMaps |-> {}, heldSites |-> {}, heldMaps |-> {},
              released |-> FALSE, committed |-> FALSE, stale |-> FALSE, walked |-> FALSE, waiting |-> FALSE, goes |-> FALSE, passes |-> 0])

\* attribute: each position some chain reaches, by the least start that does.
Starts(b) == {<<s, b.entries[s].hop.target>> : s \in {x \in DOMAIN b.entries : b.entries[x].hop.status = "Resolved"}}
             \cup {<<k, b.mappings[k].hop.target>> : k \in {x \in DOMAIN b.mappings : b.mappings[x].hop.status = "Resolved"}}
RECURSIVE MarkFrom(_, _, _, _)
MarkFrom(b, reach, from, p) ==
    IF p \in DOMAIN reach THEN reach
    ELSE LET r == reach @@ (p :> from)
         IN  IF p \in DOMAIN b.hops /\ b.hops[p].status = "Resolved" THEN MarkFrom(b, r, from, b.hops[p].target) ELSE r
StartBefore(b, x, y) == Before(b.order, x[1], y[1]) \/ (x[1] = y[1] /\ Before(b.order, x[2], y[2]))
Attribute(b) == FoldLeft(LAMBDA r, s : MarkFrom(b, r, s[1], s[2]), <<>>, InTurn(Starts(b), LAMBDA x, y : StartBefore(b, x, y)))

----------------------------------------------------------------------------
\* Where following hops, one at a time, from a position leads.
RECURSIVE After(_, _, _)
After(b, p, n) == IF n = 0 \/ p \notin DOMAIN b.hops \/ b.hops[p].status # "Resolved" THEN p ELSE After(b, b.hops[p].target, n - 1)
Turns(b) == Cardinality(DOMAIN b.hops) + 1
OnLoop(b, p) == \E n \in 1 .. Turns(b) : After(b, p, n) = p /\ p \in DOMAIN b.hops /\ b.hops[p].status = "Resolved"
Truth(b, p) ==
    LET end == After(b, p, Turns(b))
        n == CHOOSE k \in 0 .. Turns(b) : After(b, p, k) = end /\ \A j \in 0 .. k - 1 : After(b, p, j) # end
    IN  IF OnLoop(b, end) THEN EndsIn("Cyclic", Nowhere, 0, OnLoop(b, p))
        ELSE IF HoldsRef(b, end) THEN EndsIn("Unresolved", Nowhere, 0, FALSE)
        ELSE EndsIn("Resolved", end, n, FALSE)

\* Bind's passes end, and the one that stands is a fixed point: every site the
\* walks found is answered, and reading each reference once more, against what
\* the documents of that pass declare, answers alike and reads nothing new.
StandsByItself(b) ==
    /\ ~b.stale
    /\ DOMAIN b.entries = b.sites /\ DOMAIN b.mappings = b.mapSites
    /\ b.uris = Answering(b) /\ (~b.every => b.counted = b.reached)
    /\ \A p \in b.sites : LET r == ResolveRef(b, p, RefAt(b, p)) IN r.hop = b.entries[p].hop /\ r.b = b
    /\ \A k \in b.mapSites : LET r == ResolveRef(b, k, MapAt(b, k)) IN r.hop = b.mappings[k].hop /\ r.b = b

\* Every chain answers as following its hops one by one does, whatever it
\* shared and waited for, and the loops are the cycles of the hops, each
\* reported at its least member.
ChainsFollowed(b) ==
    /\ \A p \in b.sites : b.entries[p].chain = Truth(b, p)
    /\ \A k \in b.mapSites : LET m == b.mappings[k]
                                 c == IF m.hop.status = "Resolved" /\ HoldsRef(b, m.hop.target) THEN Truth(b, m.hop.target) ELSE m.chain
                             IN  m.hop.status = "Resolved" /\ HoldsRef(b, m.hop.target)
                                 => m.chain = IF c.status = "Resolved" THEN [c EXCEPT !.hops = @ + 1] ELSE c
    /\ UNION {l.members : l \in b.loops} = {p \in DOMAIN b.hops : OnLoop(b, p)}
    /\ \A l \in b.loops : \A p, q \in l.members : (\E n \in 0 .. Turns(b) : After(b, p, n) = q) /\ ~Before(b.order, p, l.site)

\* No order the documents are met or named in reaches an answer.
SameInAnyOrder(b, c) ==
    /\ <<b.entries, b.mappings, b.reached, b.landings, b.every, b.passes>> = <<c.entries, c.mappings, c.reached, c.landings, c.every, c.passes>>
    /\ {l.members : l \in b.loops} = {l.members : l \in c.loops}

\* A document is never fetched from a URI that a document read before any
\* fetch declares: an identifier is not a location.
RECURSIVE Nearby(_, _)
Nearby(b, seen) ==
    LET names == {RefAt(b, p).uri : p \in seen} \cup {MapAt(b, p).uri : p \in seen}
        more == {<<d, p>> : d \in {n \in names \ (Absolute \cup {"", "none", Source}) : b.w[n].fails = "" /\ AnswerIn(DeclaredBy(b.w, Source), n) = {}}, p \in {0}}
        all == seen \cup UNION {{<<x[1], i>> : i \in DOMAIN b.w[x[1]].refs} : x \in more}
    IN  IF all = seen THEN seen ELSE Nearby(b, all)
NeverFetched(b) ==
    LET near == Nearby(b, {<<Source, p>> : p \in DOMAIN b.w[Source].refs})
    IN  \A d \in {p[1] : p \in near}, u \in Absolute : AnswerIn(DeclaredBy(b.w, d), u) # {} => u \notin b.opened \cup b.failed

\* Each landing is attributed to the least start whose chain reaches it.
AttributedLeast(b) ==
    LET reach == Attribute(b)
        by(p) == {s[1] : s \in {x \in Starts(b) : \E n \in 0 .. Turns(b) : After(b, x[2], n) = p}}
    IN  \A p \in b.landings : IF by(p) = {} THEN p \notin DOMAIN reach ELSE reach[p] = Least(b, by(p))

\* A budget that runs out leaves of a table read in one pass the answers the
\* whole table has, or ones the budget stopped: never others.
CutHonestly(cut, full) ==
    full.passes = 1 =>
      /\ \A p \in DOMAIN cut.entries :
           LET e == cut.entries[p] IN e.hop.status = "OverBudget" \/ e.chain.status \in {"OverBudget", ""} \/ e = full.entries[p]
      /\ \A k \in DOMAIN cut.mappings :
           LET m == cut.mappings[k] IN m.hop.status = "OverBudget" \/ m.chain.status \in {"OverBudget", ""} \/ m = full.mappings[k]
=============================================================================
