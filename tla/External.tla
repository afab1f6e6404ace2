------------------------------ MODULE External ------------------------------
(***************************************************************************)
(* What the load phase follows into other documents                        *)
(* (compilers/openapi/internal/load): what a document from the network may *)
(* name, the resuming of stalled chains and the ends of cut ones, the      *)
(* objects reached elsewhere and what is checked of them, and the counted  *)
(* reads of a document's tree.  Loading models the reads themselves.       *)
(***************************************************************************)
EXTENDS Integers, Sequences, FiniteSets, SequencesExt, FiniteSetsExt, TLC

CONSTANTS MaxResolutionHops,  \* maxResolutionHops
          MaxResumeWork       \* maxResumeWork

\* reachesLocal: a document fetched over the network must not take a read to the
\* local file system, by a $ref, by a $id or, where some dialect it names reads
\* one as an identifier, by an `id`.  A mapping says which of the three it
\* writes name a local place, and the dialect its `$schema` names.
RefusedLocal(doc) ==
    LET named == {doc.dialect} \cup {m.dialect : m \in Range(doc.maps)}
    IN  (\E m \in Range(doc.maps) : m.ref \/ m.id) \/ ("old" \in named /\ \E m \in Range(doc.maps) : m.old)
\* What the binder reads of an admitted one, each mapping in its own dialect or
\* one held around it, leads to nothing local.
RemoteStaysRemote(doc) ==
    LET dialectOf(i) == {doc.dialect} \cup {doc.maps[j].dialect : j \in 1 .. i}
        reads(i) == doc.maps[i].ref \/ doc.maps[i].id \/ ("old" \in dialectOf(i) /\ doc.maps[i].old)
    IN  ~RefusedLocal(doc) => \A i \in 1 .. Len(doc.maps) : ~reads(i)

----------------------------------------------------------------------------
\* A chain of hops 1, 2, ... n, the last an object: where each is reached, as
\* the resolver's library hands it over.  in says whether the hop crosses into
\* another document; stands, that a stand-in for the source's reference object
\* answers; bytes, that the hop's record holds the document as its bytes.
ResolveOn(w, c) ==
    \* The library fails a hop resolved inside a document held as its bytes, and
    \* at a stand-in, which is no reference.
    LET stall(i) == i \in c.standing \/ (i \in c.bytes /\ i < w.n /\ ~w.in[i + 1])
        ends == {i \in c.at .. w.n : i = w.n \/ stall(i)}
        at == Min(ends)
    IN  [c EXCEPT !.at = at, !.failed = stall(at)]
\* mend: each record's bytes become the tree prepared from them, and a stand-in
\* the object it stands for.
Mend(c) == [c EXCEPT !.bytes = {i \in @ : i > c.at}, !.standing = {i \in @ : i > c.at}]
\* resumable: only what mending cures, charged before it is resumed: a step,
\* and for a hop in a tree what reading it there takes.
Resumable(w, c) ==
    IF ~c.failed THEN [go |-> FALSE, c |-> c]
    ELSE LET cost == IF c.at \in c.standing THEN 1 ELSE 1 + w.cost
         IN  [go |-> c.work + cost <= MaxResumeWork, c |-> [c EXCEPT !.work = @ + cost, !.refused = c.work + cost > MaxResumeWork]]
RECURSIVE SettleTurns(_, _, _)
SettleTurns(w, c, turns) ==
    LET r == Resumable(w, c)
    IN  IF turns = 0 \/ ~r.go THEN Mend(r.c) ELSE SettleTurns(w, ResolveOn(w, Mend(r.c)), turns - 1)
SettleUnmended(w) ==
    LET c == ResolveOn(w, [at |-> 1, failed |-> FALSE, bytes |-> w.bytes, standing |-> w.stands, work |-> 0, refused |-> FALSE])
        r == Resumable(w, c)
    IN  IF r.go THEN ResolveOn(w, Mend(r.c)) ELSE Mend(r.c)
\* settle: resumed once for each hop the last resolution stalled at.
SettleChain(w) ==
    SettleTurns(w, ResolveOn(w, [at |-> 1, failed |-> FALSE, bytes |-> w.bytes, standing |-> w.stands, work |-> 0, refused |-> FALSE]), MaxResolutionHops)
\* A chain through held objects and held bytes ends where it ends when neither
\* stalls it, or a budget says why not, and its records hold no bytes.
ChainSettles(w) ==
    LET c == SettleChain(w)
    IN  /\ c.at = w.n \/ c.refused \/ Cardinality(w.bytes \cup w.stands) > MaxResolutionHops
        /\ \A i \in c.bytes \cup c.standing : i > c.at
        /\ c.refused => c.work > MaxResumeWork

\* chainEnds.of: a chain past MaxResolutionHops records is cut; its end is that
\* of the reference it is cut at, and remembered for each one passed on to.
RECURSIVE Hops(_, _, _)
Hops(next, r, n) == IF n = 0 \/ next[r] = 0 THEN r ELSE Hops(next, next[r], n - 1)
IsCut(next, r) == next[Hops(next, r, MaxResolutionHops)] # 0
RECURSIVE FollowCut(_, _, _, _)
FollowCut(next, ends, at, passed) ==
    LET remember(end) == [end |-> end, ends |-> [p \in passed |-> end] @@ ends]
    IN  IF at \in DOMAIN ends THEN remember(ends[at])
        ELSE IF at \in passed THEN remember(0)
        ELSE IF ~IsCut(next, at) THEN [remember(Hops(next, at, MaxResolutionHops)) EXCEPT !.ends = @ @@ (at :> Hops(next, at, MaxResolutionHops))]
        ELSE FollowCut(next, ends, Hops(next, at, MaxResolutionHops), passed \cup {at})
EndOfChain(next, ends, r) ==
    IF ~IsCut(next, r) THEN [end |-> Hops(next, r, MaxResolutionHops), ends |-> ends]
    ELSE FollowCut(next, ends, Hops(next, r, MaxResolutionHops), {r})
\* Asked of any references in any order, each chain ends where following it hop
\* by hop ends, and one that loops nowhere.
EndsFollowed(next, asked) ==
    LET n == Cardinality(DOMAIN next)
        memo[i \in 0 .. Len(asked)] == IF i = 0 THEN [end |-> 0, ends |-> <<>>] ELSE EndOfChain(next, memo[i - 1].ends, asked[i])
    IN  \A i \in 1 .. Len(asked) : LET e == Hops(next, asked[i], n) IN memo[i].end = IF next[e] = 0 THEN e ELSE 0

----------------------------------------------------------------------------
\* elsewhere: an object a resolution ends on in another document is walked for
\* the references it holds.  The library builds one afresh at each landing, so
\* one is kept for each node; a source reference's own is walked too.
NewElsewhere == [kept |-> <<>>, queue |-> <<>>, walked |-> 0, visited |-> {}, fresh |-> 0]
Reach(w, source, node) ==
    IF node \in DOMAIN w.kept /\ ~source THEN w
    ELSE [w EXCEPT !.fresh = @ + 1, !.kept = @ @@ (node :> w.fresh), !.queue = Append(@, node)]
\* run: the source's references in the walk's order, then those of each object
\* reached, in the order reached.
RECURSIVE WalkAway(_, _, _)
WalkAway(refs, w, most) ==
    IF w.queue = <<>> \/ w.walked > most THEN w
    ELSE LET n == Head(w.queue)
         IN  WalkAway(refs, FoldLeft(LAMBDA x, m : Reach(x, FALSE, m), [w EXCEPT !.queue = Tail(@), !.walked = @ + 1, !.visited = @ \cup {n}], refs[n]), most)
RunAway(refs, source) ==
    WalkAway(refs, FoldLeft(LAMBDA x, m : Reach(x, TRUE, m), NewElsewhere, source), Len(source) + Cardinality(DOMAIN refs))
\* Every object reachable from the source is walked, however documents refer to
\* each other, and the work is bounded by what they hold.
AwayBounded(refs, source) ==
    LET w == RunAway(refs, source)
        reached[i \in 0 .. Cardinality(DOMAIN refs)] == IF i = 0 THEN Range(source) ELSE reached[i - 1] \cup UNION {Range(refs[n]) : n \in reached[i - 1]}
    IN  w.queue = <<>> /\ w.visited = reached[Cardinality(DOMAIN refs)] /\ w.walked <= Len(source) + Cardinality(DOMAIN refs)

----------------------------------------------------------------------------
\* checkReached: each object reached, once for each kind, at the least site that
\* reaches it; what the source's check read is dropped; each document's checks
\* are charged what they span, and a finding is reported once.
AddTarget(ts, t) ==
    LET prev == {x \in ts : x.node = t.node /\ x.kind = t.kind} IN IF prev = {} THEN ts \cup {t} ELSE IF \E x \in prev : t.site < x.site THEN (ts \ prev) \cup {t} ELSE ts
\* charge: a budget crossed is reported once, and what is past it not checked.
Charge(v, t, limit) ==
    LET spans == IF t.doc \in DOMAIN v.spans THEN v.spans[t.doc] ELSE 0
        over == spans + t.span > limit
        charged == [v EXCEPT !.spans = (t.doc :> spans + t.span) @@ @]
    IN  IF spans > limit THEN [v |-> v, over |-> TRUE]
        ELSE [v |-> IF over THEN [charged EXCEPT !.out = Append(@, <<"budget", t.site>>)] ELSE charged, over |-> over]
CheckTarget(v, t, limit, judged) ==
    LET c == Charge(v, t, limit)
        new == {f \in t.findings : f \notin v.reported}
    IN  IF c.over THEN c.v
        ELSE [c.v EXCEPT !.reported = @ \cup new, !.out = @ \o SetToSeq({<<f, t.site>> : f \in new})]
CheckReached(walk, seen, limit, judged) ==
    LET kept == {t \in FoldLeft(AddTarget, {}, walk) : ~(t.inSource /\ <<t.node, t.kind>> \in seen)}
        order == SetToSortSeq(kept, LAMBDA x, y : x.site < y.site)
    IN  FoldLeft(LAMBDA v, t : CheckTarget(v, t, limit, judged), [spans |-> <<>>, reported |-> judged, out |-> <<>>], order)
\* No order of the references changes what is reported or where, no finding is
\* reported twice, a document is checked over no more than its budget, and within
\* it all that is wrong with what is reached, read as each kind, is told.
ReachedAlike(walk, seen, limit, judged) ==
    LET v == CheckReached(walk, seen, limit, judged)
        told == {i \in 1 .. Len(v.out) : v.out[i][1] # "budget"}
    IN  /\ v.out = CheckReached(Reverse(walk), seen, limit, judged).out
        /\ \A i, j \in told : v.out[i][1] = v.out[j][1] => i = j
        /\ \A i \in told : v.out[i][1] \notin judged
        /\ Cardinality({i \in 1 .. Len(v.out) : v.out[i][1] = "budget"}) = Cardinality({d \in DOMAIN v.spans : v.spans[d] > limit})
        /\ (\A d \in DOMAIN v.spans : v.spans[d] <= limit) =>
             {v.out[i][1] : i \in told} = UNION {t.findings : t \in {x \in Range(walk) : ~(x.inSource /\ <<x.node, x.kind>> \in seen)}} \ judged

----------------------------------------------------------------------------
\* A tree of mappings: each node its pairs in order, a key and a child; the key
\* "<<" merges.  Node 0 is a scalar.
FirstWith(pairs, key) == {i \in 1 .. Len(pairs) : pairs[i][1] = key /\ \A j \in 1 .. i - 1 : pairs[j][1] # key}
MergesOf(pairs) == SelectSeq([i \in 1 .. Len(pairs) |-> i], LAMBDA i : pairs[i][1] = "<<" /\ pairs[i][2] # 0)
\* getCurrentStackTarget: compares a mapping's keys in order, then tries the
\* mapping of each merge key in turn, a loop over the pairs.
RECURSIVE LibraryRead(_, _, _, _), LibraryMerges(_, _, _, _)
LibraryRead(t, n, parts, visits) ==
    LET pairs == t[n]
        found == FirstWith(pairs, Head(parts))
        i == CHOOSE k \in found : TRUE
        rest == LibraryRead(t, pairs[i][2], Tail(parts), TRUE)
        merged == LibraryMerges(t, n, parts, 1)
        here == IF visits THEN 1 ELSE 0
    IN  IF n = 0 THEN [steps |-> here, end |-> -1]
        ELSE IF found = {} THEN [steps |-> here + Len(pairs) + merged.steps, end |-> merged.end]
        ELSE IF Len(parts) = 1 THEN [steps |-> here + i, end |-> pairs[i][2]]
        ELSE [steps |-> here + i + rest.steps, end |-> rest.end]
LibraryMerges(t, n, parts, k) ==
    LET merges == MergesOf(t[n])
        r == LibraryRead(t, t[n][merges[k]][2], parts, FALSE)
        on == LibraryMerges(t, n, parts, k + 1)
    IN  IF k > Len(merges) THEN [steps |-> Len(t[n]), end |-> -1]
        ELSE IF r.end >= 0 THEN [steps |-> r.steps + merges[k], end |-> r.end]
        ELSE [steps |-> r.steps + on.steps, end |-> on.end]
\* tally: the same read from an index of each mapping, the reads through merge
\* keys a stack, each popped when its keys are all tried.
Tallied(t, parts, limit) == [t |-> t, parts |-> parts, limit |-> limit, steps |-> 0, trying |-> <<>>, end |-> -1]
Past(s) == s.steps > s.limit
SpendOn(s, n) == [s EXCEPT !.steps = @ + n]
PushMerge(s, n, at) == IF MergesOf(s.t[n]) = <<>> THEN SpendOn(s, Len(s.t[n])) ELSE [s EXCEPT !.trying = Append(@, [n |-> n, at |-> at, next |-> 1])]
RECURSIVE FollowParts(_, _, _), LookupPart(_, _, _), TryMerges(_)
FollowParts(s, n, at) ==
    LET v == SpendOn(s, 1) IN IF Past(v) \/ n = 0 THEN v ELSE LookupPart(v, n, at)
LookupPart(s, n, at) ==
    LET found == FirstWith(s.t[n], s.parts[at])
        i == CHOOSE k \in found : TRUE
    IN  IF found = {} THEN PushMerge(SpendOn(s, Len(s.t[n])), n, at)
        ELSE IF at = Len(s.parts) THEN [SpendOn(s, i) EXCEPT !.end = s.t[n][i][2]]
        ELSE FollowParts(SpendOn(s, i), s.t[n][i][2], at + 1)
TryMerges(s) ==
    LET r == Last(s.trying)
        merges == MergesOf(s.t[r.n])
        tried == [s EXCEPT !.trying[Len(s.trying)].next = @ + 1]
    IN  IF s.end >= 0 \/ s.trying = <<>> \/ Past(s) THEN s
        ELSE IF r.next > Len(merges) THEN TryMerges([SpendOn(s, Len(s.t[r.n])) EXCEPT !.trying = Front(@)])
        ELSE TryMerges(LookupPart(tried, s.t[r.n][merges[r.next]][2], r.at))
\* unwind: the loop over pairs that reached the key whose mapping held the rest.
Unwind(s) == IF s.end < 0 THEN s ELSE FoldLeft(LAMBDA x, r : SpendOn(x, MergesOf(s.t[r.n])[r.next - 1]), s, s.trying)
CostOf(t, parts, limit) == LET s == Unwind(TryMerges(FollowParts(Tallied(t, parts, limit), 1, 1))) IN [steps |-> s.steps, end |-> s.end]
\* A read is priced as the library makes it and ends where it ends, or is priced
\* past a limit the library's own would pass.
ReadsPriced(t, parts, limit) ==
    LET l == LibraryRead(t, 1, parts, TRUE)
        c == CostOf(t, parts, limit)
    IN  IF l.steps <= limit THEN c = l ELSE c.steps > limit
=============================================================================
