-------------------------------- MODULE Passes --------------------------------
(***************************************************************************)
(* The passes over a compiled document: Names, which reads every scope     *)
(* whose names a target renders into one namespace, and Validate, whose    *)
(* families of rules each report what they find.                           *)
(*                                                                         *)
(* A document is a record: types (a registry as in TypeFacts, with nil for *)
(* the IDs that hold a nil definition), ops, channels, messages and the    *)
(* payload sites.  An operation carries the depth of its group and whether *)
(* the reference walk reached it.  An empty name or ID is "".              *)
(* A diagnostic is <<code, place>>, and a family gives the set of its own. *)
(***************************************************************************)
EXTENDS TypeFacts

CONSTANT MaxGroupDepth

----------------------------------------------------------------------------
\* Names.  A party is the words a target renders and the spelling of the source.

PartyOf(n) == [words |-> IF n.canonical # "" THEN n.canonical ELSE n.hint, source |-> n.source]

\* The key a party is compared by: its spelling when it has no words.
KeyOf(p) == IF p.words # "" THEN p.words ELSE p.source

\* Mutant: a name is compared with the party read last.
LinkLast(later, c, i) == [later EXCEPT ![i - 1] = i]
\* A party that shares a name is linked from the last party that has it.
Link(later, c, i) == [later EXCEPT ![c.last] = i]

\* read: the chains of the parties that share a name, and the bare parties.
ReadParty(parties, st, i) ==
    LET p == parties[i]
        key == KeyOf(p)
        bared == IF p.words = "" THEN [st EXCEPT !.bare = Append(@, i)] ELSE st
    IN  IF key = "" THEN st
        ELSE IF key \notin DOMAIN st.seen
        THEN [bared EXCEPT !.seen = @ @@ (key :> [first |-> i, last |-> i])]
        ELSE LET c == st.seen[key]
             IN  [bared EXCEPT !.later = Link(@, c, i), !.seen[key].last = i,
                               !.shared = IF c.first = c.last THEN Append(@, c.first) ELSE @]
ReadScope(parties) ==
    LET none == [seen |-> <<>>, later |-> [i \in DOMAIN parties |-> 0], shared |-> <<>>, bare |-> <<>>]
    IN  FoldLeft(LAMBDA st, i : ReadParty(parties, st, i), none, [i \in DOMAIN parties |-> i])

\* collision: the parties a report names, from the first along the links.
RECURSIVE ChainFrom(_, _)
ChainFrom(st, i) == IF i = 0 THEN <<>> ELSE <<i>> \o ChainFrom(st, st.later[i])
ReportScope(parties) ==
    LET st == ReadScope(parties)
    IN  [collisions |-> [k \in DOMAIN st.shared |-> ChainFrom(st, st.shared[k])], bare |-> st.bare]

\* types: the parties of the scope of declared types, those a target may inline
\* or resolves through its type table apart.
TypeParties(types) ==
    LET named == SelectSeq(types, LAMBDA t : ~t.anonymous /\ ~t.builtin)
    IN  [i \in DOMAIN named |-> PartyOf(named[i].name)]

----------------------------------------------------------------------------
\* ForEachOperation, through ForEachGroup: the operations no deeper than the
\* bound, and whether it cut any group off.
SeenOps(doc) == {i \in DOMAIN doc.ops : doc.ops[i].depth <= MaxGroupDepth}
Truncated(doc) == SeenOps(doc) # DOMAIN doc.ops

\* liveTypeIDs and checkNilTypes.
Live(doc) == Declared(doc.types) \ doc.nil
CheckNilTypes(doc) == {<<"ir/nil-type", id>> : id \in doc.nil}

\* The parameters the reference walk declared, and every reference an operation
\* makes to one: its bindings', and appendParamRefs'.
WalkedOps(doc) == {i \in DOMAIN doc.ops : doc.ops[i].walked}
DeclaredParams(doc) == UNION {ToSet(doc.ops[i].params) : i \in WalkedOps(doc)}
Bound(op) == UNION {{<<"http", b, k>> : k \in DOMAIN op.http[b].binds} : b \in DOMAIN op.http}
ParamRefs(op) ==
    {<<x, op.http[x[2]].binds[x[3]].param>> : x \in Bound(op)}
    \cup {<<<<field, 0, 0>>, op.inputs[field]>> : field \in DOMAIN op.inputs}
    \cup (IF op.token = "" THEN {} ELSE {<<<<"token", 0, 0>>, op.token>>})

\* checkDanglingRefs, of parameters: each reference the walk kept that names no
\* parameter declared, when the walk was not cut short.
CheckDanglingRefs(doc) ==
    IF WalkedOps(doc) # DOMAIN doc.ops THEN {<<"ir/walk-truncated", "doc">>}
    ELSE UNION {{<<"ir/dangling-param-ref", i, ref>> :
                   ref \in {x \in ParamRefs(doc.ops[i]) : x[2] # "" /\ x[2] \notin DeclaredParams(doc)}} :
                i \in DOMAIN doc.ops}

CheckGroupWalkTruncated(doc) == IF Truncated(doc) THEN {<<"ir/walk-truncated", "groups">>} ELSE {}

\* danglingWalkSkips: the walk says nothing of an empty ID, nor of a declared one.
DanglingWalkSkips(doc, id) == id = "" \/ id \in DeclaredParams(doc)

\* checkHTTPParamBinding: a binding of another's parameter, a parameter bound
\* twice in one location but a host's, and one bound nowhere.
CheckBinding(doc, i, b) ==
    LET op == doc.ops[i]
        binds == op.http[b].binds
        own == ToSet(op.params)
        foreign == {k \in DOMAIN binds : binds[k].param \notin own /\ DanglingWalkSkips(doc, binds[k].param)}
        bound == {binds[k].param : k \in DOMAIN binds} \cap own
        places == {<<binds[k].param, binds[k].location>> :
                     k \in {x \in DOMAIN binds : binds[x].param \in own /\ binds[x].location # "host"}}
        twice == {pl \in places :
                    Cardinality({k \in DOMAIN binds : <<binds[k].param, binds[k].location>> = pl}) >= 2}
    IN  {<<"pass/param-binding-mismatch", i, <<<<"http", b, k>>, binds[k].param>>>> : k \in foreign}
        \cup {<<"pass/param-bound-twice", i, <<b, pl>>>> : pl \in twice}
        \cup {<<"pass/param-unbound", i, <<b, p>>>> : p \in own \ bound}

\* checkParamReferences: pagination inputs and the token.
CheckReferences(doc, i) ==
    LET op == doc.ops[i]
    IN  {<<"pass/param-binding-mismatch", i, x>> :
           x \in {ref \in ParamRefs(op) : /\ ref[1] \notin Bound(op)
                                          /\ ref[2] \notin ToSet(op.params)
                                          /\ DanglingWalkSkips(doc, ref[2])}}
CheckParams(doc) ==
    UNION {UNION {CheckBinding(doc, i, b) : b \in DOMAIN doc.ops[i].http} \cup CheckReferences(doc, i) :
             i \in SeenOps(doc)}

\* checkIdempotency: a token goes with the token kind and with no other.
CheckIdempotency(doc) ==
    {<<"pass/idempotency-token-mismatch", i>> :
       i \in {k \in SeenOps(doc) : (doc.ops[k].token # "") # (doc.ops[k].idempotent = "token")}}

\* checkResponseIndices: the keys of SuccessStatus that address no response.
CheckResponseIndices(doc) ==
    UNION {UNION {{<<"ir/response-index-out-of-range", i, b, k>> :
                     k \in {x \in doc.ops[i].http[b].success : x < 0 \/ x >= doc.ops[i].responses}} :
                  b \in DOMAIN doc.ops[i].http} : i \in SeenOps(doc)}

\* checkOneWay and checkDefaultResponses.
CheckOneWay(doc) ==
    {<<"pass/oneway-with-responses", i>> :
       i \in {k \in SeenOps(doc) : doc.ops[k].oneway
                                   /\ (doc.ops[k].responses > 0 \/ doc.ops[k].default # "none")}}
CheckDefaultResponses(doc) ==
    {<<"ir/default-response-conditions", i>> :
       i \in {k \in SeenOps(doc) : doc.ops[k].default \notin {"none", "catch-all"}}}

\* checkMessageBindings: each list of messages against the channel it travels on,
\* when that channel is declared; a reply without a channel is left alone.
Uncarried(doc, i, list, channel, messages) ==
    IF channel \notin DOMAIN doc.channels THEN {}
    ELSE {<<"pass/message-not-in-channel", i, list, m>> : m \in messages \ doc.channels[channel]}
CheckMessageBindings(doc) ==
    UNION {Uncarried(doc, i, "messages", doc.ops[i].channel, doc.ops[i].messages)
           \cup Uncarried(doc, i, "reply/messages", doc.ops[i].replyChannel, doc.ops[i].replies) :
             i \in SeenOps(doc)}

\* checkDuplicateWireNames, of one model's properties: each has a wire name and
\* aliases.
DuplicateWireNames(props) ==
    {i \in DOMAIN props : props[i].wire # "" /\ \E j \in 1 .. i - 1 : props[j].wire = props[i].wire}

\* Every wire name is claimed by the first property that has it.
ClaimWireNames(props) ==
    LET names == {props[i].wire : i \in DOMAIN props} \ {""}
    IN  [n \in names |-> CHOOSE i \in DOMAIN props :
                           props[i].wire = n /\ \A j \in 1 .. i - 1 : props[j].wire # n]

\* ambiguousAliases: then every alias, reported when another has its name.
RECURSIVE ClaimAliases(_, _, _, _)
ClaimAliases(props, claimant, i, k) ==
    IF i > Len(props) THEN {}
    ELSE IF k > Len(props[i].aliases) THEN ClaimAliases(props, claimant, i + 1, 1)
    ELSE LET alias == props[i].aliases[k]
         IN  IF alias = "" THEN ClaimAliases(props, claimant, i, k + 1)
             ELSE IF alias \notin DOMAIN claimant
             THEN ClaimAliases(props, claimant @@ (alias :> i), i, k + 1)
             ELSE IF claimant[alias] = i THEN ClaimAliases(props, claimant, i, k + 1)
             ELSE {<<i, alias, claimant[alias]>>} \cup ClaimAliases(props, claimant, i, k + 1)
AmbiguousAliases(props) == ClaimAliases(props, ClaimWireNames(props), 1, 1)

\* graphqlReachableTypes: from what the operations seen with a GraphQL binding
\* name, along the edges of each type.
GraphqlReachable(doc) ==
    LET roots == UNION {doc.ops[i].graphql : i \in SeenOps(doc)}
        edges == [t \in Declared(doc.types) |->
                    (doc.types[t].held \cup doc.types[t].args \cup PartSources(doc.types, t)) \cap Declared(doc.types)]
    IN  roots \cup UNION {Closure(edges)[t] : t \in roots \cap Declared(doc.types)}

\* Mutant: a truncated walk is believed.
Believed(doc) == TRUE
\* A truncated walk claims nothing.
ReachComplete(doc) == ~Truncated(doc)
CheckArgsOutsideGraphQL(doc) ==
    IF ~ReachComplete(doc) THEN {}
    ELSE {<<"pass/args-outside-graphql", id>> :
            id \in {t \in Live(doc) : Model(doc.types, t) /\ doc.types[t].args # {}
                                      /\ t \notin GraphqlReachable(doc)}}

\* A model's routes are its declared subtypes.
RouteOf(r, target, base) == base \in SubtypeClosure(r)[target]
\* mappingTarget, checkMapping: what a discriminator names that it cannot route to.
Illegal(r, targets, base) == {t \in targets : t \notin Declared(r) \/ ~RouteOf(r, t, base)}
\* checkModelDiscriminator and checkDiscriminatorProperty.
CheckModelDiscriminator(r, m, tag, targets) ==
    {<<"pass/discriminator-missing-variant", m, t>> : t \in Illegal(r, targets, m)}
    \cup (IF tag = "" \/ tag \in Exposed(r, m) THEN {} ELSE {<<"pass/discriminator-unknown-property", m, tag>>})

\* forEachPayload gives each payload its site; checkPayloadRequired and
\* appendUnknownPartDiags.
CheckPayloadRequired(doc) ==
    {<<"ir/payload-required-outside-request", s.at>> :
       s \in {x \in doc.payloads : x.required /\ x.position # "request"}}
CheckEncodingKeys(doc) ==
    UNION {{<<"ir/encoding-key-unknown-property", s.at, k>> : k \in s.keys \ Exposed(doc.types, s.type)} :
             s \in doc.payloads}

\* families over the operations and payloads, and Validate: everything they
\* report, or nothing once the context is done, as it is asked before each
\* family and after the last.
Families(doc) ==
    <<CheckNilTypes(doc), CheckDanglingRefs(doc), CheckGroupWalkTruncated(doc), CheckResponseIndices(doc),
      CheckEncodingKeys(doc), CheckPayloadRequired(doc), CheckParams(doc), CheckIdempotency(doc),
      CheckMessageBindings(doc), CheckOneWay(doc), CheckDefaultResponses(doc), CheckArgsOutsideGraphQL(doc)>>
Validate(doc, doneAfter) ==
    IF doneAfter <= Len(Families(doc)) THEN {} ELSE UNION ToSet(Families(doc))

----------------------------------------------------------------------------
\* Names reports each name that several parties of a scope share once, with all
\* of them in scope order, and each party without words.
ScopeReported(parties) ==
    LET rep == ReportScope(parties)
        named == {i \in DOMAIN parties : KeyOf(parties[i]) # ""}
        class(i) == {j \in named : KeyOf(parties[j]) = KeyOf(parties[i])}
        sorted(S) == SetToSortSeq(S, <)
    IN  /\ ToSet(rep.collisions) = {sorted(class(i)) : i \in {k \in named : Cardinality(class(k)) > 1}}
        /\ Cardinality(ToSet(rep.collisions)) = Len(rep.collisions)
        /\ ToSet(rep.bare) = {i \in named : parties[i].words = ""}

\* A reference to a parameter its operation does not declare is reported exactly
\* once, by the dangling check or by the parameters', when nothing was cut short.
ParamRefsJudgedOnce(doc) ==
    LET all == Validate(doc, 99)
        told(i, ref) == {d \in all : d[1] \in {"ir/dangling-param-ref", "pass/param-binding-mismatch"}
                                     /\ d[2] = i /\ d[3] = ref}
        whole == WalkedOps(doc) = DOMAIN doc.ops
    IN  /\ (~whole \/ Truncated(doc)) => \E d \in all : d[1] = "ir/walk-truncated"
        /\ \A i \in DOMAIN doc.ops : \A ref \in ParamRefs(doc.ops[i]) :
             LET n == Cardinality(told(i, ref))
             IN  IF ref[2] \in ToSet(doc.ops[i].params)
                 THEN n = 0
                 ELSE IF whole /\ i \in SeenOps(doc) THEN n = 1 ELSE n <= 1

\* A model free of duplicate wire names and ambiguous aliases gives each name to
\* one property; and each alias reported is a name two properties answer to.
AliasesClaimed(props) ==
    LET answers(i) == ({props[i].wire} \cup ToSet(props[i].aliases)) \ {""}
        amb == AmbiguousAliases(props)
    IN  /\ amb = {} /\ DuplicateWireNames(props) = {} =>
             \A i, j \in DOMAIN props : i # j => answers(i) \cap answers(j) = {}
        /\ \A x \in amb : x[1] # x[3] /\ x[2] \in answers(x[1]) \cap answers(x[3])

\* A model reported for its arguments is one that no GraphQL operation of the
\* document, at any depth, reaches.
ArgsRefusedRightly(doc) ==
    \A d \in Validate(doc, 99) : d[1] = "pass/args-outside-graphql" =>
      d[2] \notin GraphqlReachable([doc EXCEPT !.ops = [i \in DOMAIN @ |-> [@[i] EXCEPT !.depth = 0]]])

\* A discriminator that nothing is said of routes to types that expose its tag.
RoutesCarryTag(r, m, tag, targets) ==
    Model(r, m) /\ tag # "" /\ CheckModelDiscriminator(r, m, tag, targets) = {} =>
      \A t \in targets : tag \in Exposed(r, t)

===============================================================================
