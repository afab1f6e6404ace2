------------------------------- MODULE Verify -------------------------------
(***************************************************************************)
(* irverify: the checks that hold a document to the IR's invariants, each  *)
(* giving what it finds wrong and where.  A violation is a code and a      *)
(* place; Verify sorts them, and their wording is left out.                *)
(*                                                                         *)
(* An ID is the sequence of its "/" segments, <<>> the empty one.  A       *)
(* document has its registries, its tables, and nodes: what the one shared *)
(* walk shows the checks, in walk order, each with its Go type and a place.*)
(***************************************************************************)
EXTENDS Integers, Sequences, SequencesExt, FiniteSets, FiniteSetsExt, Functions, TLC

Found(code, at) == [code |-> code, at |-> at]
Wrong(bad, code, at) == IF bad THEN {Found(code, at)} ELSE {}
EntryAt(at, i) == Append(at, ToString(i))
NodesOf(doc, type) == {n \in ToSet(doc.nodes) : n.type = type}

----------------------------------------------------------------------------
\* The grammar of IDs (ir/ids.go).
WellFormedID(kind, id) == Len(id) >= 2 /\ id[1] = kind /\ id[2] # "" /\ id # <<kind, id[2], "">>
IDSpace(kind, id) == IF WellFormedID(kind, id) THEN id[2] ELSE ""
IDPath(kind, id) == IF WellFormedID(kind, id) THEN SubSeq(id, 3, Len(id)) ELSE <<>>
PrimTypeID(prim) == <<"t", "prim", prim>>
IDKinds == {"t", "op", "p", "auth", "s", "g", "param", "e", "server"}

\* checkRegistryKeys, for one registry and its noun.
RegistryKey(noun, key, id) ==
    IF key = <<>> THEN {Found(<<"empty-id", noun>>, <<noun>>)} ELSE Wrong(key # id, <<"id-mismatch", noun>>, <<noun>> \o key)
CheckRegistryKeys(doc) ==
    UNION {IF doc.types[id].kind = "nil" THEN {Found(<<"nil-type">>, <<"t">> \o id)} ELSE RegistryKey("t", id, doc.types[id].id)
             : id \in DOMAIN doc.types}
    \cup UNION {RegistryKey("channel", id, doc.channels[id].id) : id \in DOMAIN doc.channels}
    \cup UNION {RegistryKey("message", id, doc.messages[id].id) : id \in DOMAIN doc.messages}
    \cup UNION {RegistryKey("auth", id, doc.auth[id].id) : id \in DOMAIN doc.auth}
    \cup UNION {RegistryKey("server", id, doc.servers[id].id) : id \in DOMAIN doc.servers}

\* idDefect: pointer is the source pointer recorded, <<>> for none.
IDDefect(kind, id, pointer, at) ==
    IF ~WellFormedID(kind, id) THEN {Found(<<"id-malformed">>, at)}
    ELSE Wrong(pointer # <<>> /\ IDPath(kind, id) # pointer, <<"id-provenance-disagreement">>, at)
TypesHeld(doc) == {id \in DOMAIN doc.types : doc.types[id].kind # "nil"}
Beneath(path, parent) == IsStrictPrefix(parent, path) /\ path # Append(parent, "")
MemberScope(enum, member, at) ==
    LET skipped == ~WellFormedID("e", member) \/ Len(member) < 3 \/ ~WellFormedID("t", enum) \/ Len(enum) < 3
    IN  Wrong(~skipped /\ ~(member[2] = enum[2] /\ Beneath(IDPath("e", member), IDPath("t", enum))), <<"member-id-scope">>, at)
CheckMemberIDs(doc) ==
    UNION {UNION {MemberScope(id, doc.types[id].members[i], EntryAt(<<"t">> \o id, i)) : i \in DOMAIN doc.types[id].members}
             : id \in TypesHeld(doc)}
CheckIDs(doc) ==
    UNION {IDDefect("t", id, doc.types[id].pointer, <<"t">> \o id) : id \in TypesHeld(doc)}
    \cup UNION {IDDefect("auth", id, doc.auth[id].pointer, <<"auth">> \o id) : id \in DOMAIN doc.auth}
    \cup UNION {IDDefect("server", id, doc.servers[id].pointer, <<"server">> \o id) : id \in DOMAIN doc.servers}
    \cup CheckMemberIDs(doc)
CheckPrimIDs(doc) ==
    UNION {LET t == doc.types[id]
           IN  IF t.kind = "primitive" THEN Wrong(id # PrimTypeID(t.prim), <<"prim-id-not-derived">>, <<"t">> \o id)
               ELSE Wrong(IDSpace("t", id) = "prim", <<"prim-space-reserved">>, <<"t">> \o id) : id \in TypesHeld(doc)}

\* appendDeclaredIDViolations: a node of a class without a registry; only a
\* property's ID is derived from the pointer beside it.
DeclaredID(n) ==
    IF n.id = <<>> THEN {Found(<<"empty-id", n.class>>, n.at)}
    ELSE IDDefect(n.class, n.id, IF n.class = "p" THEN n.pointer ELSE <<>>, n.at)
KeyedClasses == {"t", "auth", "server"}
\* What ir.IDDeclarations collects: every node that declares a non-empty ID.
Declarations(doc) == SelectSeq(doc.nodes, LAMBDA n : "id" \in DOMAIN n /\ n.id # <<>>)
CheckDeclaredIDs(doc) ==
    UNION {DeclaredID(n) : n \in {m \in ToSet(doc.nodes) : "id" \in DOMAIN m /\ m.class \notin KeyedClasses}}

----------------------------------------------------------------------------
\* checkIDSpaces.  ByteOrder lists the spaces as their spellings sort; "a/b"
\* carries the separator.
ByteOrder == <<"", "a/b", "anon", "openapi", "prim", "unresolved">>
Rank(space) == CHOOSE i \in DOMAIN ByteOrder : ByteOrder[i] = space
SpaceFaults(spaces, at) ==
    UNION {Wrong(spaces[i] \in {"", "a/b"}, <<"id-space-invalid">>, EntryAt(at, i)) : i \in DOMAIN spaces}
    \cup UNION {Wrong(Rank(spaces[i]) <= Rank(spaces[i - 1]), <<"id-spaces-not-canonical">>, EntryAt(at, i)) : i \in 2 .. Len(spaces)}
DeclarationFaults(declared) ==
    UNION {IF k \notin IDKinds THEN {Found(<<"id-spaces-unknown-kind">>, <<"spaces", k>>)}
           ELSE IF declared[k] = <<>> THEN {Found(<<"id-spaces-not-canonical">>, <<"spaces", k>>)}
           ELSE SpaceFaults(declared[k], <<"spaces", k>>) : k \in DOMAIN declared}
\* Mutant: a declared space of any kind admits the ID.
DeclaredAnywhere(declared, kind) == UNION {ToSet(declared[k]) : k \in DOMAIN declared}
DeclaredSpaces(declared, kind) == IF kind \in DOMAIN declared THEN ToSet(declared[kind]) ELSE {}
Carried(doc) ==
    {n \in ToSet(Declarations(doc)) : WellFormedID(n.class, n.id) /\ ~(n.class = "t" /\ n.id[2] = "prim")}
UndeclaredSpaces(doc) ==
    {Found(<<"id-space-undeclared">>, n.at) : n \in {m \in Carried(doc) : m.id[2] \notin DeclaredSpaces(doc.spaces, m.class)}}
CheckIDSpaces(doc) ==
    DeclarationFaults(doc.spaces)
    \cup (IF DOMAIN doc.spaces # {} THEN UndeclaredSpaces(doc)
          ELSE Wrong(Carried(doc) # {}, <<"id-spaces-absent">>, <<"spaces">>))

\* checkDuplicateIDs: the walk notes, by ID and number met, the properties that
\* differ from the first on their ID; the report numbers the declarations.
FingerprintOf(n) == <<n.source, n.wire, n.target>>
NotesAgain(acc, n) ==
    LET first == acc.first[n.id]
    IN  [first |-> [acc.first EXCEPT ![n.id].met = @ + 1],
         differs |-> IF first.print = FingerprintOf(n) THEN acc.differs ELSE acc.differs \cup {<<n.id, first.met>>}]
NotesProperty(acc, n) ==
    IF n.id \in DOMAIN acc.first THEN NotesAgain(acc, n)
    ELSE [acc EXCEPT !.first = (n.id :> [print |-> FingerprintOf(n), met |-> 1]) @@ @]
Differs(doc) ==
    FoldLeft(LAMBDA acc, n : IF n.type = "Property" THEN NotesProperty(acc, n) ELSE acc,
             [first |-> <<>>, differs |-> {}], doc.nodes).differs
DuplicateIDs(doc, differs) ==
    LET list == Declarations(doc)
        before(i) == {j \in 1 .. i - 1 : list[j].class = list[i].class /\ list[j].id = list[i].id}
    IN  UNION {Wrong(before(i) # {} /\ (list[i].class = "p" => <<list[i].id, Cardinality(before(i))>> \in differs),
                     <<"duplicate-id", list[i].class>>, list[i].at) : i \in DOMAIN list}
CheckDuplicateIDs(doc) == DuplicateIDs(doc, Differs(doc))

----------------------------------------------------------------------------
\* idPositions: what an empty ID means at a position; TypeRef.Target is held
\* by checkTypeRefs, a node's own ID by the checks above.
IDRule(position) ==
    CASE position \in {"Idempotency.TokenParam", "Discriminator.Default"} -> "optional"
      [] position = "Discriminator.Property" -> "locator"
      [] position = "TypeRef.Target" -> "elsewhere"
      [] OTHER -> "required"
EmptyAllowed(owner, rule) == rule = "optional" \/ (rule = "locator" /\ (owner.propertyName \/ owner.index))
\* appendEmptyRefs: a pointer's nil, a slice's absence and a map's are no IDs.
HeldIDs(ref) == IF ref.shape = "pointer" /\ ref.nil THEN {} ELSE DOMAIN ref.ids
CheckEmptyRefs(doc) ==
    UNION {UNION {Wrong(r.ids[i] = <<>> /\ IDRule(r.position) # "elsewhere"
                          /\ ~(r.shape = "scalar" /\ EmptyAllowed(r, IDRule(r.position))),
                        <<"empty-ref", r.class>>, EntryAt(r.at, i)) : i \in HeldIDs(r)} : r \in NodesOf(doc, "Ref")}
CheckTypeRefs(doc) ==
    UNION {Wrong(r.ids[1] = <<>>, <<"type-ref-no-target">>, r.at)
           \cup Wrong(r.inferred /\ ~r.nullable, <<"type-ref-inferred-not-nullable">>, r.at)
             : r \in {n \in NodesOf(doc, "Ref") : n.position = "TypeRef.Target"}}
\* checkReferentialIntegrity: what a class of reference resolves against.  A
\* walk cut short has not met every declaration; PropID is pass's.
Registry(doc, class) ==
    IF class = "t" THEN DOMAIN doc.types ELSE IF class = "auth" THEN DOMAIN doc.auth ELSE IF class = "server" THEN DOMAIN doc.servers
    ELSE {n.id : n \in {m \in ToSet(Declarations(doc)) : m.class = class}}
CheckReferentialIntegrity(doc) ==
    UNION {UNION {Wrong(r.ids[i] # <<>> /\ r.class # "p" /\ (r.class \in KeyedClasses \/ ~doc.truncated)
                          /\ r.ids[i] \notin Registry(doc, r.class),
                        <<"dangling-ref", r.class>>, EntryAt(r.at, i)) : i \in HeldIDs(r)} : r \in NodesOf(doc, "Ref")}
CheckCycles(doc) == {Found(<<"cyclic-structure">>, n.at) : n \in NodesOf(doc, "Cycle")}

----------------------------------------------------------------------------
\* Texts: "" and " " are blank, "?" does not decode.
IsBlankName(s) == s \in {"", " "}
ValidString(s) == s # "?"
CheckUTF8(doc) ==
    UNION {UNION {Wrong(~ValidString(n.texts[i]), <<"invalid-utf8">>, EntryAt(n.at, i)) : i \in DOMAIN n.texts}
             : n \in {m \in ToSet(doc.nodes) : "texts" \in DOMAIN m}}
\* An entry a list keeps: not blank, decoded, and first of its kind.
FirstIn(list, i) == \A j \in 1 .. i - 1 : list[j] # list[i]
\* appendAliasViolations: a redundant entry is not noted, so its repeat is
\* redundant again.
AliasFaults(source, list, at) ==
    UNION {IF IsBlankName(list[i]) THEN {Found(<<"naming-alias-blank">>, EntryAt(at, i))}
           ELSE IF ~ValidString(list[i]) THEN {}
           ELSE IF list[i] = source THEN {Found(<<"naming-alias-redundant">>, EntryAt(at, i))}
           ELSE Wrong(~FirstIn(list, i), <<"naming-alias-duplicate">>, EntryAt(at, i)) : i \in DOMAIN list}
AbsentFault(n) == Wrong(n.source = "" /\ n.canonical = "" /\ n.hint = "" /\ ~n.exempt, <<"naming-absent">>, n.at)
\* derived says whether HasCanonicalWords holds (Spelling).
GrammarFault(n) == Wrong(n.source # "" /\ ~n.derived, <<"naming-not-derived">>, n.at)
\* What appendContentViolations adds of the canonical and the hint is
\* Spelling's ContentFaults, over texts with runes to judge.
CheckNaming(doc) ==
    UNION {AbsentFault(n) \cup GrammarFault(n) \cup AliasFaults(n.source, n.texts, n.at) : n \in NodesOf(doc, "Naming")}
\* checkStringLists: a path may repeat a segment, a set may not.
ListFaults(rule, list, at) ==
    UNION {IF IsBlankName(list[i]) THEN {Found(<<"blank", rule>>, EntryAt(at, i))}
           ELSE Wrong(ValidString(list[i]) /\ rule = "set" /\ ~FirstIn(list, i), <<"set-entry-duplicate">>, EntryAt(at, i))
             : i \in DOMAIN list}
CheckStringLists(doc) == UNION {ListFaults(n.rule, n.texts, n.at) : n \in {m \in NodesOf(doc, "List") : m.rule \in {"path", "set"}}}
CheckRequires(doc) ==
    UNION {LET m == doc.types[id]
           IN  UNION {Wrong(m.requires[i] \in m.props, <<"requires-own-property">>, EntryAt(<<"t">> \o id, i))
                      \cup Wrong(~FirstIn(m.requires, i), <<"requires-duplicate">>, EntryAt(<<"t">> \o id, i))
                        : i \in DOMAIN m.requires} : id \in {t \in TypesHeld(doc) : doc.types[t].kind = "model"}}
CheckOAuthScopes(doc) ==
    UNION {UNION {Wrong(~FirstIn(doc.auth[id].scopes, i), <<"oauth-scope-duplicate">>, EntryAt(<<"auth">> \o id, i))
                    : i \in DOMAIN doc.auth[id].scopes} : id \in DOMAIN doc.auth}

\* isSpanOf: text gives each byte: "start" opens a rune, "rest" continues one.
IsSpanOf(ref, text) ==
    /\ 0 <= ref.start /\ ref.start < ref.end /\ ref.end <= Len(text)
    /\ text[ref.start + 1] = "start" /\ (ref.end = Len(text) \/ text[ref.end + 1] = "start")
\* docRefViolations: a span that is none is left out of the ordering.
\* Mutant: a span out of order is where the next may start.
JudgeSpanForgetting(text, acc, ref) ==
    IF ~IsSpanOf(ref, text) THEN [acc EXCEPT !.codes = Append(@, "span")]
    ELSE [end |-> ref.end, codes |-> Append(acc.codes, IF ref.start < acc.end THEN "order" ELSE "")]
JudgeSpan(text, acc, ref) ==
    IF ~IsSpanOf(ref, text) THEN [acc EXCEPT !.codes = Append(@, "span")]
    ELSE IF ref.start < acc.end THEN [end |-> Max({acc.end, ref.end}), codes |-> Append(acc.codes, "order")]
    ELSE [end |-> ref.end, codes |-> Append(acc.codes, "")]
SpanCodes(refs, text) == FoldLeft(LAMBDA acc, r : JudgeSpan(text, acc, r), [end |-> 0, codes |-> <<>>], refs).codes
CheckDocRefs(doc) ==
    UNION {LET codes == SpanCodes(n.refs, n.text)
           IN  UNION {Wrong(codes[i] # "", <<"doc-ref", codes[i]>>, EntryAt(n.at, i)) : i \in DOMAIN codes}
             : n \in NodesOf(doc, "Docs")}

----------------------------------------------------------------------------
\* sourceOutOfRange and appendLocatorViolations; -1 is NoSource.
SourceOutOfRange(index, declared) == IF declared = 0 THEN index \notin {0, -1} ELSE index \notin -1 .. declared - 1
LocatorFaults(p) ==
    LET positioned == p.line # 0 \/ p.column # 0
    IN  Wrong(~p.rfc6901, <<"provenance-pointer-malformed">>, p.at)
        \cup Wrong(positioned /\ (p.line < 1 \/ p.column < 0), <<"provenance-position-malformed">>, p.at)
        \cup Wrong(p.source = -1 /\ (p.pointed \/ positioned), <<"provenance-locator-without-source">>, p.at)
CheckProvenance(doc) ==
    UNION {Wrong(SourceOutOfRange(p.source, Len(doc.sources)), <<"provenance-source-out-of-range">>, p.at) \cup LocatorFaults(p)
             : p \in NodesOf(doc, "Provenance")}
CheckIndices(doc) ==
    UNION {UNION {Wrong(i \notin 0 .. op.responses - 1, <<"response-index-out-of-range">>, EntryAt(op.at, i)) : i \in op.status}
             : op \in NodesOf(doc, "Operation")}
\* unmodeledEntry and rawConfigEntry: raw is the payload, "nil" and "torn" no
\* JSON value.
RawFaults(n) ==
    Wrong(n.raw \in {"nil", "torn"}, <<"invalid-raw-value">>, n.at)
    \cup Wrong(n.unmodeled /\ n.key = "", <<"empty-unmodeled-key">>, n.at)
    \cup Wrong(n.unmodeled /\ n.reason = "", <<"empty-unmodeled-reason">>, n.at)
    \cup Wrong(n.unmodeled /\ n.reason = "invented", <<"unknown-unmodeled-reason">>, n.at)
CheckRawPayloads(doc) == UNION {RawFaults(n) : n \in NodesOf(doc, "Raw")}

\* valuePayloads: the payload a kind selects, and the kinds an empty one is a
\* value of.
PayloadOf(kind) == CASE kind = "bool" -> "Bool" [] kind \in {"string", "symbol"} -> "Str" [] kind = "number" -> "Num"
                     [] kind = "list" -> "List" [] kind = "ref" -> "Ref" [] OTHER -> ""
DeclaredKinds == {"null", "bool", "string", "symbol", "number", "list", "ref"}
ValueFaults(v) ==
    IF v.kind \notin DeclaredKinds THEN {Found(<<"unknown-value-kind">>, v.at)}
    ELSE {Found(<<"value-stray-payload", f>>, v.at) : f \in v.set \ {PayloadOf(v.kind)}}
         \cup Wrong(v.kind \in {"number", "ref"} /\ PayloadOf(v.kind) \notin v.set, <<"value-missing-payload">>, v.at)
CheckValues(doc) == UNION {ValueFaults(v) : v \in NodesOf(doc, "Value")}
\* checkBigVals: literal is what NewBigVal says of it (Spelling), "not-numeric"
\* of the empty text, which is no defect where no pointer holds it.
CheckBigVals(doc) ==
    UNION {Wrong(n.literal # "canonical" /\ (n.empty => n.byPointer), <<"bigval", n.literal>>, n.at) : n \in NodesOf(doc, "BigVal")}
CheckInferred(doc) ==
    UNION {Wrong(~n.canonical, <<"inferred-not-canonical">>, n.at) \cup Wrong(n.part /\ n.marked /\ ~n.filename, <<"part-encoding-inferred-not-filename">>, n.at)
             : n \in NodesOf(doc, "Inferred")}
CheckIdempotencyTokens(doc) ==
    UNION {Wrong((n.token # "") # (n.kind = "token"), <<"idempotency-token">>, n.at) : n \in NodesOf(doc, "Idempotency")}
CheckWebhookRoutes(doc) ==
    UNION {Wrong(IF n.webhook THEN n.template ELSE n.event, <<"webhook-route">>, n.at) : n \in NodesOf(doc, "HTTPBinding")}
\* checkStreamingModes and checkStability, on operations.
CheckStreamingModes(doc) == UNION {Wrong(o.streaming = "invented", <<"unknown-streaming-mode">>, o.at) : o \in NodesOf(doc, "Operation")}
CheckStability(doc) == UNION {Wrong(o.stability = "invented", <<"unknown-stability">>, o.at) : o \in NodesOf(doc, "Operation")}

----------------------------------------------------------------------------
CheckPrimKinds(doc) ==
    UNION {Wrong(doc.types[id].prim = "invented", <<"unknown-prim-kind">>, <<"t">> \o id)
             : id \in {t \in TypesHeld(doc) : doc.types[t].kind = "primitive"}}
CheckAuthKinds(doc) == UNION {Wrong(doc.auth[id].kind = "invented", <<"unknown-auth-kind">>, <<"auth">> \o id) : id \in DOMAIN doc.auth}
CheckUnresolvedSchemes(doc) ==
    UNION {LET s == doc.auth[id]
               unresolved == s.kind = "unresolved"
           IN  Wrong(WellFormedID("auth", id) /\ unresolved # (IDSpace("auth", id) = "unresolved"), <<"unresolved-auth-space">>, <<"auth">> \o id)
               \cup Wrong(unresolved /\ s.mechanism, <<"unresolved-auth-has-mechanism">>, <<"auth">> \o id) : id \in DOMAIN doc.auth}
CheckUnions(doc) ==
    UNION {LET u == doc.types[id]
           IN  Wrong(u.variants = 0, <<"union-no-variants">>, <<"t">> \o id)
               \cup Wrong(u.discriminator /\ ~u.wireTagged, <<"union-discriminator-untagged">>, <<"t">> \o id)
             : id \in {t \in TypesHeld(doc) : doc.types[t].kind = "union"}}
\* mapOnly and AsMap (ir/mapform.go): facts is the set of model-only facts the
\* model states beside its catch-all.
MapOnly(m) == m.catchAll /\ ~m.patterns /\ m.props = {} /\ m.requires = <<>> /\ m.facts = {}
CheckMaps(doc) ==
    UNION {Wrong(MapOnly(doc.types[id]), <<"map-as-model">>, <<"t">> \o id)
             : id \in {t \in TypesHeld(doc) : doc.types[t].kind = "model"}}
\* key is the type a map or a catch-all keys its members by, <<>> for none.
CatchAllKey(t) == IF t.kind = "map" \/ (t.kind = "model" /\ t.catchAll) THEN t.key ELSE <<>>
CheckMapKeys(doc) ==
    UNION {Wrong(CatchAllKey(doc.types[id]) = PrimTypeID("string") /\ ~doc.types[id].keyNullable, <<"map-key-string">>, <<"t">> \o id)
             : id \in DOMAIN doc.types}
CheckVersion(doc) == Wrong(doc.version # "read", <<"ir-version", doc.version>>, <<"version">>)
\* checkDocument: a source's format and hash are malformed or not.
CheckDocument(doc) ==
    Wrong(doc.services = 0, <<"services-absent">>, <<"services">>)
    \cup Wrong(doc.sources = <<>>, <<"sources-absent">>, <<"sources">>)
    \cup UNION {Wrong(~doc.sources[i].format, <<"source-format-malformed">>, EntryAt(<<"sources">>, i))
                \cup Wrong(~doc.sources[i].hash, <<"source-hash-malformed">>, EntryAt(<<"sources">>, i)) : i \in DOMAIN doc.sources}

\* walkChecks and runWalkChecks, and Verify.
WalkChecks(doc) ==
    CheckReferentialIntegrity(doc) \cup CheckTypeRefs(doc) \cup CheckDuplicateIDs(doc) \cup CheckDeclaredIDs(doc) \cup CheckIDSpaces(doc)
    \cup CheckNaming(doc) \cup CheckStringLists(doc) \cup CheckRawPayloads(doc) \cup CheckProvenance(doc) \cup CheckIndices(doc)
    \cup CheckBigVals(doc) \cup CheckInferred(doc) \cup CheckStability(doc) \cup CheckDocRefs(doc) \cup CheckUTF8(doc) \cup CheckValues(doc)
    \cup CheckCycles(doc) \cup CheckEmptyRefs(doc) \cup CheckIdempotencyTokens(doc) \cup CheckStreamingModes(doc) \cup CheckWebhookRoutes(doc)
RunWalkChecks(doc) == WalkChecks(doc) \cup Wrong(doc.truncated, <<"walk-truncated">>, <<"document">>)
VerifyDocument(doc) ==
    CheckRegistryKeys(doc) \cup CheckIDs(doc) \cup CheckPrimIDs(doc) \cup CheckPrimKinds(doc) \cup CheckAuthKinds(doc)
    \cup CheckUnresolvedSchemes(doc) \cup CheckOAuthScopes(doc) \cup CheckUnions(doc) \cup CheckMaps(doc) \cup CheckMapKeys(doc)
    \cup CheckRequires(doc) \cup CheckVersion(doc) \cup CheckDocument(doc) \cup RunWalkChecks(doc)

----------------------------------------------------------------------------
\* json.go: a Document encodes unless it holds itself, a text that is no UTF-8
\* or a payload that is no JSON; a nil payload is written null, as a nil type is.
Encode(doc) ==
    IF NodesOf(doc, "Cycle") # {} \/ CheckUTF8(doc) # {} \/ (\E n \in NodesOf(doc, "Raw") : n.raw = "torn") THEN [err |-> TRUE]
    ELSE [err |-> FALSE, version |-> doc.version, types |-> [id \in DOMAIN doc.types |-> doc.types[id].kind],
          raws |-> {<<n.at, IF n.raw = "nil" THEN "null" ELSE n.raw>> : n \in NodesOf(doc, "Raw")}]
\* checkVersionOf reads the stamp before anything else, decodeTypeDef the kind.
Decode(text) ==
    IF text.err \/ text.version # "read" THEN [err |-> TRUE]
    ELSE IF \E id \in DOMAIN text.types : text.types[id] = "nil" THEN [err |-> TRUE] ELSE text

\* A document nothing is said of encodes, decodes, and comes back the same.
CleanRoundTrips(doc) ==
    VerifyDocument(doc) = {} =>
      /\ ~Decode(Encode(doc)).err
      /\ Decode(Encode(doc)).raws = {<<n.at, n.raw>> : n \in NodesOf(doc, "Raw")}

\* Whatever two defects a document has, each is reported as it is alone: no
\* check hides what another, or the same one elsewhere, finds.
DefectsAdd(doc, a, b) ==
    LET with(nodes) == VerifyDocument([doc EXCEPT !.nodes = @ \o nodes])
    IN  /\ VerifyDocument(doc) = {} /\ with(<<a>>) # {} /\ with(<<b>>) # {}
        /\ with(<<a, b>>) = with(<<a>>) \cup with(<<b>>)

\* checkDuplicateIDs: a node is reported when another of its class declared its
\* ID before it, a property only when it is not a copy of the first.
DuplicatesExact(doc) ==
    LET n == doc.nodes
        rivals(i) == {j \in 1 .. i - 1 : n[j].class = n[i].class /\ n[j].id = n[i].id /\ n[i].id # <<>>}
        told(i) == rivals(i) # {} /\ (n[i].class = "p" => FingerprintOf(n[i]) # FingerprintOf(n[Min(rivals(i))]))
    IN  {v.at : v \in CheckDuplicateIDs(doc)} = {n[i].at : i \in {k \in DOMAIN n : told(k)}}

\* An ID as derived is accepted, and one that lost a separator, its kind or a
\* segment, or moved to a space of another kind, is reported, in every class; so is
\* an entry of the channels and of the messages under any key but its own ID.
Damages(id, foreign) ==
    {<<id[1], id[2] \o id[3]>> \o SubSeq(id, 4, Len(id)), Tail(id), <<id[1], "">> \o SubSeq(id, 3, Len(id)),
     <<id[1], foreign>> \o SubSeq(id, 3, Len(id)), <<id[1], id[2], "">>}
DamagedFound(doc, n, foreign) ==
    LET with(id) == VerifyDocument([doc EXCEPT !.nodes = Append(@, [n EXCEPT !.id = id])])
        at(key) == VerifyDocument([doc EXCEPT !.channels = key :> [id |-> n.id], !.messages = key :> [id |-> n.id]])
    IN  /\ with(n.id) = {} /\ \A id \in Damages(n.id, foreign) : with(id) # {}
        /\ at(n.id) = {} /\ \A key \in Damages(n.id, foreign) \cup {<<>>} : Cardinality(at(key)) = 2

\* An ID in a position that must name something, and names nothing the document
\* declares, is reported once; any other is not.
RefJudgedOnce(doc, r) ==
    LET told == {v \in VerifyDocument([doc EXCEPT !.nodes = Append(@, r)]) : IsPrefix(r.at, v.at)}
        mayBeNone == \/ r.position \in {"Idempotency.TokenParam", "Discriminator.Default"}
                     \/ r.position = "Discriminator.Property" /\ (r.propertyName \/ r.index)
        dangles(id) == /\ ~\E n \in ToSet(Declarations(doc)) : n.class = r.class /\ n.id = id
                       /\ r.class # "p" /\ (r.class \in KeyedClasses \/ ~doc.truncated)
        broken == {i \in DOMAIN r.ids : ~r.nil /\ IF r.ids[i] = <<>> THEN ~mayBeNone ELSE dangles(r.ids[i])}
    IN  Cardinality(told) = Cardinality(broken)

\* Dropping what is reported of a list leaves one nothing is said of, that
\* still holds every name the list holds.
ListRepaired(list, source) ==
    LET at == <<"list">>
        kept(faults) == LET keep == SetToSortSeq({i \in DOMAIN list : EntryAt(at, i) \notin {v.at : v \in faults}}, <)
                        IN  [k \in DOMAIN keep |-> list[keep[k]]]
        names == {s \in ToSet(list) : ~IsBlankName(s)}
        aliases == kept(AliasFaults(source, list, at))
        set == kept(ListFaults("set", list, at))
    IN  /\ AliasFaults(source, aliases, at) = {} /\ ToSet(aliases) = names \ {source}
        /\ ListFaults("set", set, at) = {} /\ ToSet(set) = names
\* What is left of a description's spans can be spliced in one pass over it.
SpansSpliced(refs, text) ==
    LET codes == SpanCodes(refs, text)
        kept == SelectSeq([i \in DOMAIN refs |-> <<codes[i], refs[i]>>], LAMBDA p : p[1] = "")
    IN  /\ \A i, j \in DOMAIN kept : i < j => kept[i][2].end <= kept[j][2].start
        /\ \A i \in DOMAIN kept : IsSpanOf(kept[i][2], text)
        /\ ((\A i, j \in DOMAIN refs : i < j => refs[i].end <= refs[j].start) /\ (\A i \in DOMAIN refs : IsSpanOf(refs[i], text)))
             => \A i \in DOMAIN codes : codes[i] = ""
=============================================================================
