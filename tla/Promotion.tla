----------------------------- MODULE Promotion -----------------------------
(***************************************************************************)
(* Vendor extensions read into typed fields                                *)
(* (compilers/openapi/internal/lowering, promotion.go).                    *)
(*                                                                         *)
(* A policy maps each field to the sources it is read from, in order of    *)
(* precedence: an extension's key, and a member of its object.  What a     *)
(* node keeps of its extensions is a function from keys to raw values; a   *)
(* raw value is text, a boolean, null, or an object of raw members.        *)
(***************************************************************************)
EXTENDS Integers, Sequences, FiniteSets, SequencesExt

Text(w) == [is |-> "text", word |-> w]
Flag(b) == [is |-> "flag", set |-> b]
Null == [is |-> "null"]
Object(members) == [is |-> "object", members |-> members]

Key(k) == [key |-> k, member |-> ""]
Member(k, m) == [key |-> k, member |-> m]

Members == {"message", "since", "removalVersion", "removalDate"}
Targets == Members \cup {"deprecation", "stability", "redaction", "enumOpen"}
Defaults ==
    [deprecation |-> <<Key("x-fern-availability"), Key("x-stability")>>,
     message |-> <<Key("x-deprecated-reason"), Key("x-stainless-deprecation-message"),
                   Member("x-cfDeprecation", "description")>>,
     since |-> <<Key("x-deprecated-since")>>,
     removalVersion |-> <<>>,
     removalDate |-> <<Key("x-sunset"), Member("x-forge-sunset", "date"), Member("x-cfDeprecation", "eol")>>,
     stability |-> <<Key("x-stability"), Key("x-fern-availability")>>,
     redaction |-> <<Key("x-sensitive")>>,
     enumOpen |-> <<Key("x-extensible-enum")>>]

\* newPromoter: a mapping stated replaces the default whole.
Promoter(disabled, stated) ==
    [t \in Targets |-> IF disabled THEN <<>>
                       ELSE IF DOMAIN stated = {} THEN Defaults[t]
                       ELSE IF t \in DOMAIN stated THEN stated[t] ELSE <<>>]

----------------------------------------------------------------------------
\* What a value says to the target that reads it.
States(v) == [said |-> "states", value |-> v]
Nothing == [said |-> "nothing", value |-> Null]
Misfit == [said |-> "misfit", value |-> Null]

\* value: the entry whole, or the member named; a value with no members holds none.
Located(src, raw) ==
    IF src.member = "" THEN States(raw)
    ELSE IF raw.is # "object" THEN Misfit
    ELSE IF src.member \in DOMAIN raw.members THEN States(raw.members[src.member]) ELSE Nothing

ReadText(raw) == IF raw.is # "text" THEN Misfit ELSE IF raw.word = "" THEN Nothing ELSE States(raw)
StatesBoolean(raw) == IF raw.is # "flag" THEN Misfit ELSE IF raw.set THEN States(Flag(TRUE)) ELSE Nothing
StatesDeprecated(raw) ==
    IF raw.is # "text" THEN StatesBoolean(raw)
    ELSE IF raw.word = "deprecated" THEN States(Flag(TRUE)) ELSE Nothing

\* The key's presence opens an enum, whatever its value but an explicit false.
ExtensionOpenness(raw) == raw.is = "flag" => raw.set

\* stabilityTier.
TierWords == {"alpha", "beta", "preview", "stable", "generally-available"}
Tier(word) == IF word = "preview" THEN "beta" ELSE IF word = "generally-available" THEN "stable" ELSE word
\* readStability: what the deprecation target takes from the same source is left to it.
ReadStabilityAlone(p, src, raw) ==
    IF raw.is = "text" /\ raw.word \in TierWords THEN States(Text(Tier(raw.word))) ELSE Misfit
ReadStability(p, src, raw) ==
    IF raw.is = "text" /\ raw.word \in TierWords THEN States(Text(Tier(raw.word)))
    ELSE IF StatesDeprecated(raw).said # "nothing" /\ src \in ToSet(p["deprecation"]) THEN Nothing
    ELSE Misfit

ReadAs(p, target, src, raw) ==
    CASE target \in Members -> ReadText(raw)
      [] target = "deprecation" -> StatesDeprecated(raw)
      [] target = "redaction" -> StatesBoolean(raw)
      [] target = "enumOpen" -> States(Flag(ExtensionOpenness(raw)))
      [] OTHER -> ReadStability(p, src, raw)

\* firstStated: what each source that is declared says, in the policy's order; the
\* first to state a value is kept, and a misfit or another value is reported.
Sayings(p, entries, target) ==
    LET declared == SelectSeq(p[target], LAMBDA s : s.key \in DOMAIN entries)
    IN  [i \in DOMAIN declared |->
           LET at == Located(declared[i], entries[declared[i].key])
               read == IF at.said = "states" THEN ReadAs(p, target, declared[i], at.value) ELSE at
           IN  [src |-> declared[i], located |-> at.said, said |-> read.said, value |-> read.value]]
FirstStated(p, entries, target) ==
    LET said == Sayings(p, entries, target)
        stating == {i \in DOMAIN said : said[i].said = "states"}
        first == CHOOSE i \in stating : \A j \in stating : i <= j
    IN  [found |-> stating # {},
         value |-> IF stating = {} THEN Null ELSE said[first].value,
         reports |-> {<<IF said[i].located = "misfit" THEN Key(said[i].src.key) ELSE said[i].src, "misfit">> :
                        i \in {j \in DOMAIN said : said[j].said = "misfit"}}
                     \cup {<<said[i].src, "another">> : i \in {j \in stating : said[j].value # said[first].value}}]

----------------------------------------------------------------------------
\* A deprecation holds a text for each member, Null where it has none; Null is no
\* deprecation at all.
Unsaid == [m \in Members |-> Null]
Declared(keyword) == IF keyword THEN Unsaid ELSE Null

\* readReferent: a schema no keyword or key deprecates lends no member.
NoReferent == [deprecated |-> FALSE, members |-> Unsaid, redacted |-> FALSE, inherits |-> FALSE]
ReadReferentFreely(p, declared, entries) ==
    [deprecated |-> FirstStated(p, entries, "deprecation").found,
     members |-> [m \in Members |-> FirstStated(p, entries, m).value],
     redacted |-> FirstStated(p, entries, "redaction").found,
     inherits |-> FALSE]
ReadReferent(p, declared, entries) ==
    LET deprecated == FirstStated(p, entries, "deprecation").found
    IN  [deprecated |-> deprecated,
         members |-> [m \in Members |-> IF declared \/ deprecated THEN FirstStated(p, entries, m).value ELSE Null],
         redacted |-> FirstStated(p, entries, "redaction").found,
         inherits |-> FALSE]
\* Referent: read once for each schema, and remembered by it.
AskReferent(p, memo, of, declared, entries) ==
    IF of \in DOMAIN memo THEN memo
    ELSE [s \in DOMAIN memo \cup {of} |-> IF s = of THEN ReadReferent(p, declared, entries) ELSE memo[s]]

\* Deprecation: a key makes one where no keyword did; the members then fill it, a
\* text of the node's own before one that is lent.
Deprecation(p, own, from, dep) ==
    LET stated == FirstStated(p, own, "deprecation")
        made == (stated.found \/ (from.deprecated /\ from.inherits)) /\ dep = Null
        texts == [m \in Members |-> LET f == FirstStated(p, own, m) IN IF f.found THEN f.value ELSE from.members[m]]
        base == IF made THEN Unsaid ELSE dep
    IN  IF base = Null THEN [dep |-> Null, marked |-> FALSE, reports |-> stated.reports]
        ELSE [dep |-> [m \in Members |-> IF texts[m] # Null THEN texts[m] ELSE base[m]],
              marked |-> made \/ \E m \in Members : texts[m] # Null,
              reports |-> stated.reports \cup UNION {FirstStated(p, own, m).reports : m \in Members}]
Stability(p, own, tier) ==
    LET s == FirstStated(p, own, "stability")
    IN  [tier |-> IF s.found THEN s.value ELSE tier, marked |-> s.found, reports |-> s.reports]
Redaction(p, own, from, redact) ==
    LET s == FirstStated(p, own, "redaction")
    IN  [redact |-> redact \/ s.found \/ from.redacted, marked |-> ~redact /\ (s.found \/ from.redacted), reports |-> s.reports]

EnumOpenness(p, own, closed) ==
    LET s == FirstStated(p, own, "enumOpen")
        open == s.value = Flag(TRUE)
    IN  [closed |-> closed /\ ~open, marked |-> open, reports |-> s.reports]

----------------------------------------------------------------------------
\* A value at a key that states stability and deprecation alike is read by exactly
\* one of the two, or reported exactly once, or loses to one the policy reads first.
ReadByOne(p, own) ==
    LET dep == Deprecation(p, own, NoReferent, Null)
        tier == Stability(p, own, Null)
    IN  \A src \in ToSet(p["deprecation"]) \cap ToSet(p["stability"]) :
          src.key \in DOMAIN own /\ src.member = "" =>
            LET takes(t) == \E i \in DOMAIN Sayings(p, own, t) :
                              Sayings(p, own, t)[i].src = src /\ Sayings(p, own, t)[i].said = "states"
                misfits(r) == Cardinality({x \in r : x = <<src, "misfit">>})
            IN  Cardinality({t \in {"deprecation", "stability"} : takes(t)}) + misfits(dep.reports) + misfits(tier.reports) = 1

\* A closed set stays closed exactly when no key the policy reads is written or the
\* first that is written declines, and a later key that says otherwise is reported.
OpenedByFirst(p, own) ==
    LET written == {i \in DOMAIN p["enumOpen"] : p["enumOpen"][i].key \in DOMAIN own}
        says(i) == own[p["enumOpen"][i].key] # Flag(FALSE)
        first == CHOOSE i \in written : \A j \in written : i <= j
        enum == EnumOpenness(p, own, TRUE)
    IN  /\ enum.closed <=> (written # {} => ~says(first))
        /\ enum.marked = ~enum.closed
        /\ Cardinality(enum.reports) = Cardinality({i \in written : says(i) # says(first)})

\* What a use of a schema reads through its $ref is what the schema itself holds: a
\* text of the use's own wins field by field, a deprecation is made only where the
\* use or, unless it writes `deprecated`, the schema has one, and the mark is there
\* exactly when something was written.  A schema asked for before, or after another,
\* lends the same.
LentAsHeld(p, own, entries, keyword, writes) ==
    LET inherits == writes = "none"
        dep == Declared(writes = "true" \/ (inherits /\ keyword))
        memo == AskReferent(p, AskReferent(p, <<>>, "other", FALSE, own), "schema", keyword, entries)
        lent == AskReferent(p, memo, "schema", keyword, entries)["schema"]
        held == Deprecation(p, entries, NoReferent, Declared(keyword)).dep
        alone == Deprecation(p, own, NoReferent, dep).dep
        use == Deprecation(p, own, [lent EXCEPT !.inherits = inherits], dep)
        secret == Redaction(p, own, lent, FALSE)
    IN  /\ use.dep # Null <=> alone # Null \/ (inherits /\ held # Null)
        /\ use.dep # Null =>
             \A m \in Members :
               use.dep[m] = IF FirstStated(p, own, m).found THEN FirstStated(p, own, m).value
                            ELSE IF held # Null THEN held[m] ELSE Null
        /\ use.marked <=> use.dep # dep
        /\ secret.redact <=> Redaction(p, own, NoReferent, FALSE).redact \/ Redaction(p, entries, NoReferent, FALSE).redact
=============================================================================
