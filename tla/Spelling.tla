------------------------------ MODULE Spelling ------------------------------
(***************************************************************************)
(* The spellings the IR fixes: neutral words (ir/naming.go), decimal       *)
(* literals and the values they denote (ir/decimal.go, ir/bigval.go), and  *)
(* inferred-marker lists (ir/inferred.go).                                 *)
(*                                                                         *)
(* A text is a sequence of runes.  A name's rune is known by what Unicode  *)
(* says of it: "a" a lowercase letter, "A" the capital of one, "T" a       *)
(* titlecase one, "Z" a capital lowercasing leaves alone, "h" a letter     *)
(* without case, "1" a digit, "m" a mark; any other separates.             *)
(***************************************************************************)
EXTENDS Integers, Sequences, SequencesExt, FiniteSets, FiniteSetsExt

CONSTANTS MaxDecimalExp, ExpSaturation

IsLetter(r) == r \in {"a", "A", "T", "Z", "h"}
IsDigit(r) == r \in {"1"}
IsWordRune(r) == IsLetter(r) \/ IsDigit(r) \/ r = "m"
ToLower(r) == IF r \in {"A", "T"} THEN "a" ELSE r
IsCapital(r) == r \in {"A", "T", "Z"}
CarriesCase(r) == ToLower(r) # r
AcronymTail(prev, r, next) ==
    IsCapital(prev) /\ IsCapital(r) /\ (CarriesCase(prev) \/ CarriesCase(r)) /\ next = "a"
Straddles(prev, r) == (IsLetter(prev) /\ IsDigit(r)) \/ (IsDigit(prev) /\ IsLetter(r))
WordBoundary(prev, r, next) ==
    \/ CarriesCase(r) /\ (prev = "a" \/ IsDigit(prev))
    \/ AcronymTail(prev, r, next)
    \/ Straddles(prev, r)

RuneAt(s, i) == IF i \in DOMAIN s THEN s[i] ELSE "end"
\* sourceWords: where a word starts, and the word that starts there.
Opens(s, i) == IsWordRune(s[i]) /\ (IsWordRune(RuneAt(s, i - 1)) => WordBoundary(s[i - 1], s[i], RuneAt(s, i + 1)))
WordFrom(s, i) == SubSeq(s, i, Min({j \in i .. Len(s) : ~IsWordRune(RuneAt(s, j + 1)) \/ Opens(s, j + 1)}))
SourceWords(s) ==
    LET starts == SetToSortSeq({i \in DOMAIN s : Opens(s, i)}, <)
    IN  [k \in DOMAIN starts |-> WordFrom(s, starts[k])]
\* canonicalRunes and its two readers.
Lowered(w) == [i \in DOMAIN w |-> ToLower(w[i])]
CanonicalWords(s) ==
    LET words == SourceWords(s)
    IN  FoldLeftDomain(LAMBDA acc, k : acc \o (IF k = 1 THEN <<>> ELSE <<"_">>) \o Lowered(words[k]), <<>>, words)
HasCanonicalWords(s, words) == CanonicalWords(s) = words

\* irverify's reading of a name on its own.
IsCased(s) == Lowered(s) # s
Parts(s) == LET cuts == {0, Len(s) + 1} \cup {i \in DOMAIN s : s[i] = "_"}
            IN  {SubSeq(s, i + 1, Min({j \in cuts : j > i}) - 1) : i \in cuts \ {Len(s) + 1}}
IsWordSequence(s) == s = <<>> \/ \A w \in Parts(s) : w # <<>> /\ \A i \in DOMAIN w : IsWordRune(w[i])
IsSegmented(s) == \A w \in Parts(s) : \A i \in 2 .. Len(w) : ~Straddles(w[i - 1], w[i])
ContentFaults(s) ==
    {c \in {"cased", "not-words", "unsegmented"} :
       \/ c = "cased" /\ IsCased(s)
       \/ c = "not-words" /\ ~IsWordSequence(s)
       \/ c = "unsegmented" /\ ~IsSegmented(s)}

----------------------------------------------------------------------------
Digits == {"0", "1", "5"}
ValueOf(d) == CASE d = "0" -> 0 [] d = "1" -> 1 [] d = "5" -> 5
ScanDigits(s, i) == Min({k \in i .. Len(s) + 1 : k = Len(s) + 1 \/ s[k] \notin Digits})
SignAt(s, i) == IF RuneAt(s, i) \in {"+", "-"} THEN i + 1 ELSE i
\* scanDecimal: the literal as written, or nothing.
ScanDecimal(s) ==
    LET first == SignAt(s, 1)
        point == ScanDigits(s, first)
        dotted == RuneAt(s, point) = "."
        mantissa == IF dotted THEN ScanDigits(s, point + 1) ELSE point
        raised == RuneAt(s, mantissa) = "e"
        power == SignAt(s, mantissa + 1)
        end == IF raised THEN ScanDigits(s, power) ELSE mantissa
        int == SubSeq(s, first, point - 1)
        frac == IF dotted THEN SubSeq(s, point + 1, mantissa - 1) ELSE <<>>
    IN  IF int \o frac = <<>> \/ (raised /\ end = power) \/ end # Len(s) + 1 THEN <<>>
        ELSE <<[neg |-> RuneAt(s, 1) = "-", int |-> int, frac |-> frac, point |-> dotted,
                exponent |-> SubSeq(s, mantissa, end - 1)]>>

\* exponentValue saturates before it multiplies.
ReadPower(body) ==
    FoldLeft(LAMBDA e, d : IF e >= ExpSaturation \div 10 THEN ExpSaturation ELSE e * 10 + ValueOf(d), 0, body)
ExponentValue(exponent) ==
    LET body == SubSeq(exponent, SignAt(exponent, 2), Len(exponent))
    IN  IF exponent = <<>> THEN 0 ELSE IF exponent[2] = "-" THEN -ReadPower(body) ELSE ReadPower(body)
LeadingZeros(run) == Min({i \in 1 .. Len(run) + 1 : i = Len(run) + 1 \/ run[i] # "0"}) - 1
\* leadExponent: the power of ten of the leading digit.
LeadExponent(l) == ExponentValue(l.exponent) + Len(l.int) - LeadingZeros(l.int \o l.frac) - 1
IsZero(l) == \A i \in DOMAIN (l.int \o l.frac) : (l.int \o l.frac)[i] = "0"
\* Mutant: the bound is on the exponent as written.
InRangeWritten(l) == IsZero(l) \/ ExponentValue(l.exponent) \in -MaxDecimalExp .. MaxDecimalExp
InRange(l) == IsZero(l) \/ LeadExponent(l) \in -MaxDecimalExp .. MaxDecimalExp
\* What an ExponentRangeError still says.
RefusedIsInt(l) == LeadExponent(l) >= 0

TrimLeading(run) == SubSeq(run, LeadingZeros(run) + 1, Len(run))
TrimZeros(run) == Reverse(TrimLeading(Reverse(TrimLeading(run))))
DecimalOf(l) ==
    IF IsZero(l) THEN [neg |-> FALSE, digits |-> <<>>, exp |-> 0]
    ELSE [neg |-> l.neg, digits |-> TrimZeros(l.int \o l.frac), exp |-> LeadExponent(l)]
ParseDecimal(s) ==
    LET l == ScanDecimal(s)
    IN  IF l = <<>> THEN [err |-> "not-decimal"] ELSE IF ~InRange(l[1]) THEN [err |-> "range"]
        ELSE [err |-> "", d |-> DecimalOf(l[1])]
SpelledForJSON(l, s) ==
    (l.int = <<"0">> \/ (l.int # <<>> /\ l.int[1] # "0")) /\ s[1] # "+" /\ l.point = (l.frac # <<>>)
JSONSpelling(l) ==
    (IF l.neg THEN <<"-">> ELSE <<>>) \o (IF TrimLeading(l.int) = <<>> THEN <<"0">> ELSE TrimLeading(l.int))
    \o (IF l.frac = <<>> THEN <<>> ELSE <<".">> \o l.frac) \o l.exponent
NewBigVal(s) ==
    LET l == ScanDecimal(s)
    IN  IF ParseDecimal(s).err # "" THEN ParseDecimal(s)
        ELSE [err |-> "", text |-> IF SpelledForJSON(l[1], s) THEN s ELSE JSONSpelling(l[1])]

Sign(d) == IF d.digits = <<>> THEN 0 ELSE IF d.neg THEN -1 ELSE 1
Order(a, b) == IF a < b THEN -1 ELSE IF a > b THEN 1 ELSE 0
OrderText(a, b) ==
    LET differ == {i \in DOMAIN a \cap DOMAIN b : a[i] # b[i]}
    IN  IF differ = {} THEN Order(Len(a), Len(b)) ELSE Order(ValueOf(a[Min(differ)]), ValueOf(b[Min(differ)]))
Cmp(d, e) ==
    LET size == IF d.exp # e.exp THEN Order(d.exp, e.exp) ELSE OrderText(d.digits, e.digits)
    IN  IF Sign(d) # Sign(e) THEN Order(Sign(d), Sign(e)) ELSE IF d.neg THEN -size ELSE size
IsInt(d) == d.digits = <<>> \/ d.exp >= Len(d.digits) - 1

----------------------------------------------------------------------------
\* An inferred-marker list is the sequence of its names, "" where two
\* separators meet; the empty text is the one list <<"">>.
JoinInferred(names) ==
    LET keep == {i \in DOMAIN names : names[i] # "" /\ \A j \in 1 .. i - 1 : names[j] # names[i]}
        at == SetToSortSeq(keep, <)
    IN  IF keep = {} THEN <<"">> ELSE [k \in DOMAIN at |-> names[at[k]]]
IsCanonical(names) == names = <<"">> \/ (IsInjective(names) /\ "" \notin ToSet(names))

----------------------------------------------------------------------------
\* CanonicalWords is a fixed point whose words irverify finds no fault with,
\* and no spelling of separators adds or drops a letter.
WordsSettled(s) ==
    LET words == CanonicalWords(s)
    IN  /\ CanonicalWords(words) = words /\ HasCanonicalWords(words, words)
        /\ ContentFaults(words) = {}
        /\ SelectSeq(words, IsWordRune) = Lowered(SelectSeq(s, IsWordRune))

\* The value a literal denotes, times ten to the 4: an integer where no digit
\* of it is lower.
Scaled(l) ==
    LET all == l.int \o l.frac
        whole == FoldLeft(LAMBDA n, d : n * 10 + ValueOf(d), 0, all)
        shift == 4 + ExponentValue(l.exponent) - Len(l.frac)
        size == IF shift >= 0 THEN whole * 10 ^ shift ELSE whole \div 10 ^ (-shift)
    IN  IF IsZero(l) THEN 0 ELSE IF l.neg THEN -size ELSE size
\* Two literals are accepted together when they denote one value, a Decimal
\* orders them as their values, and it is the value: == is equality.
DecimalsOrdered(s, t) ==
    LET a == ParseDecimal(s)
        b == ParseDecimal(t)
        x == Scaled(ScanDecimal(s)[1])
        y == Scaled(ScanDecimal(t)[1])
    IN  (a.err = "" /\ b.err = "") =>
          /\ Cmp(a.d, b.d) = Order(x, y) /\ (a.d = b.d) = (x = y) /\ IsInt(a.d) = (x % 10 ^ 4 = 0)
\* A refused literal's value has its leading digit out of range, whatever
\* spelled it; an accepted one is stored in JSON form, once and for all, and
\* denotes what was written.
BigValsKept(s) ==
    LET l == ScanDecimal(s)
        kept == NewBigVal(s)
        again == NewBigVal(kept.text)
    IN  /\ kept.err = "" =>
             /\ again = kept /\ ParseDecimal(kept.text) = ParseDecimal(s)
             /\ SpelledForJSON(ScanDecimal(kept.text)[1], kept.text)
        /\ (l # <<>> /\ ~IsZero(l[1])) =>
             LET size == IF l[1].neg THEN -Scaled(l[1]) ELSE Scaled(l[1])
             IN  /\ kept.err = "" => size \in 10 ^ (4 - MaxDecimalExp) .. 10 ^ (5 + MaxDecimalExp) - 1
                 /\ (kept.err = "range" /\ ExponentValue(l[1].exponent) \in -3 .. 3) =>
                      /\ size \notin 10 ^ (4 - MaxDecimalExp) .. 10 ^ (5 + MaxDecimalExp) - 1
                      /\ RefusedIsInt(l[1]) = (size >= 10 ^ 4)
\* Lists joined in one call or in two name the same heuristics in one form.
InferredJoined(a, b) ==
    /\ IsCanonical(JoinInferred(a)) /\ (JoinInferred(a) = a) = IsCanonical(a)
    /\ JoinInferred(JoinInferred(a) \o JoinInferred(b)) = JoinInferred(a \o b)
=============================================================================
