------------------------------ MODULE Pipeline ------------------------------
(***************************************************************************)
(* engine: New, and the pipeline of every run of the engine it builds:     *)
(* detect, compile, passes, verdict (engine.go, stage.go, verify.go,       *)
(* verdict.go, and the registry and contract checks of compilers/).        *)
(*                                                                         *)
(* Compilers and passes are the engine's callees: each call returns        *)
(* anything the types allow, breaches of its contract included, and the    *)
(* engine is what tells them apart.  Documents live in a heap, because     *)
(* overlapping runs may be over one document and a pass may change the one *)
(* it is handed.  A finding carries, beside the index it gives, the file   *)
(* its reporter meant by it.                                               *)
(***************************************************************************)
EXTENDS Integers, Sequences, FiniteSets

CONSTANTS
    Run,            \* the runs of the engine
    Compiler, Format, Serves,   \* the formats each compiler reports
    CompilerLists,  \* what New may be given to register, in order
    Name,           \* the names a caller may disable
    PassLists,      \* the pass names New may be given, in order
    Options,        \* the options a run may be given
    Limit,          \* the most bytes each compiler reads, 0 for any size
    Sizes,          \* the sizes a spec may have
    Ref,            \* where documents live
    Given,          \* those callers hand to RunDocument
    File, SpecFile, \* the files a table may list; the spec's own
    Index,          \* the source indexes a finding may give
    Tables,         \* the source tables a stage may give
    Reports,        \* the sets of findings a stage may report
    None

NoSource == -1
Severity == <<"info", "warning", "error">>
FailOn == {"info", "warning", "error", "none"}

(* file is what the reporter meant by src; a severity may be one the IR    *)
(* does not define.                                                        *)
Finding ==
    [sev: {"info", "warning", "error", "odd"}, src: Index, file: File \cup {None}]

InTable(d, table) == d.src = NoSource \/ d.src \in 0..(Len(table) - 1)
Placed(d, table) ==
    d.src = NoSource \/ (d.src \in 0..(Len(table) - 1) /\ d.file = table[d.src + 1])
Outside(ds, table) == \E d \in ds : ~InTable(d, table)
Honest(ds, table) == \A d \in ds : InTable(d, table) => Placed(d, table)
HasError(ds) == \E d \in ds : d.sev = "error"

(* What a stage's document says: is it stamped with this build's version,  *)
(* its source table, the findings on it, does it keep the IR's invariants  *)
(* and encode?                                                             *)
Document ==
    [stamped: BOOLEAN, sources: Tables, diags: Reports, sound: BOOLEAN]

(* Documents written by the engine hold merged findings.                   *)
Written ==
    [stamped: BOOLEAN, sources: Tables, diags: SUBSET Finding, sound: BOOLEAN]

Option ==
    [disabled: SUBSET Name, failOn: FailOn \cup {"odd"}, verify: BOOLEAN,
     channels: 0..2,                \* the option channels set
     undecoded: SUBSET Compiler]    \* who cannot decode the settings

Result == [doc: Ref \cup {None}, diags: SUBSET Finding, sources: Tables, failed: BOOLEAN]

ASSUME ServesAssumption ==
    Serves \in [Compiler -> SUBSET (Format \cup {None})] /\ None \notin Format
ASSUME ListsAssumption ==
    CompilerLists \subseteq Seq(Compiler) /\ PassLists \subseteq Seq(Name \cup {None})
ASSUME FindingAssumption ==
    /\ {0, NoSource} \subseteq Index /\ Index \subseteq Int
    /\ Reports \subseteq SUBSET Finding
    /\ Tables \subseteq Seq(File) /\ <<SpecFile>> \in Tables /\ SpecFile \in File
ASSUME RefAssumption == Given \subseteq Ref /\ None \notin Ref \cup Name \cup Compiler
ASSUME NoneAssumption == None \notin Written /\ None \notin Result /\ None \notin Option
ASSUME OptionsAssumption == Options \subseteq Option
ASSUME SizeAssumption == Limit \in [Compiler -> Nat] /\ Sizes \subseteq Nat

VARIABLES
    engine,     \* "building", "built", or "refused" by New
    offered,    \* the compilers New has still to register
    ordered,    \* the registry: registration order
    byFormat,   \* the compiler of each format, or None
    passes,     \* the engine's passes
    heap,       \* the documents, None where there is none
    pc,         \* where each run is
    opts,       \* its options
    size, held, \* the spec's bytes, and how many of them the run holds
    left,       \* the positions of the compilers or passes still to come
    at,         \* the position of the one called
    taker,      \* the compiler that takes the source
    parse,      \* the compiler whose parse is handed on, if any
    declined,   \* what compilers that declined said
    input,      \* the document RunDocument was handed
    cur,        \* the document the run has got to
    sum,        \* its fingerprint, on a run that verifies
    found,      \* the findings gathered
    cancelled,  \* has the run's context ended?
    result,     \* what the run returned, None for a Go error
    said,       \* history: every finding accepted from a stage
    tampered    \* history: has a pass of the run changed its input?

engineVars == <<engine, offered, ordered, byFormat, passes>>
walkVars == <<left, at>>
specVars == <<size, held>>
detectVars == <<taker, parse, declined>>
docVars == <<input, cur, sum, found, said>>
vars == <<engineVars, heap, pc, opts, specVars, walkVars, detectVars, docVars, cancelled,
          result, tampered>>

PC == {"idle", "detect", "asking", "compiling", "passes", "passing", "end"}

TypeOK ==
    /\ engine \in {"building", "built", "refused"}
    /\ offered \in Seq(Compiler) /\ ordered \in Seq(Compiler)
    /\ byFormat \in [Format -> Compiler \cup {None}]
    /\ passes \in Seq(Name \cup {None})
    /\ heap \in [Ref -> Written \cup {None}]
    /\ pc \in [Run -> PC]
    /\ opts \in [Run -> Option \cup {None}]
    /\ size \in [Run -> Nat] /\ held \in [Run -> Nat]
    /\ left \in [Run -> SUBSET Nat] /\ at \in [Run -> Nat]
    /\ taker \in [Run -> Compiler \cup {None}]
    /\ parse \in [Run -> Compiler \cup {None}]
    /\ declined \in [Run -> SUBSET Finding]
    /\ input \in [Run -> Ref \cup {None}] /\ cur \in [Run -> Ref \cup {None}]
    /\ sum \in [Run -> Written \cup {None}]
    /\ found \in [Run -> SUBSET Finding]
    /\ cancelled \in [Run -> BOOLEAN]
    /\ result \in [Run -> Result \cup {None}]
    /\ said \in [Run -> SUBSET Finding]
    /\ tampered \in [Run -> BOOLEAN]
    /\ \A r \in Run :
         /\ pc[r] # "idle" => opts[r] # None
         /\ pc[r] = "compiling" => taker[r] # None
         /\ pc[r] \in {"passes", "passing"} => cur[r] # None /\ heap[cur[r]] # None

(* The callers' own documents hold findings that mean what they say.       *)
Init ==
    /\ engine = "building"
    /\ offered \in CompilerLists /\ ordered = << >>
    /\ byFormat = [f \in Format |-> None]
    /\ passes \in PassLists
    /\ heap \in [Ref -> Document \cup {None}]
    /\ \A x \in Ref : heap[x] # None <=> x \in Given
    /\ \A x \in Given : Honest(heap[x].diags, heap[x].sources)
    /\ pc = [r \in Run |-> "idle"] /\ opts = [r \in Run |-> None]
    /\ size = [r \in Run |-> 0] /\ held = [r \in Run |-> 0]
    /\ left = [r \in Run |-> {}] /\ at = [r \in Run |-> 0]
    /\ taker = [r \in Run |-> None] /\ parse = [r \in Run |-> None]
    /\ declined = [r \in Run |-> {}]
    /\ input = [r \in Run |-> None] /\ cur = [r \in Run |-> None]
    /\ sum = [r \in Run |-> None]
    /\ found = [r \in Run |-> {}] /\ said = [r \in Run |-> {}]
    /\ cancelled = [r \in Run |-> FALSE]
    /\ result = [r \in Run |-> None]
    /\ tampered = [r \in Run |-> FALSE]

-----------------------------------------------------------------------------
(* New: the compilers are registered in order, then the passes named.      *)

(* None stands for a format naming no dialect.                             *)
Registrable(c) ==
    /\ Serves[c] # {} /\ None \notin Serves[c]
    /\ \A f \in Serves[c] : byFormat[f] = None

Register ==
    /\ engine = "building" /\ offered # << >>
    /\ Registrable(Head(offered))
    /\ offered' = Tail(offered)
    /\ ordered' = Append(ordered, Head(offered))
    /\ byFormat' = [f \in Format |->
                      IF f \in Serves[Head(offered)] THEN Head(offered) ELSE byFormat[f]]
    /\ UNCHANGED <<engine, passes, heap, pc, opts, specVars, walkVars, detectVars,
                   docVars, cancelled, result, tampered>>

(* None stands for a pass that is nil, unnamed or panics when asked.       *)
Addressable ==
    /\ \A n \in DOMAIN passes : passes[n] # None
    /\ \A m, n \in DOMAIN passes : passes[m] = passes[n] => m = n

Built ==
    /\ engine = "building" /\ offered = << >> /\ ordered # << >> /\ Addressable
    /\ engine' = "built"
    /\ UNCHANGED <<offered, ordered, byFormat, passes, heap, pc, opts, specVars,
                   walkVars, detectVars, docVars, cancelled, result, tampered>>

NewRefused ==
    /\ engine = "building"
    /\ IF offered # << >> THEN ~Registrable(Head(offered))
                          ELSE ordered = << >> \/ ~Addressable
    /\ engine' = "refused"
    /\ UNCHANGED <<offered, ordered, byFormat, passes, heap, pc, opts, specVars,
                   walkVars, detectVars, docVars, cancelled, result, tampered>>

-----------------------------------------------------------------------------
(* How a run ends: with a Go error, or with a result and the verdict on it. *)

Set(f, r, v) == [f EXCEPT ![r] = v]

End(r, res) ==
    /\ pc' = Set(pc, r, "end")
    /\ result' = Set(result, r, res)
    /\ size' = Set(size, r, 0) /\ held' = Set(held, r, 0)
    /\ left' = Set(left, r, {}) /\ at' = Set(at, r, 0)
    /\ taker' = Set(taker, r, None) /\ parse' = Set(parse, r, None)
    /\ declined' = Set(declined, r, {})
    /\ input' = Set(input, r, None) /\ cur' = Set(cur, r, None)
    /\ sum' = Set(sum, r, None) /\ found' = Set(found, r, {})

Fails(r) == End(r, None) /\ said' = Set(said, r, {})

(* A severity's position is its rank; FailOnNone's threshold is past all.  *)
Reaches(d, failOn) ==
    \E m, n \in DOMAIN Severity : Severity[m] = failOn /\ Severity[n] = d.sev /\ n >= m

Verdict(x, ds, failOn) == x = None \/ \E d \in ds : Reaches(d, failOn)

Judge(r, x, ds, table) ==
    IF \E d \in ds : d.sev = "odd"
      THEN End(r, None)
      ELSE End(r, [doc |-> x, diags |-> ds, sources |-> table,
                   failed |-> Verdict(x, ds, opts'[r].failOn)])

-----------------------------------------------------------------------------
(* prepare, and what each entry point refuses before it reads anything.    *)

Refused(o) ==
    \/ o.channels = 2
    \/ ~(o.disabled \subseteq {passes[n] : n \in DOMAIN passes})
    \/ o.failOn \notin FailOn

Starts(r, o) == engine = "built" /\ pc[r] = "idle" /\ opts' = Set(opts, r, o)

(* Refused options, an unreadable spec, no path, no sources.               *)
NotRun(r, o) ==
    /\ Starts(r, o)
    /\ Fails(r)
    /\ UNCHANGED <<engineVars, heap, cancelled, tampered>>

(* The furthest any compiler reads: 0 when one reads any size.             *)
SourceLimit ==
    IF \E n \in DOMAIN ordered : Limit[ordered[n]] = 0 THEN 0
    ELSE CHOOSE m \in {Limit[ordered[n]] : n \in DOMAIN ordered} :
            \A n \in DOMAIN ordered : Limit[ordered[n]] <= m

(* How much of a spec of n bytes is read: one byte past the limit at most. *)
ReadSource(n) == IF SourceLimit > 0 /\ n > SourceLimit THEN SourceLimit + 1 ELSE n

(* Of a file, as much is held as was read, and of a spec in memory, all.   *)
RunSpec(r, o, n, inMemory) ==
    /\ Starts(r, o) /\ ~Refused(o)
    /\ n > 0
    /\ pc' = Set(pc, r, "detect")
    /\ size' = Set(size, r, n)
    /\ held' = Set(held, r, IF inMemory THEN n ELSE ReadSource(n))
    /\ left' = Set(left, r, DOMAIN ordered)
    /\ UNCHANGED <<engineVars, heap, at, detectVars, docVars, cancelled, result,
                   tampered>>

(* The engine's own finding about the source as a whole.                   *)
SpecProblem == [sev |-> "error", src |-> 0, file |-> SpecFile]

(* A spec of no bytes is detected as nothing, no compiler asked.           *)
RunEmpty(r, o) ==
    /\ Starts(r, o) /\ ~Refused(o)
    /\ Judge(r, None, {SpecProblem}, <<SpecFile>>)
    /\ said' = Set(said, r, {SpecProblem})
    /\ UNCHANGED <<engineVars, heap, cancelled, tampered>>

Enabled(o) == {n \in DOMAIN passes : passes[n] \notin o.disabled}

(* Mutant: the violations a stage's document has are not an error.         *)
HoldsAny(o, d) == TRUE

(* hold: a verified run fails on a document that breaks an invariant.      *)
Holds(o, d) == o.verify => d.sound
Fingerprint(o, d) == IF o.verify THEN d ELSE None

Admits(r, o, d) ==
    /\ ~Refused(o) /\ o.channels = 0
    /\ d.stamped /\ ~Outside(d.diags, d.sources)
    /\ ~cancelled[r]
    /\ Holds(o, d)

RunDocument(r, o, x) ==
    /\ Starts(r, o) /\ Admits(r, o, heap[x])
    /\ pc' = Set(pc, r, "passes")
    /\ left' = Set(left, r, Enabled(o))
    /\ input' = Set(input, r, x) /\ cur' = Set(cur, r, x)
    /\ sum' = Set(sum, r, Fingerprint(o, heap[x]))
    /\ said' = Set(said, r, heap[x].diags)
    /\ UNCHANGED <<engineVars, heap, specVars, at, detectVars, found, cancelled,
                   result, tampered>>

-----------------------------------------------------------------------------
(* Detect: each compiler is asked in registration order until one names a  *)
(* format.  ctx is looked at before each call and after it.                *)

First(S) == CHOOSE n \in S : \A m \in S : n <= m

(* Mutant: the compiler asked is asked again.                              *)
AskAgain(r) ==
    /\ pc[r] = "detect" /\ left[r] # {} /\ ~cancelled[r]
    /\ pc' = Set(pc, r, "asking")
    /\ at' = Set(at, r, First(left[r]))
    /\ UNCHANGED <<engineVars, heap, opts, specVars, left, detectVars, docVars,
                   cancelled, result, tampered>>

Ask(r) ==
    /\ pc[r] = "detect" /\ left[r] # {} /\ ~cancelled[r]
    /\ pc' = Set(pc, r, "asking")
    /\ at' = Set(at, r, First(left[r]))
    /\ left' = Set(left, r, left[r] \ {First(left[r])})
    /\ UNCHANGED <<engineVars, heap, opts, specVars, detectVars, docVars,
                   cancelled, result, tampered>>

DetectStopped(r) ==
    /\ pc[r] = "detect" /\ left[r] # {} /\ cancelled[r]
    /\ Fails(r)
    /\ UNCHANGED <<engineVars, heap, opts, cancelled, tampered>>

(* The call panicked, ctx ended meanwhile, or the answer is a breach.      *)
AskBroke(r) ==
    /\ pc[r] = "asking"
    /\ Fails(r)
    /\ UNCHANGED <<engineVars, heap, opts, cancelled, tampered>>

Asked(r) == ordered[at[r]]

(* Mutant: off by one, for the byte read past the limit.                   *)
PastLimitLoose(c, n) == Limit[c] > 0 /\ n > Limit[c] + 1

PastLimit(c, n) == Limit[c] > 0 /\ n > Limit[c]

(* checkDecline, and heldToLimit of a decline.                             *)
DeclineOK(c, n, ds) ==
    /\ ds # {} => HasError(ds)
    /\ ~Outside(ds, <<SpecFile>>)
    /\ PastLimit(c, n) => ds # {}

Declines(r, ds) ==
    /\ pc[r] = "asking" /\ ~cancelled[r]
    /\ Honest(ds, <<SpecFile>>)
    /\ DeclineOK(Asked(r), held[r], ds)
    /\ declined' = Set(declined, r, declined[r] \cup ds)
    /\ pc' = Set(pc, r, "detect")
    /\ UNCHANGED <<engineVars, heap, opts, specVars, walkVars, taker, parse,
                   docVars, cancelled, result, tampered>>

(* A recognizer that is not the owner loses its parse.                     *)
HandedOn(c, owner) == IF owner = c THEN c ELSE None

(* A claim of a format somebody serves, whose options decode.              *)
Claims(r, f) ==
    /\ pc[r] = "asking" /\ ~cancelled[r]
    /\ ~PastLimit(Asked(r), held[r])
    /\ byFormat[f] # None /\ byFormat[f] \notin opts[r].undecoded
    /\ pc' = Set(pc, r, "compiling")
    /\ taker' = Set(taker, r, byFormat[f])
    /\ parse' = Set(parse, r, HandedOn(Asked(r), byFormat[f]))
    /\ UNCHANGED <<engineVars, heap, opts, specVars, walkVars, declined, docVars,
                   cancelled, result, tampered>>

(* A claim of a format nobody serves.                                      *)
Unserved(r, f) ==
    /\ pc[r] = "asking" /\ ~cancelled[r]
    /\ ~PastLimit(Asked(r), held[r])
    /\ byFormat[f] = None
    /\ UNCHANGED opts
    /\ Judge(r, None, {SpecProblem}, <<SpecFile>>)
    /\ said' = Set(said, r, {SpecProblem})
    /\ UNCHANGED <<engineVars, heap, cancelled, tampered>>

(* Everyone declined: their reasons, or the engine's own.                  *)
Undetected(ds) == IF ds # {} THEN ds ELSE {SpecProblem}

Unrecognized(r) ==
    /\ pc[r] = "detect" /\ left[r] = {}
    /\ UNCHANGED opts
    /\ Judge(r, None, Undetected(declined[r]), <<SpecFile>>)
    /\ said' = Set(said, r, Undetected(declined[r]))
    /\ UNCHANGED <<engineVars, heap, cancelled, tampered>>

-----------------------------------------------------------------------------
(* Detection.Compile: the call, ctx, and the compiler's contract.          *)

(* The call failed or panicked, ctx ended meanwhile, or what came back is  *)
(* a breach or, on a verified run, breaks an invariant.                    *)
CompileBroke(r) ==
    /\ pc[r] = "compiling"
    /\ Fails(r)
    /\ UNCHANGED <<engineVars, heap, opts, cancelled, tampered>>

Names(table) == table # << >> /\ table[1] = SpecFile
IsPrefix(s, t) == Len(s) <= Len(t) /\ \A n \in DOMAIN s : s[n] = t[n]

(* Mutant: a refusal need not say why.                                     *)
RefusalAny(table, ds) == Names(table) /\ ~Outside(ds, table)

RefusalOK(table, ds) == Names(table) /\ HasError(ds) /\ ~Outside(ds, table)

Refuses(r, table, ds) ==
    /\ pc[r] = "compiling" /\ ~cancelled[r]
    /\ Honest(ds, table)
    /\ RefusalOK(table, ds)
    /\ UNCHANGED opts
    /\ Judge(r, None, ds, table)
    /\ said' = Set(said, r, ds)
    /\ UNCHANGED <<engineVars, heap, cancelled, tampered>>

LoweredOK(table, d, ds) ==
    /\ Names(table) /\ IsPrefix(table, d.sources)
    /\ d.stamped
    /\ ~Outside(d.diags, d.sources) /\ ~Outside(ds, d.sources)

MergeDiagnostics(stored, produced) == stored \cup produced

Lowers(r, x, table, d, ds) ==
    /\ pc[r] = "compiling" /\ ~cancelled[r]
    /\ heap[x] = None
    /\ Honest(d.diags \cup ds, d.sources)
    /\ LoweredOK(table, d, ds) /\ Holds(opts[r], d)
    /\ heap' = Set(heap, x, d)
    /\ pc' = Set(pc, r, "passes")
    /\ left' = Set(left, r, Enabled(opts[r]))
    /\ cur' = Set(cur, r, x)
    /\ sum' = Set(sum, r, Fingerprint(opts[r], d))
    /\ found' = Set(found, r, MergeDiagnostics(d.diags, ds))
    /\ said' = Set(said, r, d.diags \cup ds)
    /\ UNCHANGED <<engineVars, opts, specVars, at, detectVars, input, cancelled,
                   result, tampered>>

-----------------------------------------------------------------------------
(* runPasses.                                                              *)

PassStarts(r) ==
    /\ pc[r] = "passes" /\ left[r] # {} /\ ~cancelled[r]
    /\ pc' = Set(pc, r, "passing")
    /\ at' = Set(at, r, First(left[r]))
    /\ left' = Set(left, r, left[r] \ {First(left[r])})
    /\ UNCHANGED <<engineVars, heap, opts, specVars, detectVars, docVars,
                   cancelled, result, tampered>>

(* Between two passes, and after the last.                                 *)
PassesStopped(r) ==
    /\ pc[r] = "passes" /\ cancelled[r]
    /\ Fails(r)
    /\ UNCHANGED <<engineVars, heap, opts, cancelled, tampered>>

(* A pass changes the document it was handed, which its contract forbids.  *)
Tampers(r, d) ==
    /\ pc[r] = "passing"
    /\ d # heap[cur[r]] /\ Honest(d.diags, d.sources)
    /\ heap' = Set(heap, cur[r], d)
    /\ tampered' = Set(tampered, r, TRUE)
    /\ UNCHANGED <<engineVars, pc, opts, specVars, walkVars, detectVars, docVars,
                   cancelled, result>>

(* The pass panicked, ctx ended meanwhile, or what came back is a breach.  *)
PassBroke(r) ==
    /\ pc[r] = "passing"
    /\ Fails(r)
    /\ UNCHANGED <<engineVars, heap, opts, cancelled, tampered>>

(* Mutant: a table of the right length will do.                            *)
KeepsLength(prev, next) == Len(next) >= Len(prev)

keepsSources(prev, next) == IsPrefix(prev, next)

checkOutput(prev, next, ds) ==
    /\ next.stamped
    /\ keepsSources(prev.sources, next.sources)
    /\ next.diags # {} => next.diags = prev.diags
    /\ ~Outside(ds, next.sources)

(* On a verified run: is the input as the pass found it?                   *)
InputKept(r) == opts[r].verify => heap[cur[r]] = sum[r]

Analyses(r, ds) ==
    /\ pc[r] = "passing" /\ ~cancelled[r]
    /\ Honest(ds, heap[cur[r]].sources)
    /\ checkOutput(heap[cur[r]], heap[cur[r]], ds) /\ InputKept(r)
    /\ pc' = Set(pc, r, "passes")
    /\ found' = Set(found, r, found[r] \cup ds)
    /\ said' = Set(said, r, said[r] \cup ds)
    /\ UNCHANGED <<engineVars, heap, opts, specVars, walkVars, detectVars, input,
                   cur, sum, cancelled, result, tampered>>

Transforms(r, x, d, ds) ==
    /\ pc[r] = "passing" /\ ~cancelled[r]
    /\ heap[x] = None
    /\ Honest(ds, d.sources)
    /\ checkOutput(heap[cur[r]], d, ds) /\ InputKept(r) /\ Holds(opts[r], d)
    /\ heap' = Set(heap, x, d)
    /\ pc' = Set(pc, r, "passes")
    /\ cur' = Set(cur, r, x)
    /\ sum' = Set(sum, r, Fingerprint(opts[r], d))
    /\ found' = Set(found, r, found[r] \cup ds)
    /\ said' = Set(said, r, said[r] \cup ds)
    /\ UNCHANGED <<engineVars, opts, specVars, walkVars, detectVars, input,
                   cancelled, result, tampered>>

-----------------------------------------------------------------------------
(* The end of a run that has a document: the engine writes the findings    *)
(* onto a copy of it.                                                      *)

withFindings(d, ds) ==
    [stamped |-> d.stamped, sources |-> d.sources, diags |-> ds, sound |-> d.sound]

(* The findings the document came with, read once the passes have run.     *)
Stored(r) == IF input[r] = None THEN {} ELSE heap[input[r]].diags

(* Mutant: the findings are written onto the document itself.              *)
ReturnsInPlace(r, x) ==
    /\ pc[r] = "passes" /\ left[r] = {} /\ ~cancelled[r]
    /\ heap[x] = None
    /\ UNCHANGED opts
    /\ LET all == MergeDiagnostics(Stored(r), found[r])
           doc == heap[cur[r]]
       IN  /\ heap' = Set(heap, cur[r], withFindings(doc, all))
           /\ Judge(r, cur[r], all, doc.sources)
    /\ UNCHANGED <<engineVars, said, cancelled, tampered>>

(* Mutant: ctx is not asked after the last pass.                           *)
ReturnsUnasked(r, x) ==
    /\ pc[r] = "passes" /\ left[r] = {}
    /\ heap[x] = None
    /\ UNCHANGED opts
    /\ LET all == MergeDiagnostics(Stored(r), found[r])
           doc == heap[cur[r]]
       IN  /\ heap' = Set(heap, x, withFindings(doc, all))
           /\ Judge(r, x, all, doc.sources)
    /\ UNCHANGED <<engineVars, said, cancelled, tampered>>

Returns(r, x) ==
    /\ pc[r] = "passes" /\ left[r] = {} /\ ~cancelled[r]
    /\ heap[x] = None
    /\ UNCHANGED opts
    /\ LET all == MergeDiagnostics(Stored(r), found[r])
           doc == heap[cur[r]]
       IN  /\ heap' = Set(heap, x, withFindings(doc, all))
           /\ Judge(r, x, all, doc.sources)
    /\ UNCHANGED <<engineVars, said, cancelled, tampered>>

Cancel(r) ==
    /\ pc[r] # "end" /\ ~cancelled[r]
    /\ cancelled' = Set(cancelled, r, TRUE)
    /\ UNCHANGED <<engineVars, heap, pc, opts, specVars, walkVars, detectVars,
                   docVars, result, tampered>>

-----------------------------------------------------------------------------
(* An allocation; which free address it gives tells nothing apart.         *)
Fresh ==
    LET free == {x \in Ref : heap[x] = None}
    IN  IF free = {} THEN {} ELSE {CHOOSE x \in free : TRUE}

New == Register \/ Built \/ NewRefused

Begins(r) ==
    \E o \in Options :
        \/ NotRun(r, o) \/ RunEmpty(r, o)
        \/ \E n \in Sizes, b \in BOOLEAN : RunSpec(r, o, n, b)
        \/ \E x \in Given : RunDocument(r, o, x)

Detects(r) ==
    \/ Ask(r) \/ DetectStopped(r) \/ AskBroke(r) \/ Unrecognized(r)
    \/ \E ds \in Reports : Declines(r, ds)
    \/ \E f \in Format : Claims(r, f) \/ Unserved(r, f)

Compiles(r) ==
    \/ CompileBroke(r)
    \/ \E t \in Tables, ds \in Reports :
         \/ Refuses(r, t, ds)
         \/ \E x \in Fresh, d \in Document : Lowers(r, x, t, d, ds)

Passes(r) ==
    \/ PassStarts(r) \/ PassesStopped(r) \/ PassBroke(r)
    \/ \E ds \in Reports :
         \/ Analyses(r, ds)
         \/ \E x \in Fresh, d \in Document : Transforms(r, x, d, ds)
    \/ \E x \in Fresh : Returns(r, x)

Continues(r) == Detects(r) \/ Compiles(r) \/ Passes(r)

Next ==
    \/ New
    \/ \E r \in Run :
         \/ Begins(r) \/ Continues(r) \/ Cancel(r)
         \/ \E d \in Document : Tampers(r, d)

Spec == Init /\ [][Next]_vars

(* A run is one goroutine that waits for nothing but the stage it called,  *)
(* and a stage returns.                                                    *)
FairSpec == Spec /\ \A r \in Run : WF_vars(Continues(r))

-----------------------------------------------------------------------------
(* Properties.                                                             *)

(* What no check can make up for: another run's pass changing a document   *)
(* this one has got to, or one of this run's changing its input unverified. *)
Trusted(r) ==
    /\ \A q \in Run \ {r} : ~tampered[q]
    /\ tampered[r] => opts[r].verify

HasDoc(r) == result[r] # None /\ result[r].doc # None

(* Every finding of a Result points, in the Result's own table, at the     *)
(* file its reporter meant, on every path: detection, refusal, a compile   *)
(* and any passes after it, a document handed in.                          *)
FindingsPlaced ==
    \A r \in Run : result[r] # None /\ Trusted(r) =>
        \A d \in result[r].diags : Placed(d, result[r].sources)

(* A Result holds every finding accepted from a stage, on both of its      *)
(* channels and for good, and none beside.                                 *)
NothingLost ==
    \A r \in Run : result[r] # None /\ Trusted(r) =>
        /\ result[r].diags = said[r]
        /\ HasDoc(r) => /\ heap[result[r].doc].diags = said[r]
                        /\ heap[result[r].doc].sources = result[r].sources

(* A document a verified run returns keeps the IR's invariants, though a   *)
(* stage may break any of them or change its input.                        *)
VerifiedSound ==
    \A r \in Run : HasDoc(r) /\ Trusted(r) /\ opts[r].verify =>
        heap[result[r].doc].sound

(* A Result with no document says why with an error, so a refused spec     *)
(* never fails without a reason.                                           *)
RefusalStated ==
    \A r \in Run : result[r] # None /\ ~HasDoc(r) =>
        result[r].failed /\ HasError(result[r].diags)

(* A run cancelled anywhere returns no document.                           *)
StopReturnsNone == \A r \in Run : HasDoc(r) => ~cancelled[r]

(* A compile is of the whole spec, though a file is read no further than   *)
(* some compiler would, and is handed no other compiler's parse.           *)
CompilesWhole ==
    \A r \in Run : pc[r] = "compiling" =>
        held[r] = size[r] /\ parse[r] \in {None, taker[r]}

(* Every run ends.                                                         *)
RunsEnd == \A r \in Run : pc[r] # "idle" ~> pc[r] = "end"
=============================================================================
