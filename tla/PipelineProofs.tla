--------------------------- MODULE PipelineProofs ---------------------------
(***************************************************************************)
(* Proofs about Pipeline: for any number of overlapping runs, any          *)
(* compilers and passes and anything they return, what a Result says.      *)
(***************************************************************************)
EXTENDS Pipeline, WellFoundedInduction, TLAPS

Running(r) == pc[r] \in {"passes", "passing"}

(* The document the run vouches for: on a verified run the one it has      *)
(* fingerprinted, though the pass running may have changed it since.       *)
Base(r) == IF opts[r].verify THEN sum[r] ELSE heap[cur[r]]

(* The findings a document handed in came with.                            *)
Came(r) ==
    IF input[r] = None THEN {}
    ELSE IF input[r] = cur[r] THEN Base(r).diags ELSE heap[input[r]].diags

(* The callers' documents stay, and their findings mean what they say.     *)
GivenStay ==
    \A x \in Given : heap[x] # None /\ Honest(heap[x].diags, heap[x].sources)

(* A run holds documents only between its compile and its end, and a       *)
(* result only at its end.                                                 *)
Held(r) ==
    /\ ~Running(r) => cur[r] = None /\ input[r] = None /\ found[r] = {}
    /\ input[r] # None => input[r] \in Given
    /\ Running(r) /\ opts[r].verify => sum[r] # None
    /\ pc[r] # "end" => result[r] = None

(* What a run has gathered is what the stages said, each finding placed in *)
(* the table of the document it vouches for.                               *)
Carried(r) ==
    Running(r) /\ Trusted(r) =>
        /\ Came(r) \cup found[r] = said[r]
        /\ \A d \in said[r] : Placed(d, Base(r).sources)
        /\ opts[r].verify => sum[r].sound
        /\ opts[r].verify /\ pc[r] = "passes" => heap[cur[r]] = sum[r]

(* Nobody works on a document a run has returned.                          *)
Apart(r) ==
    HasDoc(r) =>
        /\ heap[result[r].doc] # None /\ result[r].doc \notin Given
        /\ \A q \in Run : cur[q] # result[r].doc

Declining(r) ==
    /\ declined[r] # {} => HasError(declined[r])
    /\ \A d \in declined[r] : Placed(d, <<SpecFile>>)

(* What the properties say of one run.                                     *)
Answer(r) ==
    /\ result[r] # None /\ Trusted(r) =>
         /\ \A d \in result[r].diags : Placed(d, result[r].sources)
         /\ result[r].diags = said[r]
    /\ HasDoc(r) /\ Trusted(r) =>
         /\ heap[result[r].doc].diags = said[r]
         /\ heap[result[r].doc].sources = result[r].sources
         /\ opts[r].verify => heap[result[r].doc].sound
    /\ result[r] # None /\ ~HasDoc(r) => result[r].failed /\ HasError(result[r].diags)
    /\ HasDoc(r) => ~cancelled[r]

RunOK(r) == Held(r) /\ Carried(r) /\ Apart(r) /\ Declining(r) /\ Answer(r)
IInv == TypeOK /\ GivenStay /\ \A r \in Run : RunOK(r)

(* What detection holds is the whole spec, or more than any compiler takes; *)
(* the registry no longer changes once a run has begun.                    *)
Reading(r) ==
    /\ pc[r] # "idle" => engine = "built"
    /\ pc[r] \in {"detect", "asking"} =>
         /\ left[r] \subseteq DOMAIN ordered
         /\ held[r] = size[r] \/ \A n \in DOMAIN ordered : PastLimit(ordered[n], held[r])
    /\ pc[r] = "asking" => at[r] \in DOMAIN ordered
    /\ pc[r] = "compiling" => held[r] = size[r] /\ parse[r] \in {None, taker[r]}

Inv == IInv /\ (engine = "built" => ordered # << >>) /\ \A r \in Run : Reading(r)

-----------------------------------------------------------------------------
(* The least of some positions, and the greatest of some limits.           *)

LEMMA LeastNat ==
  ASSUME NEW T \in SUBSET Nat, T # {}
  PROVE  \E n \in T : \A m \in T : n <= m
  <1> DEFINE R == OpToRel(<, Nat)
  <1>1. IsWellFoundedOn(R, Nat)
    BY NatLessThanWellFounded
  <1>2. \A x, y \in Nat : <<y, x>> \in R <=> y < x
    BY DEF OpToRel
  <1> HIDE DEF R
  <1>3. PICK x \in T : \A y \in T : ~(<<y, x>> \in R)
    BY <1>1, WFMin
  <1>4. ASSUME NEW y \in T PROVE x <= y
    <2>1. x \in Nat /\ y \in Nat
      OBVIOUS
    <2>2. ~(y < x)
      BY <1>2, <1>3, <2>1, Zenon
    <2> QED
      BY <2>1, <2>2
  <1> QED
    BY <1>4

LEMMA FirstIn ==
  ASSUME NEW T \in SUBSET Nat, T # {}
  PROVE  First(T) \in T
  BY LeastNat DEF First

(* A sequence of naturals has a greatest element: were there one without,  *)
(* so would its shortest prefix without, and that has one.                 *)
LEMMA GreatestNat ==
  ASSUME NEW L \in Nat, L > 0, NEW f, \A n \in 1..L : f[n] \in Nat
  PROVE  \E m \in 1..L : \A n \in 1..L : f[n] <= f[m]
  <1> DEFINE Has(k) == \E m \in 1..k : \A n \in 1..k : f[n] <= f[m]
             Bad == {k \in 1..L : ~Has(k)}
  <1>1. SUFFICES ASSUME ~Has(L) PROVE FALSE
    OBVIOUS
  <1>2. PICK k \in Bad : \A j \in Bad : k <= j
    <2>1. L \in Bad
      BY <1>1
    <2>2. Bad \in SUBSET Nat
      OBVIOUS
    <2> HIDE DEF Bad
    <2> QED
      BY <2>1, <2>2, LeastNat
  <1>3. k # 1
    BY <1>2
  <1>4. k - 1 \in 1..L /\ Has(k - 1)
    <2>1. k \in 1..L /\ k - 1 \in 1..L /\ ~(k <= k - 1)
      BY <1>2, <1>3
    <2>2. k - 1 \notin Bad
      BY <1>2, <2>1
    <2> QED
      BY <2>1, <2>2
  <1>5. PICK m \in 1..(k - 1) : \A n \in 1..(k - 1) : f[n] <= f[m]
    BY <1>4
  <1>6. CASE f[k] <= f[m]
    <2>1. m \in 1..k /\ \A n \in 1..k : f[n] <= f[m]
      BY <1>2, <1>5, <1>6
    <2> QED
      BY <1>2, <2>1
  <1>7. CASE ~(f[k] <= f[m])
    <2>1. k \in 1..k /\ \A n \in 1..k : f[n] <= f[k]
      BY <1>2, <1>5, <1>7
    <2> QED
      BY <1>2, <2>1
  <1> QED
    BY <1>6, <1>7

(* The engine reads as far as any of its compilers does.                   *)
LEMMA SourceLimitBounds ==
  ASSUME TypeOK, ordered # << >>
  PROVE  /\ SourceLimit \in Nat
         /\ SourceLimit > 0 =>
              \A n \in DOMAIN ordered : Limit[ordered[n]] > 0 /\ Limit[ordered[n]] <= SourceLimit
  <1> DEFINE L == Len(ordered)
             S == {Limit[ordered[n]] : n \in DOMAIN ordered}
  <1>1. L \in Nat /\ L > 0 /\ DOMAIN ordered = 1..L
    BY DEF TypeOK
  <1>2. \A n \in 1..L : Limit[ordered[n]] \in Nat
    BY <1>1, SizeAssumption DEF TypeOK
  <1> HIDE DEF L
  <1>3. \E m \in 1..L : \A n \in 1..L : Limit[ordered[n]] <= Limit[ordered[m]]
    <2> DEFINE f == [n \in 1..L |-> Limit[ordered[n]]]
    <2>1. \A n \in 1..L : f[n] = Limit[ordered[n]]
      OBVIOUS
    <2> HIDE DEF f
    <2>2. \A n \in 1..L : f[n] \in Nat
      BY <1>2, <2>1
    <2>3. \E m \in 1..L : \A n \in 1..L : f[n] <= f[m]
      BY <1>1, <2>2, GreatestNat
    <2>4. PICK m \in 1..L : \A n \in 1..L : f[n] <= f[m]
      BY <2>3
    <2> QED
      BY <2>1, <2>4
  <1>4. \E m \in S : \A n \in DOMAIN ordered : Limit[ordered[n]] <= m
    BY <1>1, <1>3
  <1>5. CASE \E n \in DOMAIN ordered : Limit[ordered[n]] = 0
    BY <1>5 DEF SourceLimit
  <1>6. CASE ~\E n \in DOMAIN ordered : Limit[ordered[n]] = 0
    <2>1. /\ SourceLimit \in S
          /\ \A n \in DOMAIN ordered : Limit[ordered[n]] <= SourceLimit
      BY <1>4, <1>6 DEF SourceLimit
    <2> QED
      BY <1>1, <1>2, <1>6, <2>1
  <1> QED
    BY <1>5, <1>6

-----------------------------------------------------------------------------
(* Tables and findings.                                                    *)

(* A finding keeps its place in a table that is only added to.             *)
LEMMA PlacedPrefix ==
  ASSUME NEW d \in Finding, NEW t \in Tables, NEW u \in Tables,
         Placed(d, t), IsPrefix(t, u)
  PROVE  Placed(d, u)
  <1>1. t \in Seq(File) /\ u \in Seq(File) /\ d.src \in Int
    BY FindingAssumption DEF Finding
  <1> QED
    BY <1>1 DEF Placed, IsPrefix

(* An honest stage's findings, once the engine has looked at their range.  *)
LEMMA HonestPlaced ==
  ASSUME NEW ds, NEW t, Honest(ds, t), ~Outside(ds, t)
  PROVE  \A d \in ds : Placed(d, t)
  BY DEF Honest, Outside

LEMMA Kinds ==
  /\ Document \subseteq Written
  /\ \A d \in Written : d.sources \in Tables /\ d.diags \in SUBSET Finding
  /\ SpecProblem \in Finding /\ HasError({SpecProblem}) /\ Placed(SpecProblem, <<SpecFile>>)
  <1>1. Document \subseteq Written
    BY FindingAssumption DEF Document, Written
  <1>2. \A d \in Written : d.sources \in Tables /\ d.diags \in SUBSET Finding
    BY DEF Written
  <1>3. SpecProblem \in Finding /\ HasError({SpecProblem})
    BY FindingAssumption DEF SpecProblem, Finding, HasError
  <1>4. Placed(SpecProblem, <<SpecFile>>)
    BY DEF Placed, SpecProblem
  <1> QED
    BY <1>1, <1>2, <1>3, <1>4

-----------------------------------------------------------------------------
(* Steps that leave every other run and every document alone.              *)

Grows == \A x \in Ref : heap[x] # None => heap'[x] = heap[x]

Same(q) ==
    /\ pc'[q] = pc[q] /\ opts'[q] = opts[q] /\ declined'[q] = declined[q]
    /\ input'[q] = input[q] /\ cur'[q] = cur[q] /\ sum'[q] = sum[q]
    /\ found'[q] = found[q] /\ said'[q] = said[q] /\ result'[q] = result[q]
    /\ cancelled'[q] = cancelled[q]

LEMMA Frame ==
  ASSUME IInv, TypeOK', NEW r \in Run, Grows, tampered' = tampered,
         \A q \in Run \ {r} : Same(q),
         \/ cur'[r] \in Given \cup {None, cur[r]}
         \/ heap[cur'[r]] = None,
         Held(r)', Carried(r)', Apart(r)', Declining(r)', Answer(r)'
  PROVE  IInv'
  <1> USE DEF IInv
  <1>1. GivenStay'
    BY RefAssumption DEF GivenStay, Grows
  <1>2. ASSUME NEW q \in Run, q # r PROVE RunOK(q)'
    <2> USE <1>2
    <2>1. RunOK(q) /\ Same(q)
      OBVIOUS
    <2>2. Trusted(q)' = Trusted(q) /\ HasDoc(q)' = HasDoc(q) /\ Running(q)' = Running(q)
      BY <2>1 DEF Same, Trusted, HasDoc, Running
    <2>3. HasDoc(q) => /\ result[q].doc \in Ref
                       /\ heap'[result[q].doc] = heap[result[q].doc]
      <3>1. HasDoc(q) => result[q].doc \in Ref
        BY DEF HasDoc, TypeOK, Result
      <3>2. HasDoc(q) => heap[result[q].doc] # None
        BY <2>1 DEF RunOK, Apart
      <3> QED BY <3>1, <3>2 DEF Grows
    <2>4. Running(q) => cur[q] \in Ref /\ heap'[cur[q]] = heap[cur[q]]
      <3>1. Running(q) => cur[q] \in Ref /\ heap[cur[q]] # None
        BY DEF Running, TypeOK
      <3> QED BY <3>1 DEF Grows
    <2>5. input[q] # None => input[q] \in Ref /\ heap'[input[q]] = heap[input[q]]
      BY <2>1, RefAssumption DEF RunOK, Held, GivenStay, Grows
    <2>6. Held(q)'
      BY <2>1, <2>2 DEF RunOK, Same, Held
    <2>7. Carried(q)'
      <3>1. Running(q) => Base(q)' = Base(q) /\ Came(q)' = Came(q)
        BY <2>1, <2>4, <2>5 DEF Same, Base, Came
      <3> QED
        BY <2>1, <2>2, <2>4, <3>1 DEF RunOK, Same, Carried
    <2>8. Apart(q)'
      <3>1. SUFFICES ASSUME HasDoc(q)
            PROVE  \A p \in Run : cur'[p] # result[q].doc
        BY <2>1, <2>2, <2>3 DEF RunOK, Same, Apart
      <3>2. cur'[r] # result[q].doc
        BY <2>1, <2>3, <3>1, RefAssumption DEF RunOK, Apart
      <3> QED
        BY <2>1, <3>1, <3>2 DEF RunOK, Apart, Same
    <2>9. Declining(q)'
      BY <2>1 DEF RunOK, Same, Declining
    <2>10. Answer(q)'
      BY <2>1, <2>2, <2>3 DEF RunOK, Same, Answer
    <2> QED
      BY <2>6, <2>7, <2>8, <2>9, <2>10 DEF RunOK
  <1>3. RunOK(r)'
    BY DEF RunOK
  <1> QED
    BY <1>1, <1>2, <1>3

-----------------------------------------------------------------------------
(* How a run ends.                                                         *)

LEMMA Ends ==
  ASSUME IInv, NEW r \in Run, NEW res \in Result \cup {None}, End(r, res),
         UNCHANGED <<engineVars, cancelled, tampered>>,
         opts' \in [Run -> Option \cup {None}], opts'[r] \in Option,
         \A q \in Run \ {r} : opts'[q] = opts[q],
         NEW s \in SUBSET Finding, said' = Set(said, r, s),
         heap' \in [Ref -> Written \cup {None}], Grows,
         Apart(r)', Answer(r)'
  PROVE  IInv'
  <1> USE DEF End, Set
  <1>1. TypeOK'
    <2>1. /\ pc' \in [Run -> PC] /\ result' \in [Run -> Result \cup {None}]
          /\ said' \in [Run -> SUBSET Finding]
      BY DEF IInv, TypeOK, PC
    <2>2. /\ size' \in [Run -> Nat] /\ held' \in [Run -> Nat]
          /\ left' \in [Run -> SUBSET Nat] /\ at' \in [Run -> Nat]
          /\ taker' \in [Run -> Compiler \cup {None}]
          /\ parse' \in [Run -> Compiler \cup {None}]
          /\ declined' \in [Run -> SUBSET Finding]
      BY DEF IInv, TypeOK
    <2>3. /\ input' \in [Run -> Ref \cup {None}] /\ cur' \in [Run -> Ref \cup {None}]
          /\ sum' \in [Run -> Written \cup {None}]
          /\ found' \in [Run -> SUBSET Finding]
      BY DEF IInv, TypeOK
    <2>4. ASSUME NEW q \in Run
          PROVE  /\ pc'[q] # "idle" => opts'[q] # None
                 /\ pc'[q] = "compiling" => taker'[q] # None
                 /\ pc'[q] \in {"passes", "passing"} => cur'[q] # None /\ heap'[cur'[q]] # None
      <3>1. CASE q = r
        BY <3>1, NoneAssumption DEF IInv, TypeOK
      <3>2. CASE q # r
        BY <3>2 DEF IInv, TypeOK, Grows
      <3> QED
        BY <3>1, <3>2
    <2> QED
      BY <2>1, <2>2, <2>3, <2>4 DEF IInv, TypeOK, engineVars
  <1>2. \A q \in Run \ {r} : Same(q)
    BY DEF IInv, TypeOK, Same
  <1>3. /\ pc'[r] = "end" /\ cur'[r] = None /\ input'[r] = None
        /\ found'[r] = {} /\ declined'[r] = {}
    BY DEF IInv, TypeOK
  <1>4. Held(r)' /\ Carried(r)' /\ Declining(r)'
    BY <1>3 DEF Held, Carried, Declining, Running
  <1> QED
    BY <1>1, <1>2, <1>3, <1>4, Frame

(* With a Go error.                                                        *)
LEMMA EndsInError ==
  ASSUME IInv, NEW r \in Run, Fails(r),
         UNCHANGED <<engineVars, heap, cancelled, tampered>>,
         opts' \in [Run -> Option \cup {None}], opts'[r] \in Option,
         \A q \in Run \ {r} : opts'[q] = opts[q]
  PROVE  IInv'
  <1>1. result'[r] = None
    BY DEF IInv, TypeOK, Fails, End, Set
  <1>2. Apart(r)' /\ Answer(r)'
    BY <1>1 DEF Apart, Answer, HasDoc
  <1>3. heap' \in [Ref -> Written \cup {None}] /\ Grows
    BY DEF IInv, TypeOK, Grows
  <1> QED
    BY <1>2, <1>3, Ends DEF Fails

(* With no document, and the reason why.                                   *)
LEMMA EndsRefused ==
  ASSUME IInv, NEW r \in Run, NEW ds \in SUBSET Finding, NEW t \in Tables,
         HasError(ds), \A d \in ds : Placed(d, t),
         Judge(r, None, ds, t), said' = Set(said, r, ds),
         UNCHANGED <<engineVars, heap, cancelled, tampered>>,
         opts' \in [Run -> Option \cup {None}], opts'[r] \in Option,
         \A q \in Run \ {r} : opts'[q] = opts[q]
  PROVE  IInv'
  <1>1. heap' \in [Ref -> Written \cup {None}] /\ Grows
    BY DEF IInv, TypeOK, Grows
  <1>2. said'[r] = ds
    BY DEF IInv, TypeOK, Set
  <1>3. CASE End(r, None)
    <2>1. result'[r] = None
      BY <1>3 DEF IInv, TypeOK, End, Set
    <2>2. Apart(r)' /\ Answer(r)'
      BY <2>1 DEF Apart, Answer, HasDoc
    <2> QED
      BY <1>1, <1>3, <2>2, Ends
  <1>4. CASE ~End(r, None)
    <2> DEFINE res == [doc |-> None, diags |-> ds, sources |-> t, failed |-> TRUE]
    <2>1. End(r, res)
      BY <1>4 DEF Judge, Verdict
    <2>2. res \in Result
      BY DEF Result
    <2>3. res.doc = None /\ res.diags = ds /\ res.sources = t /\ res.failed
      OBVIOUS
    <2> HIDE DEF res
    <2>4. result'[r] = res
      BY <2>1 DEF IInv, TypeOK, End, Set
    <2>5. Apart(r)' /\ Answer(r)'
      BY <1>2, <2>3, <2>4 DEF Apart, Answer, HasDoc
    <2> QED
      BY <1>1, <2>1, <2>2, <2>5, Ends
  <1> QED
    BY <1>3, <1>4

-----------------------------------------------------------------------------
(* Steps that end a run, or that never start one.                          *)

LEMMA OptsStay ==
  ASSUME TypeOK, NEW r \in Run, pc[r] # "idle", UNCHANGED opts
  PROVE  /\ opts' \in [Run -> Option \cup {None}] /\ opts'[r] \in Option
         /\ \A q \in Run \ {r} : opts'[q] = opts[q]
  BY DEF TypeOK

LEMMA OptsSet ==
  ASSUME TypeOK, NEW r \in Run, NEW o \in Options, Starts(r, o)
  PROVE  /\ opts' \in [Run -> Option \cup {None}] /\ opts'[r] \in Option /\ opts'[r] = o
         /\ \A q \in Run \ {r} : opts'[q] = opts[q]
  BY OptionsAssumption DEF TypeOK, Starts, Set

LEMMA NotRunStep ==
  ASSUME IInv, NEW r \in Run, NEW o \in Options, NotRun(r, o)
  PROVE  IInv'
  <1>1. TypeOK
    BY DEF IInv
  <1> QED
    BY <1>1, OptsSet, EndsInError DEF NotRun

LEMMA FailedStep ==
  ASSUME IInv, NEW r \in Run,
         \/ DetectStopped(r) \/ AskBroke(r) \/ CompileBroke(r)
         \/ PassesStopped(r) \/ PassBroke(r)
  PROVE  IInv'
  <1>1. TypeOK /\ pc[r] # "idle" /\ UNCHANGED opts /\ Fails(r)
        /\ UNCHANGED <<engineVars, heap, cancelled, tampered>>
    BY DEF IInv, DetectStopped, AskBroke, CompileBroke, PassesStopped, PassBroke
  <1> QED
    BY <1>1, OptsStay, EndsInError

LEMMA RunEmptyStep ==
  ASSUME IInv, NEW r \in Run, NEW o \in Options, RunEmpty(r, o)
  PROVE  IInv'
  <1>1. TypeOK
    BY DEF IInv
  <1>2. {SpecProblem} \in SUBSET Finding /\ <<SpecFile>> \in Tables
    BY Kinds, FindingAssumption
  <1> QED
    BY <1>1, <1>2, Kinds, OptsSet, EndsRefused DEF RunEmpty

LEMMA UnservedStep ==
  ASSUME IInv, NEW r \in Run, NEW f \in Format, Unserved(r, f)
  PROVE  IInv'
  <1>1. TypeOK /\ pc[r] # "idle"
    BY DEF IInv, Unserved
  <1>2. {SpecProblem} \in SUBSET Finding /\ <<SpecFile>> \in Tables
    BY Kinds, FindingAssumption
  <1> QED
    BY <1>1, <1>2, Kinds, OptsStay, EndsRefused DEF Unserved

LEMMA UnrecognizedStep ==
  ASSUME IInv, NEW r \in Run, Unrecognized(r)
  PROVE  IInv'
  <1>1. TypeOK /\ pc[r] # "idle" /\ declined[r] \in SUBSET Finding /\ Declining(r)
    BY DEF IInv, Unrecognized, TypeOK, RunOK
  <1> DEFINE ds == Undetected(declined[r])
  <1>2. /\ ds \in SUBSET Finding /\ <<SpecFile>> \in Tables
        /\ HasError(ds) /\ \A d \in ds : Placed(d, <<SpecFile>>)
    BY <1>1, Kinds, FindingAssumption DEF Undetected, Declining
  <1> HIDE DEF ds
  <1>3. Judge(r, None, ds, <<SpecFile>>) /\ said' = Set(said, r, ds)
        /\ UNCHANGED <<engineVars, heap, cancelled, tampered, opts>>
    BY DEF Unrecognized, ds
  <1> QED
    BY <1>1, <1>2, <1>3, OptsStay, EndsRefused

LEMMA RefusesStep ==
  ASSUME IInv, NEW r \in Run, NEW t \in Tables, NEW ds \in Reports, Refuses(r, t, ds)
  PROVE  IInv'
  <1>1. TypeOK /\ pc[r] # "idle" /\ ds \in SUBSET Finding
    BY FindingAssumption DEF IInv, Refuses
  <1>2. HasError(ds) /\ \A d \in ds : Placed(d, t)
    BY HonestPlaced DEF Refuses, RefusalOK
  <1> QED
    BY <1>1, <1>2, OptsStay, EndsRefused DEF Refuses

-----------------------------------------------------------------------------
(* Steps that leave every document, and what the runs made of it, alone.   *)

LEMMA NewStep ==
  ASSUME IInv, New
  PROVE  IInv'
  <1> USE DEF New, Register, Built, NewRefused
  <1>1. UNCHANGED <<heap, pc, opts, specVars, walkVars, detectVars, docVars, cancelled,
                    result, tampered, passes>>
    BY DEF engineVars
  <1>2. TypeOK'
    <2>1. engine' \in {"building", "built", "refused"}
      BY DEF IInv, TypeOK
    <2>2. /\ offered' \in Seq(Compiler) /\ ordered' \in Seq(Compiler)
          /\ byFormat' \in [Format -> Compiler \cup {None}]
      <3>1. CASE Register
        <4>1. /\ Head(offered) \in Compiler /\ Tail(offered) \in Seq(Compiler)
              /\ Append(ordered, Head(offered)) \in Seq(Compiler)
          BY <3>1 DEF IInv, TypeOK
        <4> QED
          BY <3>1, <4>1 DEF IInv, TypeOK
      <3>2. CASE ~Register
        BY <3>2 DEF IInv, TypeOK
      <3> QED
        BY <3>1, <3>2
    <2> QED
      BY <1>1, <2>1, <2>2 DEF IInv, TypeOK, specVars, walkVars, detectVars, docVars
  <1>3. GivenStay' /\ \A r \in Run : RunOK(r)'
    <2>1. GivenStay'
      BY <1>1 DEF IInv, GivenStay
    <2>2. \A r \in Run : Held(r)' /\ Apart(r)' /\ Declining(r)'
      BY <1>1 DEF IInv, RunOK, Held, Apart, Declining, Running, Base, Came, Trusted, HasDoc,
                  detectVars, docVars
    <2>3. \A r \in Run : Carried(r)' /\ Answer(r)'
      BY <1>1 DEF IInv, RunOK, Carried, Answer, Running, Base, Came, Trusted, HasDoc,
                  detectVars, docVars
    <2> QED
      BY <2>1, <2>2, <2>3 DEF RunOK
  <1> QED
    BY <1>2, <1>3 DEF IInv

(* A run moves on with what it has.                                        *)
LEMMA Moves ==
  ASSUME IInv, TypeOK', NEW r \in Run,
         UNCHANGED <<heap, docVars, result, tampered>>,
         \A q \in Run \ {r} : /\ pc'[q] = pc[q] /\ opts'[q] = opts[q]
                              /\ declined'[q] = declined[q] /\ cancelled'[q] = cancelled[q],
         pc[r] # "idle" => opts'[r] = opts[r],
         Running(r)' = Running(r), pc'[r] = "passes" => pc[r] = "passes",
         pc[r] # "end", pc'[r] # "end", Declining(r)'
  PROVE  IInv'
  <1>1. Held(r) /\ Carried(r)
    BY DEF IInv, RunOK
  <1>2. Grows /\ \A q \in Run \ {r} : Same(q)
    BY DEF Grows, Same, docVars
  <1>3. result'[r] = None
    BY <1>1 DEF Held
  <1>4. Apart(r)' /\ Answer(r)'
    BY <1>3 DEF Apart, Answer, HasDoc
  <1>5. cur'[r] = cur[r]
    BY DEF docVars
  <1>6. Running(r) => opts'[r] = opts[r]
    BY DEF Running
  <1>7. Held(r)'
    BY <1>1, <1>3, <1>6 DEF Held, docVars
  <1>8. Carried(r)'
    <2>1. SUFFICES ASSUME Running(r), Trusted(r)' PROVE Carried(r)'
      BY DEF Carried
    <2>2. Trusted(r)
      BY <1>6, <2>1 DEF Trusted
    <2>3. Base(r)' = Base(r) /\ Came(r)' = Came(r)
      BY <1>6, <2>1 DEF Base, Came, docVars
    <2> QED
      BY <1>1, <1>6, <2>1, <2>2, <2>3 DEF Carried, docVars
  <1> QED
    BY <1>2, <1>4, <1>5, <1>7, <1>8, Frame

LEMMA ReadSourceNat ==
  ASSUME TypeOK, NEW n \in Nat, SourceLimit \in Nat
  PROVE  ReadSource(n) \in Nat
  BY DEF ReadSource

LEMMA CancelStep ==
  ASSUME IInv, NEW r \in Run, Cancel(r)
  PROVE  IInv'
  <1>1. TypeOK'
    BY DEF IInv, Cancel, TypeOK, Set, engineVars, specVars, walkVars, detectVars, docVars
  <1>2. Declining(r)' /\ Running(r)' = Running(r)
    BY DEF IInv, Cancel, RunOK, Declining, Running, detectVars
  <1> QED
    BY <1>1, <1>2, Moves DEF IInv, TypeOK, Cancel, Set, detectVars

(* The first of some positions is one of them.                             *)
LEMMA AskStep ==
  ASSUME IInv, NEW r \in Run, Ask(r), First(left[r]) \in Nat
  PROVE  IInv'
  <1>1. TypeOK'
    BY DEF IInv, Ask, TypeOK, PC, Set, engineVars, specVars, detectVars, docVars
  <1>2. Declining(r)' /\ Running(r)' = Running(r) /\ pc'[r] = "asking"
    <2>1. pc'[r] = "asking" /\ Running(r)' = Running(r)
      BY DEF IInv, TypeOK, Ask, Running, Set
    <2>2. Declining(r)'
      BY DEF IInv, Ask, RunOK, Declining, detectVars
    <2> QED
      BY <2>1, <2>2
  <1> QED
    BY <1>1, <1>2, Moves DEF IInv, TypeOK, Ask, Set, detectVars

LEMMA PassStartsStep ==
  ASSUME IInv, NEW r \in Run, PassStarts(r), First(left[r]) \in Nat
  PROVE  IInv'
  <1>1. TypeOK'
    BY DEF IInv, PassStarts, TypeOK, PC, Set, engineVars, specVars, detectVars, docVars
  <1>2. Declining(r)' /\ Running(r)' = Running(r) /\ pc'[r] = "passing"
    <2>1. pc'[r] = "passing" /\ Running(r)' = Running(r)
      BY DEF IInv, TypeOK, PassStarts, Running, Set
    <2>2. Declining(r)'
      BY DEF IInv, PassStarts, RunOK, Declining, detectVars
    <2> QED
      BY <2>1, <2>2
  <1> QED
    BY <1>1, <1>2, Moves DEF IInv, TypeOK, PassStarts, Set, detectVars

LEMMA ClaimsStep ==
  ASSUME IInv, NEW r \in Run, NEW f \in Format, Claims(r, f), Asked(r) \in Compiler
  PROVE  IInv'
  <1>1. byFormat[f] \in Compiler
    BY DEF IInv, TypeOK, Claims
  <1>2. HandedOn(Asked(r), byFormat[f]) \in Compiler \cup {None}
    BY <1>1 DEF HandedOn
  <1>3. TypeOK'
    BY <1>1, <1>2, RefAssumption
    DEF IInv, Claims, TypeOK, PC, Set, engineVars, specVars, walkVars, docVars
  <1>4. Declining(r)' /\ Running(r)' = Running(r) /\ pc'[r] = "compiling"
    <2>1. pc'[r] = "compiling" /\ Running(r)' = Running(r)
      BY DEF IInv, TypeOK, Claims, Running, Set
    <2>2. Declining(r)'
      BY DEF IInv, Claims, RunOK, Declining
    <2> QED
      BY <2>1, <2>2
  <1> QED
    BY <1>3, <1>4, Moves DEF IInv, TypeOK, Claims, Set

LEMMA DeclinesStep ==
  ASSUME IInv, NEW r \in Run, NEW ds \in Reports, Declines(r, ds)
  PROVE  IInv'
  <1>1. ds \in SUBSET Finding
    BY FindingAssumption
  <1>2. TypeOK'
    BY <1>1 DEF IInv, Declines, TypeOK, PC, Set, engineVars, specVars, walkVars, docVars
  <1>3. declined'[r] = declined[r] \cup ds /\ pc'[r] = "detect" /\ Running(r)' = Running(r)
    BY DEF IInv, TypeOK, Declines, Running, Set
  <1>4. (ds # {} => HasError(ds)) /\ \A d \in ds : Placed(d, <<SpecFile>>)
    BY HonestPlaced DEF Declines, DeclineOK
  <1>5. Declining(r)'
    BY <1>3, <1>4 DEF IInv, RunOK, Declining, HasError
  <1> QED
    BY <1>2, <1>3, <1>5, Moves DEF IInv, TypeOK, Declines, Set

LEMMA RunSpecStep ==
  ASSUME IInv, NEW r \in Run, NEW o \in Options, NEW n \in Sizes, NEW b \in BOOLEAN,
         RunSpec(r, o, n, b), SourceLimit \in Nat
  PROVE  IInv'
  <1> DEFINE h == IF b THEN n ELSE ReadSource(n)
  <1>1. n \in Nat /\ h \in Nat /\ DOMAIN ordered \subseteq Nat
    <2>1. n \in Nat /\ TypeOK
      BY SizeAssumption DEF IInv
    <2>2. h \in Nat
      BY <2>1, ReadSourceNat
    <2>3. DOMAIN ordered \subseteq Nat
      BY <2>1 DEF TypeOK
    <2> QED BY <2>1, <2>2, <2>3
  <1> HIDE DEF h
  <1>2. held' = Set(held, r, h)
    BY DEF RunSpec, h
  <1>3. opts'[r] # None /\ \A q \in Run \ {r} : opts'[q] = opts[q]
    BY OptsSet, NoneAssumption DEF IInv, RunSpec
  <1>4. opts' \in [Run -> Option \cup {None}]
    BY OptsSet DEF IInv, RunSpec
  <1>5. TypeOK'
    <2>1. /\ pc' \in [Run -> PC] /\ size' \in [Run -> Nat] /\ held' \in [Run -> Nat]
          /\ left' \in [Run -> SUBSET Nat]
      BY <1>1, <1>2 DEF IInv, RunSpec, TypeOK, PC, Set
    <2>2. \A q \in Run :
             /\ pc'[q] # "idle" => opts'[q] # None
             /\ pc'[q] \in {"compiling", "passes", "passing"} => pc'[q] = pc[q]
      BY <1>3 DEF IInv, RunSpec, TypeOK, Set
    <2> QED
      BY <1>4, <2>1, <2>2 DEF IInv, RunSpec, TypeOK, engineVars, detectVars, docVars
  <1>6. Declining(r)' /\ Running(r)' = Running(r) /\ pc'[r] = "detect" /\ pc[r] = "idle"
    <2>1. pc'[r] = "detect" /\ pc[r] = "idle" /\ Running(r)' = Running(r)
      BY DEF IInv, TypeOK, RunSpec, Starts, Running, Set
    <2>2. Declining(r)'
      BY DEF IInv, RunSpec, RunOK, Declining, detectVars
    <2> QED
      BY <2>1, <2>2
  <1> QED
    BY <1>3, <1>5, <1>6, Moves DEF IInv, TypeOK, RunSpec, Set, detectVars

-----------------------------------------------------------------------------
(* Steps that give a run its document.                                     *)

LEMMA RunDocumentStep ==
  ASSUME IInv, NEW r \in Run, NEW o \in Options, NEW x \in Given, RunDocument(r, o, x)
  PROVE  IInv'
  <1> USE DEF RunDocument
  <1>1. /\ opts' \in [Run -> Option \cup {None}] /\ opts'[r] \in Option /\ opts'[r] = o
        /\ \A q \in Run \ {r} : opts'[q] = opts[q]
    BY OptsSet DEF IInv
  <1>2. /\ x \in Ref /\ heap[x] \in Written /\ heap[x] # None
        /\ \A d \in heap[x].diags : Placed(d, heap[x].sources)
    BY RefAssumption, HonestPlaced DEF IInv, TypeOK, GivenStay, Admits
  <1>3. heap[x].diags \in SUBSET Finding /\ Fingerprint(o, heap[x]) \in Written \cup {None}
    BY <1>2, Kinds DEF Fingerprint
  <1>4. TypeOK'
    <2>1. /\ pc' \in [Run -> PC] /\ left' \in [Run -> SUBSET Nat]
          /\ input' \in [Run -> Ref \cup {None}] /\ cur' \in [Run -> Ref \cup {None}]
      BY <1>2 DEF IInv, TypeOK, PC, Set, Enabled
    <2>2. sum' \in [Run -> Written \cup {None}] /\ said' \in [Run -> SUBSET Finding]
      BY <1>3 DEF IInv, TypeOK, Set
    <2>3. ASSUME NEW q \in Run
          PROVE  /\ pc'[q] # "idle" => opts'[q] # None
                 /\ pc'[q] = "compiling" => taker'[q] # None
                 /\ pc'[q] \in {"passes", "passing"} => cur'[q] # None /\ heap'[cur'[q]] # None
      <3>1. CASE q = r
        BY <1>1, <1>2, <3>1, NoneAssumption, RefAssumption DEF IInv, TypeOK, Set
      <3>2. CASE q # r
        BY <1>1, <3>2 DEF IInv, TypeOK, Set, detectVars
      <3> QED
        BY <3>1, <3>2
    <2> QED
      BY <1>1, <2>1, <2>2, <2>3 DEF IInv, TypeOK, engineVars, specVars, detectVars
  <1>5. /\ pc'[r] = "passes" /\ input'[r] = x /\ cur'[r] = x
        /\ sum'[r] = Fingerprint(o, heap[x]) /\ said'[r] = heap[x].diags
        /\ found'[r] = {} /\ result'[r] = None /\ pc[r] = "idle"
    BY DEF IInv, TypeOK, Set, Starts, RunOK, Held, Running
  <1>6. Grows /\ \A q \in Run \ {r} : Same(q)
    BY <1>1 DEF IInv, TypeOK, Set, Same, Grows, detectVars
  <1>7. Held(r)'
    BY <1>1, <1>2, <1>5 DEF Held, Running, Fingerprint
  <1>8. Carried(r)'
    <2>1. Base(r)' = heap[x] /\ Came(r)' = heap[x].diags
      BY <1>1, <1>2, <1>5, RefAssumption DEF Base, Came, Fingerprint
    <2> QED
      BY <1>1, <1>2, <1>5, <2>1 DEF Carried, Fingerprint, Admits, Holds
  <1>9. Apart(r)' /\ Answer(r)'
    BY <1>5 DEF Apart, Answer, HasDoc
  <1>10. Declining(r)'
    BY DEF IInv, RunOK, Declining, detectVars
  <1> QED
    BY <1>4, <1>5, <1>6, <1>7, <1>8, <1>9, <1>10, Frame

LEMMA LowersStep ==
  ASSUME IInv, NEW r \in Run, NEW x \in Ref, NEW t \in Tables, NEW d \in Document,
         NEW ds \in Reports, Lowers(r, x, t, d, ds)
  PROVE  IInv'
  <1> USE DEF Lowers
  <1> DEFINE all == d.diags \cup ds
  <1>1. d \in Written /\ d # None /\ x # None /\ all \in SUBSET Finding
    BY Kinds, NoneAssumption, RefAssumption, FindingAssumption
  <1>2. \A e \in all : Placed(e, d.sources)
    BY DEF LoweredOK, Honest, Outside
  <1>3. opts[r] \in Option /\ Fingerprint(opts[r], d) \in Written \cup {None}
    BY <1>1 DEF IInv, TypeOK, Fingerprint
  <1> HIDE DEF all
  <1>4. found' = Set(found, r, all) /\ said' = Set(said, r, all)
    BY DEF MergeDiagnostics, all
  <1>5. Grows /\ heap' \in [Ref -> Written \cup {None}] /\ heap'[x] = d
    BY <1>1 DEF IInv, TypeOK, Set, Grows
  <1>6. TypeOK'
    <2>1. /\ pc' \in [Run -> PC] /\ left' \in [Run -> SUBSET Nat]
          /\ cur' \in [Run -> Ref \cup {None}]
      BY DEF IInv, TypeOK, PC, Set, Enabled
    <2>2. /\ sum' \in [Run -> Written \cup {None}]
          /\ found' \in [Run -> SUBSET Finding] /\ said' \in [Run -> SUBSET Finding]
      BY <1>1, <1>3, <1>4 DEF IInv, TypeOK, Set
    <2>3. ASSUME NEW q \in Run
          PROVE  /\ pc'[q] # "idle" => opts'[q] # None
                 /\ pc'[q] = "compiling" => taker'[q] # None
                 /\ pc'[q] \in {"passes", "passing"} => cur'[q] # None /\ heap'[cur'[q]] # None
      <3>1. CASE q = r
        BY <1>1, <1>5, <3>1 DEF IInv, TypeOK, Set
      <3>2. CASE q # r
        BY <1>5, <3>2 DEF IInv, TypeOK, Set, Grows, detectVars
      <3> QED
        BY <3>1, <3>2
    <2> QED
      BY <1>5, <2>1, <2>2, <2>3 DEF IInv, TypeOK, engineVars, specVars, detectVars
  <1>7. /\ pc'[r] = "passes" /\ input'[r] = None /\ cur'[r] = x /\ opts'[r] = opts[r]
        /\ sum'[r] = Fingerprint(opts[r], d) /\ said'[r] = all
        /\ found'[r] = all /\ result'[r] = None
    <2>1. input[r] = None /\ result[r] = None
      BY DEF IInv, RunOK, Held, Running
    <2>2. pc'[r] = "passes" /\ cur'[r] = x /\ sum'[r] = Fingerprint(opts[r], d)
      BY DEF IInv, TypeOK, Set
    <2>3. said'[r] = all /\ found'[r] = all
      BY <1>4 DEF IInv, TypeOK, Set
    <2> QED
      BY <2>1, <2>2, <2>3
  <1>8. \A q \in Run \ {r} : Same(q)
    BY <1>4 DEF IInv, TypeOK, Set, Same, detectVars
  <1>9. Held(r)'
    BY <1>1, <1>7 DEF Held, Running, Fingerprint
  <1>10. Carried(r)'
    <2>1. Base(r)' = d /\ Came(r)' = {}
      BY <1>5, <1>7 DEF Base, Came, Fingerprint
    <2> QED
      BY <1>2, <1>5, <1>7, <2>1 DEF Carried, Fingerprint, Holds
  <1>11. Apart(r)' /\ Answer(r)'
    BY <1>7 DEF Apart, Answer, HasDoc
  <1>12. Declining(r)'
    BY DEF IInv, RunOK, Declining, detectVars
  <1> QED
    BY <1>5, <1>6, <1>7, <1>8, <1>9, <1>10, <1>11, <1>12, Frame

-----------------------------------------------------------------------------
(* Steps of the passes.                                                    *)

LEMMA AnalysesStep ==
  ASSUME IInv, NEW r \in Run, NEW ds \in Reports, Analyses(r, ds)
  PROVE  IInv'
  <1> USE DEF Analyses
  <1>1. ds \in SUBSET Finding /\ Held(r) /\ Carried(r) /\ Running(r)
    BY FindingAssumption DEF IInv, RunOK, Running
  <1>2. \A e \in ds : Placed(e, heap[cur[r]].sources)
    BY HonestPlaced DEF checkOutput
  <1>3. TypeOK'
    BY <1>1 DEF IInv, TypeOK, PC, Set, engineVars, specVars, walkVars, detectVars
  <1>4. /\ pc'[r] = "passes" /\ input'[r] = input[r] /\ cur'[r] = cur[r]
        /\ opts'[r] = opts[r] /\ sum'[r] = sum[r] /\ said'[r] = said[r] \cup ds
        /\ found'[r] = found[r] \cup ds /\ result'[r] = None
    BY <1>1 DEF IInv, TypeOK, Set, Held
  <1>5. Grows /\ \A q \in Run \ {r} : Same(q)
    BY DEF IInv, TypeOK, Set, Same, Grows, detectVars
  <1>6. Held(r)'
    BY <1>1, <1>4 DEF Held, Running
  <1>7. Carried(r)'
    <2>1. SUFFICES ASSUME Trusted(r)' PROVE Carried(r)'
      BY DEF Carried
    <2>2. Trusted(r)
      BY <1>4, <2>1 DEF Trusted
    <2>3. Base(r)' = Base(r) /\ Came(r)' = Came(r)
      BY <1>4 DEF Base, Came
    <2>4. Base(r) = heap[cur[r]]
      BY DEF Base, InputKept
    <2>5. \A e \in said'[r] : Placed(e, Base(r).sources)
      BY <1>1, <1>2, <1>4, <2>2, <2>4 DEF Carried
    <2> QED
      BY <1>1, <1>4, <2>2, <2>3, <2>4, <2>5 DEF Carried, InputKept
  <1>8. Apart(r)' /\ Answer(r)'
    BY <1>4 DEF Apart, Answer, HasDoc
  <1>9. Declining(r)'
    BY DEF IInv, RunOK, Declining, detectVars
  <1> QED
    BY <1>3, <1>4, <1>5, <1>6, <1>7, <1>8, <1>9, Frame

LEMMA TransformsStep ==
  ASSUME IInv, NEW r \in Run, NEW x \in Ref, NEW d \in Document, NEW ds \in Reports,
         Transforms(r, x, d, ds)
  PROVE  IInv'
  <1> USE DEF Transforms
  <1>1. /\ d \in Written /\ d # None /\ x # None /\ ds \in SUBSET Finding
        /\ Held(r) /\ Carried(r) /\ Running(r)
    BY Kinds, NoneAssumption, RefAssumption, FindingAssumption DEF IInv, RunOK, Running
  <1>2. \A e \in ds : Placed(e, d.sources)
    BY HonestPlaced DEF checkOutput
  <1>3. /\ cur[r] \in Ref /\ heap[cur[r]] \in Written /\ opts[r] \in Option
        /\ Fingerprint(opts[r], d) \in Written \cup {None}
    BY <1>1 DEF IInv, TypeOK, Fingerprint
  <1>4. Grows /\ heap' \in [Ref -> Written \cup {None}] /\ heap'[x] = d
    BY <1>1 DEF IInv, TypeOK, Set, Grows
  <1>5. TypeOK'
    <2>1. pc' \in [Run -> PC] /\ cur' \in [Run -> Ref \cup {None}]
      BY DEF IInv, TypeOK, PC, Set
    <2>2. /\ sum' \in [Run -> Written \cup {None}]
          /\ found' \in [Run -> SUBSET Finding] /\ said' \in [Run -> SUBSET Finding]
      BY <1>1, <1>3 DEF IInv, TypeOK, Set
    <2>3. ASSUME NEW q \in Run
          PROVE  /\ pc'[q] # "idle" => opts'[q] # None
                 /\ pc'[q] = "compiling" => taker'[q] # None
                 /\ pc'[q] \in {"passes", "passing"} => cur'[q] # None /\ heap'[cur'[q]] # None
      <3>1. CASE q = r
        BY <1>1, <1>4, <3>1 DEF IInv, TypeOK, Set
      <3>2. CASE q # r
        BY <1>4, <3>2 DEF IInv, TypeOK, Set, Grows, detectVars
      <3> QED
        BY <3>1, <3>2
    <2> QED
      BY <1>4, <2>1, <2>2, <2>3
      DEF IInv, TypeOK, engineVars, specVars, walkVars, detectVars
  <1>6. /\ pc'[r] = "passes" /\ input'[r] = input[r] /\ cur'[r] = x /\ opts'[r] = opts[r]
        /\ sum'[r] = Fingerprint(opts[r], d) /\ said'[r] = said[r] \cup ds
        /\ found'[r] = found[r] \cup ds /\ result'[r] = None
    <2>1. pc'[r] = "passes" /\ cur'[r] = x /\ sum'[r] = Fingerprint(opts[r], d)
      BY DEF IInv, TypeOK, Set
    <2>2. said'[r] = said[r] \cup ds /\ found'[r] = found[r] \cup ds
      BY DEF IInv, TypeOK, Set
    <2> QED
      BY <1>1, <2>1, <2>2 DEF Held
  <1>7. \A q \in Run \ {r} : Same(q)
    BY DEF IInv, TypeOK, Set, Same, detectVars
  <1>8. Held(r)'
    BY <1>1, <1>6 DEF Held, Running, Fingerprint
  <1>9. Carried(r)'
    <2>1. SUFFICES ASSUME Trusted(r)' PROVE Carried(r)'
      BY DEF Carried
    <2>2. Trusted(r)
      BY <1>6, <2>1 DEF Trusted
    <2>3. Base(r)' = d
      BY <1>4, <1>6 DEF Base, Fingerprint
    <2>4. Base(r) = heap[cur[r]]
      BY DEF Base, InputKept
    <2>5. Came(r)' = Came(r)
      <3>1. CASE input[r] = None
        BY <1>6, <3>1 DEF Came
      <3>2. CASE input[r] # None
        <4>1. input[r] \in Ref /\ heap[input[r]] # None /\ input[r] # x
          BY <1>1, <3>2, RefAssumption DEF Held, IInv, GivenStay
        <4>2. heap'[input[r]] = heap[input[r]]
          BY <1>4, <4>1 DEF Grows
        <4> QED
          BY <1>6, <2>4, <3>2, <4>1, <4>2 DEF Came
      <3> QED
        BY <3>1, <3>2
    <2>6. \A e \in said'[r] : Placed(e, d.sources)
      <3>1. ASSUME NEW e \in said[r] PROVE Placed(e, d.sources)
        <4>1. e \in Finding /\ Placed(e, heap[cur[r]].sources)
          BY <1>1, <2>2, <2>4, <3>1 DEF Carried, IInv, TypeOK
        <4>2. /\ heap[cur[r]].sources \in Tables /\ d.sources \in Tables
              /\ IsPrefix(heap[cur[r]].sources, d.sources)
          BY <1>1, <1>3, Kinds DEF checkOutput, keepsSources
        <4> QED
          BY <4>1, <4>2, PlacedPrefix
      <3> QED
        BY <1>2, <1>6, <3>1
    <2> QED
      BY <1>1, <1>4, <1>6, <2>2, <2>3, <2>5, <2>6 DEF Carried, Fingerprint, Holds
  <1>10. Apart(r)' /\ Answer(r)'
    BY <1>6 DEF Apart, Answer, HasDoc
  <1>11. Declining(r)'
    BY DEF IInv, RunOK, Declining, detectVars
  <1> QED
    BY <1>4, <1>5, <1>6, <1>7, <1>8, <1>9, <1>10, <1>11, Frame

LEMMA ReturnsStep ==
  ASSUME IInv, NEW r \in Run, NEW x \in Ref, Returns(r, x)
  PROVE  IInv'
  <1> DEFINE doc == heap[cur[r]]
             all == Stored(r) \cup found[r]
  <1>1. /\ pc[r] = "passes" /\ ~cancelled[r] /\ heap[x] = None /\ x # None
        /\ UNCHANGED <<engineVars, opts, said, cancelled, tampered>>
        /\ heap' = Set(heap, x, withFindings(doc, all))
        /\ Judge(r, x, all, doc.sources)
    BY RefAssumption DEF Returns, MergeDiagnostics
  <1>2. /\ Held(r) /\ Carried(r) /\ Running(r)
        /\ cur[r] \in Ref /\ doc \in Written /\ opts[r] \in Option
        /\ said[r] \in SUBSET Finding /\ found[r] \in SUBSET Finding
    BY <1>1 DEF IInv, RunOK, Running, TypeOK
  <1>3. input[r] # None => input[r] \in Ref /\ heap[input[r]] \in Written
    BY <1>2, RefAssumption DEF Held, IInv, TypeOK, GivenStay
  <1>4. all \in SUBSET Finding /\ doc.sources \in Tables /\ doc.sound \in BOOLEAN
        /\ doc.stamped \in BOOLEAN
    BY <1>2, <1>3, Kinds DEF Stored, Written
  <1>5. Trusted(r) =>
          /\ all = said[r]
          /\ \A e \in all : Placed(e, doc.sources)
          /\ opts[r].verify => doc.sound
    <2>1. SUFFICES ASSUME Trusted(r)
          PROVE  /\ all = said[r]
                 /\ \A e \in all : Placed(e, doc.sources)
                 /\ opts[r].verify => doc.sound
      OBVIOUS
    <2>2. Base(r) = doc
      BY <1>1, <1>2, <2>1 DEF Base, Carried
    <2>3. Came(r) = Stored(r)
      BY <2>2 DEF Came, Stored
    <2> QED
      BY <1>1, <1>2, <2>1, <2>2, <2>3 DEF Carried
  <1> DEFINE out == withFindings(doc, all)
  <1>6. /\ out \in Written /\ out # None
        /\ out.diags = all /\ out.sources = doc.sources /\ out.sound = doc.sound
    BY <1>4, NoneAssumption DEF withFindings, Written
  <1> HIDE DEF all, doc, out
  <1>7. heap' \in [Ref -> Written \cup {None}] /\ Grows /\ heap'[x] = out
    BY <1>1, <1>6 DEF IInv, TypeOK, Set, Grows, out
  <1>8. /\ opts' \in [Run -> Option \cup {None}] /\ opts'[r] \in Option
        /\ \A q \in Run \ {r} : opts'[q] = opts[q]
    BY <1>1, OptsStay DEF IInv
  <1>9. said' = Set(said, r, said[r])
    BY <1>1 DEF IInv, TypeOK, Set
  <1>10. CASE End(r, None)
    <2>1. result'[r] = None
      BY <1>10 DEF IInv, TypeOK, End, Set
    <2>2. Apart(r)' /\ Answer(r)'
      BY <2>1 DEF Apart, Answer, HasDoc
    <2> QED
      BY <1>1, <1>2, <1>7, <1>8, <1>9, <1>10, <2>2, Ends
  <1>11. CASE ~End(r, None)
    <2> DEFINE v == Verdict(x, all, opts'[r].failOn)
               res == [doc |-> x, diags |-> all, sources |-> doc.sources, failed |-> v]
    <2>1. End(r, res)
      BY <1>1, <1>11 DEF Judge
    <2>2. v \in BOOLEAN
      BY DEF Verdict
    <2>3. res \in Result
      BY <1>4, <2>2 DEF Result
    <2>4. res.doc = x /\ res.diags = all /\ res.sources = doc.sources
      OBVIOUS
    <2> HIDE DEF res
    <2>5. result'[r] = res /\ cur'[r] = None /\ \A q \in Run \ {r} : cur'[q] = cur[q]
      BY <2>1 DEF IInv, TypeOK, End, Set
    <2>6. Apart(r)'
      <3>1. x \notin Given
        BY <1>1 DEF IInv, GivenStay
      <3>2. ASSUME NEW q \in Run \ {r} PROVE cur[q] # x
        BY <1>1 DEF IInv, RunOK, Held, Running, TypeOK
      <3> QED
        BY <1>1, <1>6, <1>7, <2>4, <2>5, <3>1, <3>2 DEF Apart
    <2>7. Answer(r)'
      <3>1. Trusted(r)' = Trusted(r) /\ HasDoc(r)' /\ result'[r] = res
        BY <1>1, <2>3, <2>4, <2>5, NoneAssumption DEF Trusted, HasDoc
      <3> QED
        BY <1>1, <1>5, <1>6, <1>7, <2>4, <3>1 DEF Answer
    <2> QED
      BY <1>1, <1>2, <1>7, <1>8, <1>9, <2>1, <2>3, <2>6, <2>7, Ends
  <1> QED
    BY <1>10, <1>11

(* A pass that changes its input reaches no document but the one its run   *)
(* has got to; every other run, and its own unless it verifies, is from    *)
(* then on not trusted.                                                    *)
LEMMA TampersStep ==
  ASSUME IInv, NEW r \in Run, NEW d \in Document, Tampers(r, d)
  PROVE  IInv'
  <1> USE DEF Tampers
  <1>1. d \in Written /\ d # None /\ cur[r] \in Ref /\ Honest(d.diags, d.sources)
    BY Kinds, NoneAssumption DEF IInv, TypeOK
  <1>2. /\ heap' \in [Ref -> Written \cup {None}] /\ heap'[cur[r]] = d
        /\ \A x \in Ref : x # cur[r] => heap'[x] = heap[x]
        /\ \A x \in Ref : heap[x] # None => heap'[x] # None
    BY <1>1 DEF IInv, TypeOK, Set
  <1>3. /\ tampered' \in [Run -> BOOLEAN] /\ tampered'[r]
        /\ \A q \in Run : tampered[q] => tampered'[q]
    BY DEF IInv, TypeOK, Set
  <1>4. TypeOK'
    <2>1. \A q \in Run : pc[q] \in {"passes", "passing"} => cur[q] # None /\ heap'[cur[q]] # None
      BY <1>2 DEF IInv, TypeOK
    <2> QED
      BY <1>2, <1>3, <2>1
      DEF IInv, TypeOK, engineVars, specVars, walkVars, detectVars, docVars
  <1>5. GivenStay'
    BY <1>1, <1>2, RefAssumption DEF IInv, GivenStay
  <1>6. ASSUME NEW q \in Run PROVE RunOK(q)'
    <2>1. RunOK(q) /\ (Trusted(q)' => Trusted(q) /\ q = r /\ opts[r].verify)
      BY <1>3 DEF IInv, Trusted
    <2>2. Running(q)' = Running(q) /\ HasDoc(q)' = HasDoc(q)
      BY DEF Running, HasDoc
    <2>3. Held(q)' /\ Declining(q)'
      BY <2>1, <2>2 DEF RunOK, Held, Declining, docVars, detectVars
    <2>4. HasDoc(q) => /\ result[q].doc \in Ref /\ result[q].doc # cur[r]
                       /\ heap'[result[q].doc] = heap[result[q].doc]
      BY <1>2, <2>1 DEF HasDoc, IInv, TypeOK, Result, RunOK, Apart
    <2>5. Apart(q)'
      BY <2>1, <2>2, <2>4 DEF RunOK, Apart, docVars
    <2>6. Answer(q)'
      BY <2>1, <2>2, <2>4 DEF RunOK, Answer, docVars
    <2>7. Carried(q)'
      <3>1. SUFFICES ASSUME Trusted(q)' PROVE Carried(q)'
        BY DEF Carried
      <3>2. q = r /\ opts[r].verify /\ pc[r] = "passing" /\ Trusted(r)
        BY <2>1, <3>1
      <3>3. Base(r)' = Base(r)
        BY <3>2 DEF Base, docVars
      <3>4. Came(r)' = Came(r)
        <4>1. input[r] # None /\ input[r] # cur[r] => heap'[input[r]] = heap[input[r]]
          BY <1>2 DEF IInv, TypeOK
        <4> QED
          BY <3>3, <4>1 DEF Came, docVars
      <3> QED
        BY <2>1, <2>2, <3>2, <3>3, <3>4 DEF RunOK, Carried, docVars
    <2> QED
      BY <2>3, <2>5, <2>6, <2>7 DEF RunOK
  <1> QED
    BY <1>4, <1>5, <1>6 DEF IInv

-----------------------------------------------------------------------------
(* How much of a spec a run holds.                                         *)

(* A run that is not the one stepping reads no further.                    *)
Unread(q) ==
    /\ pc'[q] = pc[q] /\ left'[q] = left[q] /\ at'[q] = at[q] /\ held'[q] = held[q]
    /\ size'[q] = size[q] /\ parse'[q] = parse[q] /\ taker'[q] = taker[q]

LEMMA UnreadStays ==
  ASSUME NEW q \in Run, Reading(q), Unread(q), UNCHANGED engineVars
  PROVE  Reading(q)'
  BY DEF Reading, Unread, engineVars, PastLimit

LEMMA ReadingFrame ==
  ASSUME Inv, NEW r \in Run, UNCHANGED engineVars,
         \A q \in Run \ {r} : Unread(q), Reading(r)'
  PROVE  Inv' <=> IInv'
  <1>1. \A q \in Run : Reading(q)'
    BY UnreadStays DEF Inv
  <1> QED
    BY <1>1 DEF Inv, engineVars

LEMMA ReadingEnds ==
  ASSUME Inv, NEW r \in Run, engine = "built", UNCHANGED engineVars,
         NEW res, End(r, res)
  PROVE  Inv' <=> IInv'
  <1>1. \A q \in Run \ {r} : Unread(q)
    BY DEF Inv, IInv, TypeOK, End, Set, Unread
  <1>2. pc'[r] = "end" /\ engine' = "built"
    BY DEF Inv, IInv, TypeOK, End, Set, engineVars
  <1>3. Reading(r)'
    BY <1>2 DEF Reading
  <1> QED
    BY <1>1, <1>3, ReadingFrame

(* A step that ends a run, by whatever it ends it with.                    *)
LEMMA ReadingJudge ==
  ASSUME Inv, NEW r \in Run, engine = "built", UNCHANGED engineVars,
         NEW x, NEW ds, NEW t, Judge(r, x, ds, t)
  PROVE  Inv' <=> IInv'
  BY ReadingEnds DEF Judge

(* A step of a run that is past its compile.                               *)
LEMMA ReadingPasses ==
  ASSUME Inv, NEW r \in Run, engine = "built", UNCHANGED engineVars,
         \A q \in Run \ {r} : Unread(q), pc'[r] \in {"passes", "passing"}
  PROVE  Inv' <=> IInv'
  <1>1. Reading(r)'
    BY DEF Reading, engineVars
  <1> QED
    BY <1>1, ReadingFrame

LEMMA BeginsStep ==
  ASSUME Inv, NEW r \in Run, Begins(r)
  PROVE  Inv'
  <1>1. PICK o \in Options :
          \/ NotRun(r, o) \/ RunEmpty(r, o)
          \/ \E n \in Sizes, b \in BOOLEAN : RunSpec(r, o, n, b)
          \/ \E x \in Given : RunDocument(r, o, x)
    BY DEF Begins
  <1>2. IInv /\ TypeOK
    BY DEF Inv, IInv
  <1>3. CASE NotRun(r, o)
    BY <1>2, <1>3, NotRunStep, ReadingEnds DEF NotRun, Starts, Fails
  <1>4. CASE RunEmpty(r, o)
    BY <1>2, <1>4, RunEmptyStep, ReadingJudge DEF RunEmpty, Starts
  <1>5. ASSUME NEW n \in Sizes, NEW b \in BOOLEAN, RunSpec(r, o, n, b) PROVE Inv'
    <2> USE <1>5 DEF RunSpec
    <2>1. /\ engine = "built" /\ UNCHANGED engineVars /\ ordered # << >>
          /\ \A q \in Run \ {r} : Unread(q)
      BY DEF Inv, IInv, TypeOK, Starts, Set, Unread, detectVars
    <2>2. SourceLimit \in Nat /\ n \in Nat
      BY <1>2, <2>1, SourceLimitBounds, SizeAssumption
    <2>3. /\ pc'[r] = "detect" /\ left'[r] = DOMAIN ordered /\ size'[r] = n
          /\ held'[r] = IF b THEN n ELSE ReadSource(n)
      BY DEF Inv, IInv, TypeOK, Set
    <2>4. held'[r] = n \/ \A m \in DOMAIN ordered : PastLimit(ordered[m], held'[r])
      <3>1. \A m \in DOMAIN ordered : Limit[ordered[m]] \in Nat
        BY <1>2, SizeAssumption DEF TypeOK
      <3>2. CASE ~b /\ SourceLimit > 0 /\ n > SourceLimit
        <4>1. held'[r] = SourceLimit + 1
          BY <2>3, <3>2 DEF ReadSource
        <4> QED
          BY <1>2, <2>1, <2>2, <3>1, <3>2, <4>1, SourceLimitBounds DEF PastLimit
      <3>3. CASE ~(~b /\ SourceLimit > 0 /\ n > SourceLimit)
        BY <2>3, <3>3 DEF ReadSource
      <3> QED
        BY <3>2, <3>3
    <2>5. Reading(r)'
      BY <2>1, <2>3, <2>4 DEF Reading, engineVars
    <2> QED
      BY <1>2, <2>1, <2>2, <2>5, ReadingFrame, RunSpecStep
  <1>6. ASSUME NEW x \in Given, RunDocument(r, o, x) PROVE Inv'
    <2> USE <1>6 DEF RunDocument
    <2>1. /\ engine = "built" /\ UNCHANGED engineVars /\ pc'[r] = "passes"
          /\ \A q \in Run \ {r} : Unread(q)
      BY DEF Inv, IInv, TypeOK, Starts, Set, Unread, specVars, detectVars
    <2> QED
      BY <1>2, <2>1, ReadingPasses, RunDocumentStep
  <1> QED
    BY <1>1, <1>3, <1>4, <1>5, <1>6

LEMMA DetectsStep ==
  ASSUME Inv, NEW r \in Run, Detects(r)
  PROVE  Inv'
  <1>1. IInv /\ TypeOK /\ Reading(r)
    BY DEF Inv, IInv
  <1>2. CASE Ask(r)
    <2> USE <1>2 DEF Ask
    <2>1. First(left[r]) \in left[r] /\ left[r] \in SUBSET Nat
      BY <1>1, FirstIn DEF TypeOK
    <2>2. /\ UNCHANGED engineVars /\ pc'[r] = "asking" /\ at'[r] = First(left[r])
          /\ left'[r] = left[r] \ {First(left[r])}
          /\ held'[r] = held[r] /\ size'[r] = size[r]
          /\ \A q \in Run \ {r} : Unread(q)
      BY <1>1 DEF TypeOK, Set, Unread, specVars, detectVars
    <2>3. Reading(r)'
      BY <1>1, <2>1, <2>2 DEF Reading, engineVars
    <2> QED
      BY <1>1, <2>1, <2>2, <2>3, ReadingFrame, AskStep
  <1>3. CASE DetectStopped(r)
    BY <1>1, <1>3, FailedStep, ReadingEnds DEF DetectStopped, Fails, Reading
  <1>4. CASE AskBroke(r)
    BY <1>1, <1>4, FailedStep, ReadingEnds DEF AskBroke, Fails, Reading
  <1>5. CASE Unrecognized(r)
    BY <1>1, <1>5, UnrecognizedStep, ReadingJudge DEF Unrecognized, Reading
  <1>6. ASSUME NEW ds \in Reports, Declines(r, ds) PROVE Inv'
    <2> USE <1>6 DEF Declines
    <2>1. /\ UNCHANGED engineVars /\ pc'[r] = "detect" /\ left'[r] = left[r]
          /\ held'[r] = held[r] /\ size'[r] = size[r]
          /\ \A q \in Run \ {r} : Unread(q)
      BY <1>1 DEF TypeOK, Set, Unread, specVars, walkVars
    <2>2. Reading(r)'
      BY <1>1, <2>1 DEF Reading, engineVars
    <2> QED
      BY <1>1, <2>1, <2>2, ReadingFrame, DeclinesStep
  <1>7. ASSUME NEW f \in Format, Claims(r, f) PROVE Inv'
    <2> USE <1>7 DEF Claims
    <2>1. /\ UNCHANGED engineVars /\ pc'[r] = "compiling"
          /\ held'[r] = held[r] /\ size'[r] = size[r]
          /\ taker'[r] = byFormat[f] /\ parse'[r] = HandedOn(Asked(r), byFormat[f])
          /\ \A q \in Run \ {r} : Unread(q)
      BY <1>1 DEF TypeOK, Set, Unread, specVars, walkVars
    <2>2. Asked(r) \in Compiler /\ held[r] = size[r]
      BY <1>1 DEF Reading, Asked, TypeOK
    <2>3. Reading(r)'
      BY <1>1, <2>1, <2>2 DEF Reading, engineVars, HandedOn
    <2> QED
      BY <1>1, <2>1, <2>2, <2>3, ReadingFrame, ClaimsStep
  <1>8. ASSUME NEW f \in Format, Unserved(r, f) PROVE Inv'
    BY <1>1, <1>8, UnservedStep, ReadingJudge DEF Unserved, Reading
  <1> QED
    BY <1>2, <1>3, <1>4, <1>5, <1>6, <1>7, <1>8 DEF Detects

LEMMA CompilesStep ==
  ASSUME Inv, NEW r \in Run, Compiles(r)
  PROVE  Inv'
  <1>1. IInv /\ TypeOK /\ Reading(r)
    BY DEF Inv, IInv
  <1>2. CASE CompileBroke(r)
    BY <1>1, <1>2, FailedStep, ReadingEnds DEF CompileBroke, Fails, Reading
  <1>3. ASSUME NEW t \in Tables, NEW ds \in Reports, Refuses(r, t, ds) PROVE Inv'
    BY <1>1, <1>3, RefusesStep, ReadingJudge DEF Refuses, Reading
  <1>4. ASSUME NEW t \in Tables, NEW ds \in Reports, NEW x \in Fresh, NEW d \in Document,
               Lowers(r, x, t, d, ds)
        PROVE  Inv'
    <2> USE <1>4 DEF Lowers
    <2>1. x \in Ref
      BY DEF Fresh
    <2>2. /\ engine = "built" /\ UNCHANGED engineVars /\ pc'[r] = "passes"
          /\ \A q \in Run \ {r} : Unread(q)
      BY <1>1 DEF TypeOK, Reading, Set, Unread, specVars, detectVars
    <2> QED
      BY <1>1, <2>1, <2>2, ReadingPasses, LowersStep
  <1> QED
    BY <1>2, <1>3, <1>4 DEF Compiles

LEMMA PassesStep ==
  ASSUME Inv, NEW r \in Run, Passes(r)
  PROVE  Inv'
  <1>1. IInv /\ TypeOK /\ Reading(r)
    BY DEF Inv, IInv
  <1>2. CASE PassStarts(r)
    <2> USE <1>2 DEF PassStarts
    <2>1. First(left[r]) \in Nat
      BY <1>1, FirstIn DEF TypeOK
    <2>2. /\ engine = "built" /\ UNCHANGED engineVars /\ pc'[r] = "passing"
          /\ \A q \in Run \ {r} : Unread(q)
      BY <1>1 DEF TypeOK, Reading, Set, Unread, specVars, detectVars
    <2> QED
      BY <1>1, <2>1, <2>2, ReadingPasses, PassStartsStep
  <1>3. CASE PassesStopped(r)
    BY <1>1, <1>3, FailedStep, ReadingEnds DEF PassesStopped, Fails, Reading
  <1>4. CASE PassBroke(r)
    BY <1>1, <1>4, FailedStep, ReadingEnds DEF PassBroke, Fails, Reading
  <1>5. ASSUME NEW ds \in Reports, Analyses(r, ds) PROVE Inv'
    <2> USE <1>5 DEF Analyses
    <2>1. /\ engine = "built" /\ UNCHANGED engineVars /\ pc'[r] = "passes"
          /\ \A q \in Run \ {r} : Unread(q)
      BY <1>1 DEF TypeOK, Reading, Set, Unread, specVars, walkVars, detectVars
    <2> QED
      BY <1>1, <2>1, ReadingPasses, AnalysesStep
  <1>6. ASSUME NEW ds \in Reports, NEW x \in Fresh, NEW d \in Document,
               Transforms(r, x, d, ds)
        PROVE  Inv'
    <2> USE <1>6 DEF Transforms
    <2>1. x \in Ref
      BY DEF Fresh
    <2>2. /\ engine = "built" /\ UNCHANGED engineVars /\ pc'[r] = "passes"
          /\ \A q \in Run \ {r} : Unread(q)
      BY <1>1 DEF TypeOK, Reading, Set, Unread, specVars, walkVars, detectVars
    <2> QED
      BY <1>1, <2>1, <2>2, ReadingPasses, TransformsStep
  <1>7. ASSUME NEW x \in Fresh, Returns(r, x) PROVE Inv'
    <2>1. x \in Ref
      BY DEF Fresh
    <2>2. IInv'
      BY <1>1, <1>7, <2>1, ReturnsStep
    <2>3. /\ engine = "built" /\ UNCHANGED engineVars
          /\ \E ds, t : Judge(r, x, ds, t)
      BY <1>1, <1>7 DEF Returns, Reading
    <2> QED
      BY <2>2, <2>3, ReadingJudge
  <1> QED
    BY <1>2, <1>3, <1>4, <1>5, <1>6, <1>7 DEF Passes

(* A caller's cancelling and a pass's tampering read nothing, and New comes *)
(* before any run.                                                         *)
LEMMA AsideStep ==
  ASSUME Inv, NEW r \in Run, Cancel(r) \/ \E d \in Document : Tampers(r, d)
  PROVE  Inv'
  <1>1. UNCHANGED engineVars /\ \A q \in Run : Unread(q)
    BY DEF Cancel, Tampers, Unread, specVars, walkVars, detectVars
  <1>2. Reading(r)'
    BY <1>1, UnreadStays DEF Inv
  <1>3. IInv'
    BY CancelStep, TampersStep DEF Inv
  <1> QED
    BY <1>1, <1>2, <1>3, ReadingFrame

LEMMA NewInv ==
  ASSUME Inv, New
  PROVE  Inv'
  <1>1. IInv' /\ engine = "building"
    BY NewStep DEF Inv, New, Register, Built, NewRefused
  <1>2. \A r \in Run : pc[r] = "idle" /\ pc'[r] = "idle"
    BY <1>1 DEF Inv, Reading, New, Register, Built, NewRefused
  <1>3. engine' = "built" => ordered' # << >>
    BY <1>1 DEF New, Register, Built, NewRefused
  <1>4. \A r \in Run : Reading(r)'
    BY <1>2 DEF Reading
  <1> QED
    BY <1>1, <1>3, <1>4 DEF Inv

LEMMA InvInit == Init => Inv
  <1> SUFFICES ASSUME Init PROVE Inv
    OBVIOUS
  <1> USE DEF Init
  <1>1. heap \in [Ref -> Written \cup {None}]
    BY Kinds
  <1>2. TypeOK
    BY <1>1, ListsAssumption DEF TypeOK, PC
  <1>3. GivenStay
    BY RefAssumption DEF GivenStay
  <1>4. \A r \in Run : RunOK(r)
    BY DEF RunOK, Held, Carried, Apart, Declining, Answer, Running, HasDoc
  <1>5. \A r \in Run : Reading(r)
    BY DEF Reading
  <1> QED
    BY <1>2, <1>3, <1>4, <1>5 DEF Inv, IInv

LEMMA InvNext == Inv /\ [Next]_vars => Inv'
  <1> SUFFICES ASSUME Inv, [Next]_vars PROVE Inv'
    OBVIOUS
  <1>1. CASE New
    BY <1>1, NewInv
  <1>2. ASSUME NEW r \in Run, Begins(r) \/ Continues(r) PROVE Inv'
    BY <1>2, BeginsStep, DetectsStep, CompilesStep, PassesStep DEF Continues
  <1>3. ASSUME NEW r \in Run, Cancel(r) \/ \E d \in Document : Tampers(r, d) PROVE Inv'
    BY <1>3, AsideStep
  <1>4. CASE UNCHANGED vars
    <2>1. TypeOK'
      BY <1>4 DEF vars, engineVars, specVars, walkVars, detectVars, docVars, Inv, IInv, TypeOK
    <2>2. GivenStay' /\ \A r \in Run : RunOK(r)'
      BY <1>4 DEF vars, detectVars, docVars, Inv, IInv, GivenStay, RunOK, Held, Carried, Apart,
                  Declining, Answer, Running, Base, Came, Trusted, HasDoc
    <2>3. (engine' = "built" => ordered' # << >>) /\ \A r \in Run : Reading(r)'
      BY <1>4 DEF vars, engineVars, specVars, walkVars, detectVars, Inv, Reading, PastLimit
    <2> QED
      BY <2>1, <2>2, <2>3 DEF Inv, IInv
  <1> QED
    BY <1>1, <1>2, <1>3, <1>4 DEF Next

LEMMA Always == Spec => []Inv
  BY InvInit, InvNext, PTL DEF Spec

LEMMA InvGives ==
  Inv => /\ TypeOK /\ FindingsPlaced /\ NothingLost /\ VerifiedSound
         /\ RefusalStated /\ StopReturnsNone /\ CompilesWhole
  BY DEF Inv, IInv, RunOK, Answer, Reading, FindingsPlaced, NothingLost, VerifiedSound,
         RefusalStated, StopReturnsNone, CompilesWhole

-----------------------------------------------------------------------------
(* The theorems.                                                           *)

(* The pipeline's state stays well typed: a run past its entry has its     *)
(* options, a compile has its compiler and a pass its document.            *)
THEOREM TypeCorrect == Spec => []TypeOK
  BY Always, InvGives, PTL

(* Every finding a Result holds points at the file its reporter meant,     *)
(* whatever tables the stages hand on: checkSources and keepsSources only  *)
(* let a table be added to.                                                *)
THEOREM FindingsStayPlaced == Spec => []FindingsPlaced
  BY Always, InvGives, PTL

(* A Result, and the document in it, hold what every stage accepted said,  *)
(* and nothing else, however runs over one document overlap.               *)
THEOREM NoFindingIsLost == Spec => []NothingLost
  BY Always, InvGives, PTL

(* A verified run returns only a document that keeps the IR's invariants,  *)
(* whatever its passes return and whichever of them change their input.    *)
THEOREM VerifiedRunsAreSound == Spec => []VerifiedSound
  BY Always, InvGives, PTL

(* A run that gives no document and no Go error fails, with an error said. *)
THEOREM RefusalsAreStated == Spec => []RefusalStated
  BY Always, InvGives, PTL

(* A run whose ctx ended before it did returns no document.                *)
THEOREM StopsReturnNone == Spec => []StopReturnsNone
  BY Always, InvGives, PTL

(* However many compilers with whatever limits: what is compiled is the    *)
(* whole spec, with no other compiler's parse of it.                       *)
THEOREM WholeSpecsOnly == Spec => []CompilesWhole
  BY Always, InvGives, PTL
=============================================================================
