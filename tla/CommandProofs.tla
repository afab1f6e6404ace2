--------------------------- MODULE CommandProofs ---------------------------
(***************************************************************************)
(* What the command line does, for any set of processes that name one      *)
(* output path, any modes and any argument lists: OutputSafe, ExitTells    *)
(* and ModeKept.                                                           *)
(*                                                                         *)
(* None of the three is inductive.  That the path holds a whole document   *)
(* rests on what a temporary file holds at each place of the replacement   *)
(* (Temps); that its mode is kept rests on every pending replacement       *)
(* meaning to give the mode the path has now, though other processes       *)
(* replace it meanwhile (Keeps); what an exit tells rests on what is known *)
(* of the error, the verdict and the output wherever the run has got to    *)
(* (Going, Ending).                                                        *)
(***************************************************************************)
EXTENDS Command, TLAPS

Replacing == {"chmod", "fill", "rename"}
Before == {"args", "cache", "engine", "run"}
Over == {"end", "exited", "killed"}

\* What the options of a command that runs satisfy.
Asked(l) == l.command # "help" => (l.file => l.asked) /\ ~(l.explain /\ l.file)

\* What holds of each process, wherever it has got to.
Lined(p) ==
    /\ Asked(line[p])
    /\ pc[p] = "args" => line[p].command = "help"
    /\ pc[p] \notin {"args"} \cup Over => line[p].command # "help"

Temps(p) ==
    /\ pc[p] \in Replacing => temp[p] \in TempFiles
    /\ pc[p] \in {"fill", "rename"} => temp[p].mode = temp[p].keep
    /\ pc[p] = "rename" => temp[p].content = "whole"
    /\ temp[p] # None /\ pc[p] \notin Replacing \cup {"killed"} => p \in kept

\* The mode a pending replacement will give is the one the path has now.
Keeps(p) ==
    pc[p] \in Replacing => temp[p].keep = IF path = None THEN NewMode ELSE path.mode

Publishes(p) == p \in published => pc[p] \in Over /\ line[p].asked /\ Finished(err[p])

\* A run that is still going.
Going(p) ==
    /\ pc[p] \in Before => ~verdict[p].failed
    /\ pc[p] \notin Before \cup Over => verdict[p].doc \/ verdict[p].failed
    /\ pc[p] \notin Before \cup {"report"} \cup Over => out[p].stderr = "whole"
    /\ pc[p] \notin Over => out[p].stdout = "none"
    /\ pc[p] = "verdict" => line[p].command = "validate" \/ ~verdict[p].doc
    /\ pc[p] = "explain" => line[p].explain
    /\ pc[p] \in {"encode", "print"} => ~line[p].file
    /\ pc[p] \in {"replace"} \cup Replacing => line[p].file
    /\ pc[p] = "print" /\ done[p] => at[p] = "print"

\* A run whose command has returned: what its error says is so.
Ending(p) ==
    pc[p] \in {"end", "exited"} =>
      /\ err[p].code = 0 =>
           /\ err[p].kind = "nil"
           /\ \/ line[p].command = "help"
              \/ /\ ~verdict[p].failed /\ out[p].stderr = "whole"
                 /\ line[p].command = "compile" =>
                      IF line[p].file THEN p \in published ELSE out[p].stdout = "whole"
      /\ err[p].code = 1 => verdict[p].failed
      /\ verdict[p].failed => err[p].code = 1 \/ (done[p] /\ ~Finished(err[p]))
      /\ Finished(err[p]) \/ (p \notin published /\ out[p].stdout # "whole")
      /\ done[p] /\ at[p] \notin {"print", "end"} /\ ~Finished(err[p]) => out[p].stdout = "none"

\* The body of ExitTells.
Tells(p) ==
    pc[p] = "exited" =>
      /\ exit[p].code = 0 =>
           \/ line[p].command = "help"
           \/ /\ ~verdict[p].failed /\ out[p].stderr = "whole"
              /\ line[p].command = "compile" =>
                   IF line[p].file THEN p \in published ELSE out[p].stdout = "whole"
      /\ exit[p].code = 1 => verdict[p].failed
      /\ verdict[p].failed /\ exit[p].said # "stopped" => exit[p].code = 1
      /\ exit[p].said = "stopped" =>
           /\ p \notin published /\ out[p].stdout # "whole"
           /\ at[p] \notin {"print", "end"} => out[p].stdout = "none"

Local(p) == Lined(p) /\ Temps(p) /\ Keeps(p) /\ Publishes(p) /\ Going(p) /\ Ending(p) /\ Tells(p)
Pathed == path # None => path.content = "whole" /\ path.mode \in Modes
Inv == TypeOK /\ Pathed /\ \A p \in Procs : Local(p)

\* A step of p leaves what is known of every other process.
Same(p) ==
    \A q \in Procs : q # p =>
      /\ pc'[q] = pc[q] /\ line'[q] = line[q] /\ done'[q] = done[q] /\ verdict'[q] = verdict[q]
      /\ err'[q] = err[q] /\ out'[q] = out[q] /\ temp'[q] = temp[q] /\ exit'[q] = exit[q]
      /\ at'[q] = at[q] /\ (q \in published' <=> q \in published) /\ (q \in kept' <=> q \in kept)

----------------------------------------------------------------------------
(* Arguments *)

\* Options that are not refused name a file only where the user wrote --output or
\* -o, and never beside --explain: a -opt that pflag would read as -o is refused,
\* by the check of dashes or by pflag for a token before it.
LEMMA OptionsAreAsked ==
    ASSUME NEW c \in Commands, NEW args \in Lines, ~Misused(c, args)
    PROVE  Asked(Parsed(c, args))
<1> DEFINE At(i, token) == Places(c, args)[i] = "arg" /\ args[i] = token
<1>1. args \in Seq(STRING) /\ DOMAIN args = 1 .. Len(args) /\ Len(args) \in Nat
  BY LinesOK
<1>2. ASSUME NEW i \in DOMAIN args, At(i, "-opt"), c # "help"
      PROVE  FALSE
  <2>1. "--opt" \in Flags(c)
    BY <1>2 DEF Flags, Commands
  <2>2. ~SingleDashLongFlags(c, args)
    BY DEF Misused
  <2>3. PICK j \in 1 .. (i - 1) : Places(c, args)[j] = "arg" /\ Reading(c, args[j]) = "refused"
    BY <1>2, <2>1, <2>2 DEF SingleDashLongFlags
  <2>4. j \in DOMAIN args
    BY <1>1, <2>3
  <2> QED
    BY <2>3, <2>4 DEF Misused
<1>3. ASSUME c # "help", Sets(c, args, {"-o", "--output", "-opt"})
      PROVE  Sets(c, args, {"-o", "--output"})
  <2>1. PICK i \in DOMAIN args : Places(c, args)[i] = "arg" /\ args[i] \in {"-o", "--output", "-opt"}
    BY <1>3 DEF Sets
  <2>2. args[i] # "-opt"
    BY <1>2, <1>3, <2>1
  <2> QED
    BY <2>1, <2>2 DEF Sets
<1>4. ~(Sets(c, args, {"--explain"}) /\ Sets(c, args, {"-o", "--output", "-opt"}))
  BY DEF Misused
<1> QED
  BY <1>3, <1>4 DEF Asked, Parsed

LEMMA OptionsAreTyped ==
    ASSUME NEW c \in Commands, NEW args
    PROVE  Parsed(c, args) \in Options /\ Parsed(c, args).command = c
BY DEF Parsed, Options, Sets

----------------------------------------------------------------------------
(* Each step: the types, the path, what is known of its process, and that  *)
(* it leaves the other processes alone.                                    *)

LEMMA ErrorsAreTyped ==
    ASSUME NEW p \in Procs
    PROVE  /\ Failure \in Errors /\ Misuse \in Errors /\ NoError \in Errors
           /\ WriteFailure(p) \in Errors /\ ExitWith(FindingsCode(p)) \in Errors
BY DEF Errors, Failure, Misuse, NoError, WriteFailure, ExitWith, FindingsCode

LEMMA ValuesAreTyped ==
    ASSUME TypeOK, NEW p \in Procs
    PROVE  /\ [stdout |-> out[p].stdout, stderr |-> "part"] \in Outputs
           /\ [stdout |-> out[p].stdout, stderr |-> "whole"] \in Outputs
           /\ [stdout |-> "part", stderr |-> out[p].stderr] \in Outputs
           /\ [stdout |-> "whole", stderr |-> out[p].stderr] \in Outputs
           /\ Ended(err[p], done[p]) \in Exits
<1>1. out[p] \in Outputs /\ err[p] \in Errors
  BY DEF TypeOK
<1>2. Ended(err[p], done[p]) \in Exits
  BY <1>1 DEF Ended, Finished, Exits, Errors
<1> QED
  BY <1>1, <1>2 DEF Outputs

LEMMA CacheOptionsStep ==
    ASSUME Inv, NEW p \in Procs, CacheOptions(p)
    PROVE  TypeOK' /\ Pathed' /\ Local(p)' /\ Same(p)
<1>1. TypeOK
  BY DEF Inv
<1>2. TypeOK'
  <2>1. pc' \in [Procs -> Pcs]
    BY <1>1 DEF TypeOK, Pcs, CacheOptions, Returns, Goes, history
  <2>2. err' \in [Procs -> Errors]
    BY <1>1, ErrorsAreTyped DEF TypeOK, CacheOptions, Returns, Goes, history
  <2> QED
    BY <1>1, <2>1, <2>2 DEF TypeOK, CacheOptions, Returns, Goes, history
<1>3. Same(p)
  BY <1>1 DEF TypeOK, Same, CacheOptions, Returns, Goes, Failure, history
<1>4. Local(p)'
  BY <1>1, <1>2, ConstantsOK DEF Inv, TypeOK, Pathed, Pcs, Options, Errors, Verdicts, Outputs,
     TempFiles, Exits, Local, Lined, Temps, Keeps, Publishes, Going, Ending, Tells, Asked,
     Finished, Replacing, Before, Over, CacheOptions, Returns, Goes, Failure, history
<1>5. Pathed'
  BY DEF Inv, Pathed, CacheOptions, Returns, Goes, Failure, history
<1> QED
  BY <1>2, <1>3, <1>4, <1>5

LEMMA NewEngineStep ==
    ASSUME Inv, NEW p \in Procs, NewEngine(p)
    PROVE  TypeOK' /\ Pathed' /\ Local(p)' /\ Same(p)
<1>1. TypeOK
  BY DEF Inv
<1>2. TypeOK'
  <2>1. pc' \in [Procs -> Pcs]
    BY <1>1 DEF TypeOK, Pcs, NewEngine, Returns, Goes, history
  <2>2. err' \in [Procs -> Errors]
    BY <1>1, ErrorsAreTyped DEF TypeOK, NewEngine, Returns, Goes, history
  <2> QED
    BY <1>1, <2>1, <2>2 DEF TypeOK, NewEngine, Returns, Goes, history
<1>3. Same(p)
  BY <1>1 DEF TypeOK, Same, NewEngine, Returns, Goes, Failure, history
<1>4. Local(p)'
  BY <1>1, <1>2, ConstantsOK DEF Inv, TypeOK, Pathed, Pcs, Options, Errors, Verdicts, Outputs,
     TempFiles, Exits, Local, Lined, Temps, Keeps, Publishes, Going, Ending, Tells, Asked,
     Finished, Replacing, Before, Over, NewEngine, Returns, Goes, Failure, history
<1>5. Pathed'
  BY DEF Inv, Pathed, NewEngine, Returns, Goes, Failure, history
<1> QED
  BY <1>2, <1>3, <1>4, <1>5

LEMMA EngineRunsStep ==
    ASSUME Inv, NEW p \in Procs, EngineRuns(p)
    PROVE  TypeOK' /\ Pathed' /\ Local(p)' /\ Same(p)
<1>1. TypeOK
  BY DEF Inv
<1>2. TypeOK'
  <2>1. pc' \in [Procs -> Pcs]
    BY <1>1 DEF TypeOK, Pcs, EngineRuns, Returns, Goes, history
  <2>2. err' \in [Procs -> Errors]
    BY <1>1, ErrorsAreTyped DEF TypeOK, EngineRuns, Returns, Goes, history
  <2>3. verdict' \in [Procs -> Verdicts]
    <3>1. CASE UNCHANGED verdict
      BY <1>1, <3>1 DEF TypeOK
    <3>2. CASE \E d, f \in BOOLEAN : verdict' = [verdict EXCEPT ![p] = [doc |-> d, failed |-> f]]
      <4>1. PICK v \in Verdicts : verdict' = [verdict EXCEPT ![p] = v]
        BY <3>2 DEF Verdicts
      <4> QED
        BY <1>1, <4>1 DEF TypeOK
    <3> QED
      BY <3>1, <3>2 DEF EngineRuns
  <2> QED
    BY <1>1, <2>1, <2>2, <2>3 DEF TypeOK, EngineRuns, Returns, Goes, history
<1>3. Same(p)
  BY <1>1 DEF TypeOK, Same, EngineRuns, Returns, Goes, Failure, history
<1>4. Local(p)'
  BY <1>1, <1>2, ConstantsOK DEF Inv, TypeOK, Pathed, Pcs, Options, Errors, Verdicts, Outputs,
     TempFiles, Exits, Local, Lined, Temps, Keeps, Publishes, Going, Ending, Tells, Asked,
     Finished, Replacing, Before, Over, EngineRuns, Returns, Goes, Failure, history
<1>5. Pathed'
  BY DEF Inv, Pathed, EngineRuns, Returns, Goes, Failure, history
<1> QED
  BY <1>2, <1>3, <1>4, <1>5

LEMMA WriteDiagnosticsStep ==
    ASSUME Inv, NEW p \in Procs, WriteDiagnostics(p)
    PROVE  TypeOK' /\ Pathed' /\ Local(p)' /\ Same(p)
<1>1. TypeOK
  BY DEF Inv
<1>2. TypeOK'
  <2>1. pc' \in [Procs -> Pcs]
    BY <1>1 DEF TypeOK, Pcs, WriteDiagnostics, Returns, Goes, AfterReport, history
  <2>2. err' \in [Procs -> Errors]
    BY <1>1, ErrorsAreTyped DEF TypeOK, WriteDiagnostics, Returns, Goes, AfterReport, history
  <2>3. out' \in [Procs -> Outputs]
    <3>1. PICK o \in Outputs : out' = [out EXCEPT ![p] = o]
      BY <1>1, ValuesAreTyped, Zenon DEF WriteDiagnostics
    <3> QED
      BY <1>1, <3>1 DEF TypeOK
  <2> QED
    BY <1>1, <2>1, <2>2, <2>3 DEF TypeOK, WriteDiagnostics, Returns, Goes, AfterReport, history
<1>3. Same(p)
  BY <1>1 DEF TypeOK, Same, WriteDiagnostics, Returns, Goes, WriteFailure, FindingsCode,
     AfterReport, history
<1>4. Local(p)'
  BY <1>1, <1>2, ConstantsOK DEF Inv, TypeOK, Pathed, Pcs, Options, Errors, Verdicts, Outputs,
     TempFiles, Exits, Local, Lined, Temps, Keeps, Publishes, Going, Ending, Tells, Asked,
     Finished, Replacing, Before, Over, WriteDiagnostics, Returns, Goes, WriteFailure,
     FindingsCode, AfterReport, history
<1>5. Pathed'
  BY DEF Inv, Pathed, WriteDiagnostics, Returns, Goes, WriteFailure, FindingsCode, AfterReport,
     history
<1> QED
  BY <1>2, <1>3, <1>4, <1>5

LEMMA VerdictStep ==
    ASSUME Inv, NEW p \in Procs, Verdict(p)
    PROVE  TypeOK' /\ Pathed' /\ Local(p)' /\ Same(p)
<1>1. TypeOK
  BY DEF Inv
<1>2. TypeOK'
  <2>1. pc' \in [Procs -> Pcs]
    BY <1>1 DEF TypeOK, Pcs, Verdict, Returns, Goes, history
  <2>2. err' \in [Procs -> Errors]
    BY <1>1, ErrorsAreTyped DEF TypeOK, Verdict, Returns, Goes, history
  <2> QED
    BY <1>1, <2>1, <2>2 DEF TypeOK, Verdict, Returns, Goes, history
<1>3. Same(p)
  BY <1>1 DEF TypeOK, Same, Verdict, Returns, Goes, ExitWith, FindingsCode, NoError, history
<1>4. Local(p)'
  BY <1>1, <1>2, ConstantsOK DEF Inv, TypeOK, Pathed, Pcs, Options, Errors, Verdicts, Outputs,
     TempFiles, Exits, Local, Lined, Temps, Keeps, Publishes, Going, Ending, Tells, Asked,
     Finished, Replacing, Before, Over, Verdict, Returns, Goes, ExitWith, FindingsCode, NoError,
     history
<1>5. Pathed'
  BY DEF Inv, Pathed, Verdict, Returns, Goes, ExitWith, FindingsCode, NoError, history
<1> QED
  BY <1>2, <1>3, <1>4, <1>5

LEMMA BeforeStdoutStep ==
    ASSUME Inv, NEW p \in Procs, BeforeStdout(p)
    PROVE  TypeOK' /\ Pathed' /\ Local(p)' /\ Same(p)
<1>1. TypeOK
  BY DEF Inv
<1>2. TypeOK'
  <2>1. pc' \in [Procs -> Pcs]
    BY <1>1 DEF TypeOK, Pcs, BeforeStdout, Returns, Goes, history
  <2>2. err' \in [Procs -> Errors]
    BY <1>1, ErrorsAreTyped DEF TypeOK, BeforeStdout, Returns, Goes, history
  <2> QED
    BY <1>1, <2>1, <2>2 DEF TypeOK, BeforeStdout, Returns, Goes, history
<1>3. Same(p)
  BY <1>1 DEF TypeOK, Same, BeforeStdout, Returns, Goes, Failure, WriteFailure, FindingsCode,
     history
<1>4. Local(p)'
  BY <1>1, <1>2, ConstantsOK DEF Inv, TypeOK, Pathed, Pcs, Options, Errors, Verdicts, Outputs,
     TempFiles, Exits, Local, Lined, Temps, Keeps, Publishes, Going, Ending, Tells, Asked,
     Finished, Replacing, Before, Over, BeforeStdout, Returns, Goes, Failure, WriteFailure,
     FindingsCode, history
<1>5. Pathed'
  BY DEF Inv, Pathed, BeforeStdout, Returns, Goes, Failure, WriteFailure, FindingsCode, history
<1> QED
  BY <1>2, <1>3, <1>4, <1>5

LEMMA ToStdoutStep ==
    ASSUME Inv, NEW p \in Procs, ToStdout(p)
    PROVE  TypeOK' /\ Pathed' /\ Local(p)' /\ Same(p)
<1>1. TypeOK
  BY DEF Inv
<1>2. TypeOK'
  <2>1. pc' \in [Procs -> Pcs]
    BY <1>1 DEF TypeOK, Pcs, ToStdout, Returns, Goes, history
  <2>2. err' \in [Procs -> Errors]
    BY <1>1, ErrorsAreTyped DEF TypeOK, ToStdout, Returns, Goes, history
  <2>3. out' \in [Procs -> Outputs]
    <3>1. PICK o \in Outputs : out' = [out EXCEPT ![p] = o]
      BY <1>1, ValuesAreTyped, Zenon DEF ToStdout
    <3> QED
      BY <1>1, <3>1 DEF TypeOK
  <2> QED
    BY <1>1, <2>1, <2>2, <2>3 DEF TypeOK, ToStdout, Returns, Goes, history
<1>3. Same(p)
  BY <1>1 DEF TypeOK, Same, ToStdout, Returns, Goes, WriteFailure, FindingsCode, ExitWith,
     NoError, history
<1>4. Local(p)'
  BY <1>1, <1>2, ConstantsOK DEF Inv, TypeOK, Pathed, Pcs, Options, Errors, Verdicts, Outputs,
     TempFiles, Exits, Local, Lined, Temps, Keeps, Publishes, Going, Ending, Tells, Asked,
     Finished, Replacing, Before, Over, ToStdout, Returns, Goes, WriteFailure, FindingsCode,
     ExitWith, NoError, history
<1>5. Pathed'
  BY DEF Inv, Pathed, ToStdout, Returns, Goes, WriteFailure, FindingsCode, ExitWith, NoError,
     history
<1> QED
  BY <1>2, <1>3, <1>4, <1>5

LEMMA PendingStep ==
    ASSUME Inv, NEW p \in Procs, Pending(p)
    PROVE  TypeOK' /\ Pathed' /\ Local(p)' /\ Same(p)
<1>1. TypeOK
  BY DEF Inv
<1>2. TypeOK'
  <2>1. pc' \in [Procs -> Pcs]
    BY <1>1 DEF TypeOK, Pcs, Pending, Returns, Goes, history
  <2>2. err' \in [Procs -> Errors]
    BY <1>1, ErrorsAreTyped DEF TypeOK, Pending, Returns, Goes, history
  <2>3. temp' \in [Procs -> {None} \cup TempFiles]
    <3> DEFINE new == [content |-> "part", mode |-> IF path = None THEN NewMode ELSE None,
                       keep |-> IF path = None THEN NewMode ELSE path.mode]
    <3>1. new \in TempFiles
      BY ConstantsOK DEF Inv, Pathed, TempFiles
    <3> HIDE DEF new
    <3>2. temp' = temp \/ temp' = [temp EXCEPT ![p] = new]
      BY DEF Pending, new
    <3> QED
      BY <1>1, <3>1, <3>2 DEF TypeOK
  <2> QED
    BY <1>1, <2>1, <2>2, <2>3 DEF TypeOK, Pending, Returns, Goes, history
<1>3. Same(p)
  BY <1>1 DEF TypeOK, Same, Pending, Returns, Goes, WriteFailure, FindingsCode, history
<1>4. Local(p)'
  BY <1>1, <1>2, ConstantsOK DEF Inv, TypeOK, Pathed, Pcs, Options, Errors, Verdicts, Outputs,
     TempFiles, Exits, Local, Lined, Temps, Keeps, Publishes, Going, Ending, Tells, Asked,
     Finished, Replacing, Before, Over, Pending, Returns, Goes, WriteFailure, FindingsCode,
     history
<1>5. Pathed'
  BY DEF Inv, Pathed, Pending, Returns, Goes, WriteFailure, FindingsCode, history
<1> QED
  BY <1>2, <1>3, <1>4, <1>5

LEMMA ChmodStep ==
    ASSUME Inv, NEW p \in Procs, Chmod(p)
    PROVE  TypeOK' /\ Pathed' /\ Local(p)' /\ Same(p)
<1>1. TypeOK
  BY DEF Inv
<1>2. TypeOK'
  <2>1. pc' \in [Procs -> Pcs]
    BY <1>1 DEF TypeOK, Pcs, Chmod, Returns, Goes, Abandon, history
  <2>2. err' \in [Procs -> Errors]
    BY <1>1, ErrorsAreTyped DEF TypeOK, Chmod, Returns, Goes, Abandon, history
  <2>3. temp' \in [Procs -> {None} \cup TempFiles]
    <3>1. temp[p] \in TempFiles
      BY DEF Inv, Local, Temps, Replacing, Chmod
    <3>2. [content |-> temp[p].content, mode |-> temp[p].keep, keep |-> temp[p].keep] \in TempFiles
      BY <3>1 DEF TempFiles
    <3> QED
      BY <1>1, <3>2 DEF TypeOK, Chmod, Abandon
  <2>4. kept' \in SUBSET Procs
    BY <1>1 DEF TypeOK, Chmod, Returns, Goes, Abandon, history
  <2> QED
    BY <1>1, <2>1, <2>2, <2>3, <2>4 DEF TypeOK, Chmod, Returns, Goes, Abandon, history
<1>3. Same(p)
  BY <1>1 DEF TypeOK, Same, Chmod, Returns, Goes, WriteFailure, FindingsCode, Abandon, history
<1>4. Local(p)'
  <2>1. CASE Returns(p, "chmod", WriteFailure(p)) /\ Abandon(p)
    BY <1>1, <1>2, ConstantsOK, <2>1 DEF Inv, TypeOK, Pathed, Pcs, Options, Errors, Verdicts,
       Outputs, TempFiles, Exits, Local, Lined, Temps, Keeps, Publishes, Going, Ending, Tells,
       Asked, Finished, Replacing, Before, Over, Chmod, Returns, Goes, WriteFailure,
       FindingsCode, Abandon, history
  <2>2. CASE ~(Returns(p, "chmod", WriteFailure(p)) /\ Abandon(p))
    <3>1. /\ pc[p] = "chmod" /\ pc'[p] = "fill" /\ temp[p] \in TempFiles
          /\ temp'[p].keep = temp[p].keep /\ temp'[p].mode = temp[p].keep
      BY <1>1, <2>2 DEF TypeOK, Inv, Local, Temps, Replacing, Chmod, Goes
    <3>2. Temps(p)' /\ Keeps(p)'
      BY <1>1, <1>2, <2>2, <3>1 DEF TypeOK, TempFiles, Inv, Local, Temps, Keeps, Replacing,
         Chmod, Goes, history
    <3>3. Lined(p)' /\ Publishes(p)' /\ Going(p)' /\ Ending(p)' /\ Tells(p)'
      BY <1>1, <2>2, <3>1 DEF TypeOK, Inv, Local, Lined, Publishes, Going, Ending, Tells, Asked,
         Chmod, Goes, history, Before, Over, Replacing
    <3> QED
      BY <3>2, <3>3 DEF Local
  <2> QED
    BY <2>1, <2>2
<1>5. Pathed'
  BY DEF Inv, Pathed, Chmod, Returns, Goes, WriteFailure, FindingsCode, Abandon, history
<1> QED
  BY <1>2, <1>3, <1>4, <1>5

LEMMA FillStep ==
    ASSUME Inv, NEW p \in Procs, Fill(p)
    PROVE  TypeOK' /\ Pathed' /\ Local(p)' /\ Same(p)
<1>1. TypeOK
  BY DEF Inv
<1>2. TypeOK'
  <2>1. pc' \in [Procs -> Pcs]
    BY <1>1 DEF TypeOK, Pcs, Fill, Returns, Goes, Abandon, history
  <2>2. err' \in [Procs -> Errors]
    BY <1>1, ErrorsAreTyped DEF TypeOK, Fill, Returns, Goes, Abandon, history
  <2>3. temp' \in [Procs -> {None} \cup TempFiles]
    <3>1. temp[p] \in TempFiles
      BY DEF Inv, Local, Temps, Replacing, Fill
    <3>2. [content |-> "whole", mode |-> temp[p].mode, keep |-> temp[p].keep] \in TempFiles
      BY <3>1 DEF TempFiles
    <3> QED
      BY <1>1, <3>2 DEF TypeOK, Fill, Abandon
  <2>4. kept' \in SUBSET Procs
    BY <1>1 DEF TypeOK, Fill, Returns, Goes, Abandon, history
  <2> QED
    BY <1>1, <2>1, <2>2, <2>3, <2>4 DEF TypeOK, Fill, Returns, Goes, Abandon, history
<1>3. Same(p)
  BY <1>1 DEF TypeOK, Same, Fill, Returns, Goes, WriteFailure, FindingsCode, Abandon, history
<1>4. Local(p)'
  BY <1>1, <1>2, ConstantsOK DEF Inv, TypeOK, Pathed, Pcs, Options, Errors, Verdicts, Outputs,
     TempFiles, Exits, Local, Lined, Temps, Keeps, Publishes, Going, Ending, Tells, Asked,
     Finished, Replacing, Before, Over, Fill, Returns, Goes, WriteFailure, FindingsCode,
     Abandon, history
<1>5. Pathed'
  BY DEF Inv, Pathed, Fill, Returns, Goes, WriteFailure, FindingsCode, Abandon, history
<1> QED
  BY <1>2, <1>3, <1>4, <1>5

LEMMA ExecuteStep ==
    ASSUME Inv, NEW p \in Procs, Execute(p)
    PROVE  TypeOK' /\ Pathed' /\ Local(p)' /\ Same(p)
<1>1. TypeOK
  BY DEF Inv
<1>2. TypeOK'
  <2>1. pc' \in [Procs -> Pcs]
    BY <1>1 DEF TypeOK, Pcs, Execute, Goes, history
  <2>2. exit' \in [Procs -> Exits]
    BY <1>1, ValuesAreTyped DEF TypeOK, Execute, Goes, history
  <2> QED
    BY <1>1, <2>1, <2>2 DEF TypeOK, Execute, Goes, history
<1>3. Same(p)
  BY <1>1 DEF TypeOK, Same, Execute, Goes, Ended, history
<1>4. Local(p)'
  <2> DEFINE e == Ended(err[p], done[p])
  <2>0. pc[p] = "end" /\ pc' = [pc EXCEPT ![p] = "exited"] /\ exit'[p] = e /\ err[p] \in Errors
    BY <1>1 DEF TypeOK, Execute, Goes
  <2>1. /\ e.code = 0 => err[p].code = 0
        /\ e.code = 1 => err[p].code = 1
        /\ e.said # "stopped" /\ err[p].code = 1 => e.code = 1
        /\ e.said # "stopped" => ~(done[p] /\ ~Finished(err[p]))
        /\ e.said = "stopped" => done[p] /\ ~Finished(err[p])
    BY <2>0 DEF Ended, Finished, Errors
  <2> HIDE DEF e
  <2>2. Ending(p) /\ Lined(p) /\ Temps(p) /\ Publishes(p)
    BY DEF Inv, Local
  <2>3. Tells(p)'
    BY <1>1, <2>0, <2>1, <2>2 DEF TypeOK, Tells, Ending, Execute, history
  <2>4. Ending(p)' /\ Lined(p)' /\ Temps(p)' /\ Publishes(p)' /\ Going(p)' /\ Keeps(p)'
    BY <1>1, <2>0, <2>2 DEF TypeOK, Ending, Lined, Asked, Temps, Publishes, Going, Keeps,
       Execute, history, Before, Over, Replacing
  <2> QED
    BY <2>3, <2>4 DEF Local
<1>5. Pathed'
  BY DEF Inv, Pathed, Execute, Goes, Ended, history
<1> QED
  BY <1>2, <1>3, <1>4, <1>5

LEMMA SignalStep ==
    ASSUME Inv, NEW p \in Procs, Signal(p)
    PROVE  TypeOK' /\ Pathed' /\ Local(p)' /\ Same(p)
<1>1. TypeOK
  BY DEF Inv
<1>2. TypeOK'
  <2>1. done' \in [Procs -> BOOLEAN]
    BY <1>1 DEF TypeOK, Signal, history
  <2>2. at' \in [Procs -> Pcs \cup {"nowhere"}]
    BY <1>1 DEF TypeOK, Signal, history
  <2> QED
    BY <1>1, <2>1, <2>2 DEF TypeOK, Signal, history
<1>3. Same(p)
  BY <1>1 DEF TypeOK, Same, Signal, history
<1>4. Local(p)'
  BY <1>1, <1>2, ConstantsOK DEF Inv, TypeOK, Pathed, Pcs, Options, Errors, Verdicts, Outputs,
     TempFiles, Exits, Local, Lined, Temps, Keeps, Publishes, Going, Ending, Tells, Asked,
     Finished, Replacing, Before, Over, Signal, history
<1>5. Pathed'
  BY DEF Inv, Pathed, Signal, history
<1> QED
  BY <1>2, <1>3, <1>4, <1>5

LEMMA KillStep ==
    ASSUME Inv, NEW p \in Procs, Kill(p)
    PROVE  TypeOK' /\ Pathed' /\ Local(p)' /\ Same(p)
<1>1. TypeOK
  BY DEF Inv
<1>2. TypeOK'
  <2>1. pc' \in [Procs -> Pcs]
    BY <1>1 DEF TypeOK, Pcs, Kill, history
  <2> QED
    BY <1>1, <2>1 DEF TypeOK, Kill, history
<1>3. Same(p)
  BY <1>1 DEF TypeOK, Same, Kill, history
<1>4. Local(p)'
  BY <1>1, <1>2, ConstantsOK DEF Inv, TypeOK, Pathed, Pcs, Options, Errors, Verdicts, Outputs,
     TempFiles, Exits, Local, Lined, Temps, Keeps, Publishes, Going, Ending, Tells, Asked,
     Finished, Replacing, Before, Over, Kill, history
<1>5. Pathed'
  BY DEF Inv, Pathed, Kill, history
<1> QED
  BY <1>2, <1>3, <1>4, <1>5

LEMMA ParseStep ==
    ASSUME Inv, NEW p \in Procs, Parse(p)
    PROVE  TypeOK' /\ Pathed' /\ Local(p)' /\ Same(p)
<1>1. TypeOK
  BY DEF Inv
<1>2. PICK r \in Readings :
         IF r.misused THEN Returns(p, "args", Misuse) /\ UNCHANGED line
         ELSE /\ line' = [line EXCEPT ![p] = r.options]
              /\ IF r.options.command = "help"
                 THEN \E e \in {NoError, Misuse} : Returns(p, "args", e)
                 ELSE Goes(p, "args", "cache") /\ UNCHANGED err
  BY DEF Parse
<1>3. PICK c \in Commands, args \in Lines : r = [misused |-> Misused(c, args), options |-> Parsed(c, args)]
  BY DEF Readings
<1>4. /\ r.misused = Misused(c, args) /\ r.options = Parsed(c, args)
      /\ r.options \in Options /\ (~r.misused => Asked(r.options))
  BY <1>3, OptionsAreTyped, OptionsAreAsked
<1>5. TypeOK'
  BY <1>1, <1>2, <1>4, ErrorsAreTyped DEF TypeOK, Pcs, Parse, Returns, Goes, history
<1>6. Same(p)
  BY <1>1, <1>2 DEF TypeOK, Same, Parse, Returns, Goes, history
<1>7. Lined(p) /\ Temps(p) /\ Publishes(p) /\ Going(p) /\ pc[p] = "args"
  BY <1>2 DEF Inv, Local, Returns, Goes
<1>8. Lined(p)'
  BY <1>1, <1>2, <1>4, <1>7 DEF TypeOK, Lined, Asked, Parse, Returns, Goes, Over
<1>9. Local(p)'
  BY <1>1, <1>2, <1>7, <1>8 DEF TypeOK, Local, Temps, Keeps, Publishes, Going, Ending, Tells,
     Finished,
     Replacing, Before, Over, Parse, Returns, Goes, Misuse, NoError, history
<1>10. Pathed'
  BY DEF Inv, Pathed, Parse, history
<1> QED
  BY <1>5, <1>6, <1>9, <1>10

\* A rename publishes the whole file, with the mode the path has, and leaves what
\* the other replacements mean to give the path as it is.
LEMMA RenameStep ==
    ASSUME Inv, NEW p \in Procs, Rename(p)
    PROVE  /\ TypeOK' /\ Pathed' /\ Local(p)' /\ Same(p)
           /\ \A q \in Procs : q # p => Keeps(q)'
           /\ path # None => path' # None /\ path'.mode = path.mode
<1>1. TypeOK
  BY DEF Inv
<1>2. /\ pc[p] = "rename" /\ temp[p] \in TempFiles /\ temp[p].content = "whole"
      /\ temp[p].mode = temp[p].keep /\ temp[p].keep \in Modes
      /\ temp[p].keep = IF path = None THEN NewMode ELSE path.mode
  BY DEF Inv, Local, Temps, Keeps, Replacing, TempFiles, Rename
<1>3. CASE Returns(p, "rename", WriteFailure(p)) /\ Abandon(p) /\ UNCHANGED <<path, published>>
  <2>1. TypeOK'
    <3>1. pc' \in [Procs -> Pcs]
      BY <1>1, <1>3 DEF TypeOK, Pcs, Returns, Goes
    <3>2. err' \in [Procs -> Errors]
      BY <1>1, <1>3, ErrorsAreTyped DEF TypeOK, Returns
    <3>3. temp' \in [Procs -> {None} \cup TempFiles] /\ kept' \subseteq Procs
      BY <1>1, <1>3 DEF TypeOK, Abandon
    <3> QED
      BY <1>1, <1>3, <3>1, <3>2, <3>3 DEF TypeOK, Rename
  <2>2. Same(p)
    BY <1>1, <1>3 DEF TypeOK, Same, Rename, Returns, Goes, Abandon
  <2>3. Local(p)'
    <3>1. /\ pc'[p] = "end" /\ err'[p] = WriteFailure(p) /\ line'[p] = line[p]
          /\ verdict'[p] = verdict[p] /\ out'[p] = out[p] /\ published' = published
          /\ temp'[p] = None \/ p \in kept'
      BY <1>1, <1>3 DEF TypeOK, Rename, Returns, Goes, Abandon
    <3>2. p \notin published /\ out[p].stdout = "none" /\ Asked(line[p]) /\ verdict[p].failed \in BOOLEAN
      BY <1>1, <1>2 DEF TypeOK, Verdicts, Inv, Local, Publishes, Going, Lined, Before, Over
    <3>3. Lined(p)' /\ Temps(p)' /\ Keeps(p)' /\ Publishes(p)'
      BY <3>1, <3>2 DEF Lined, Asked, Temps, Keeps, Publishes, Replacing, Over
    <3>4. Going(p)' /\ Ending(p)' /\ Tells(p)'
      BY <3>1, <3>2 DEF Going, Ending, Tells, Before, Over, Replacing, Finished, WriteFailure,
         FindingsCode
    <3> QED
      BY <3>3, <3>4 DEF Local
  <2>4. Pathed' /\ \A q \in Procs : q # p => Keeps(q)'
    BY <1>3, <2>2 DEF Inv, Local, Pathed, Keeps, Same
  <2> QED
    BY <1>3, <2>1, <2>2, <2>3, <2>4
<1>4. CASE /\ Returns(p, "rename", ExitWith(FindingsCode(p)))
           /\ path' = [content |-> temp[p].content, by |-> p, mode |-> temp[p].mode]
           /\ temp' = [temp EXCEPT ![p] = None]
           /\ published' = published \cup {p} /\ UNCHANGED kept
  <2>1. path' \in Files /\ path'.content = "whole" /\ path'.mode = temp[p].keep
    BY <1>2, <1>4 DEF Files
  <2>2. path' # None
    BY <2>1, NoneOK DEF Files
  <2>3. TypeOK'
    <3>1. pc' \in [Procs -> Pcs]
      BY <1>1, <1>4 DEF TypeOK, Pcs, Returns, Goes
    <3>2. err' \in [Procs -> Errors]
      BY <1>1, <1>4, ErrorsAreTyped DEF TypeOK, Returns
    <3>3. temp' \in [Procs -> {None} \cup TempFiles] /\ published' \subseteq Procs
      BY <1>1, <1>4 DEF TypeOK
    <3> QED
      BY <1>1, <1>4, <2>1, <3>1, <3>2, <3>3 DEF TypeOK, Rename
  <2>4. Same(p)
    BY <1>1, <1>4 DEF TypeOK, Same, Rename, Returns, Goes
  <2>5. Local(p)'
    <3>1. /\ pc'[p] = "end" /\ temp'[p] = None /\ p \in published'
          /\ err'[p] = ExitWith(FindingsCode(p)) /\ line'[p] = line[p]
          /\ verdict'[p] = verdict[p] /\ out'[p] = out[p]
      BY <1>1, <1>4 DEF TypeOK, Rename, Returns, Goes
    <3>2. /\ line[p].file /\ line[p].command # "help" /\ Asked(line[p])
          /\ out[p].stderr = "whole" /\ verdict[p].failed \in BOOLEAN
      BY <1>1, <1>2 DEF TypeOK, Verdicts, Inv, Local, Going, Lined, Before, Over, Replacing
    <3>3. Lined(p)' /\ Temps(p)' /\ Keeps(p)' /\ Publishes(p)'
      BY <3>1, <3>2 DEF Lined, Asked, Temps, Keeps, Publishes, Replacing, Over, Finished,
         ExitWith, NoError
    <3>4. Going(p)' /\ Ending(p)' /\ Tells(p)'
      BY <3>1, <3>2 DEF Going, Ending, Tells, Before, Over, Replacing, Finished, ExitWith,
         FindingsCode, NoError
    <3> QED
      BY <3>3, <3>4 DEF Local
  <2>6. \A q \in Procs : q # p => Keeps(q)'
    BY <1>2, <2>1, <2>2, <2>4 DEF Inv, Local, Keeps, Same
  <2> QED
    BY <1>2, <2>1, <2>2, <2>3, <2>4, <2>5, <2>6 DEF Pathed
<1> QED
  BY <1>3, <1>4 DEF Rename

\* What is known of a process stays known while another takes a step.
LEMMA OthersKeep ==
    ASSUME NEW p \in Procs, NEW q \in Procs, q # p, Same(p), Local(q), Keeps(q)'
    PROVE  Local(q)'
<1>1. Lined(q)' /\ Temps(q)' /\ Publishes(q)' /\ Going(q)'
  BY DEF Same, Local, Lined, Temps, Publishes, Going
<1>2. Ending(q)' /\ Tells(q)'
  BY DEF Same, Local, Ending, Tells
<1> QED
  BY <1>1, <1>2 DEF Local

----------------------------------------------------------------------------
LEMMA InvInit == Init => Inv
<1> SUFFICES ASSUME Init PROVE Inv
  OBVIOUS
<1>1. Parsed("help", <<>>) \in Options /\ Parsed("help", <<>>).command = "help"
  BY OptionsAreTyped DEF Commands
<1>2. TypeOK
  BY <1>1, ConstantsOK DEF Init, TypeOK, Pcs, Errors, NoError, Verdicts, Outputs, Exits, Files
<1>3. Pathed
  BY DEF Init, Pathed
<1>4. ASSUME NEW p \in Procs PROVE Local(p)
  BY <1>1 DEF Init, Local, Lined, Asked, Temps, Keeps, Publishes, Going, Ending, Tells, Before,
     Over, Replacing
<1> QED
  BY <1>2, <1>3, <1>4 DEF Inv

\* Every step leaves the invariant and the mode of the path.
LEMMA InvNext ==
    ASSUME Inv, Next
    PROVE  Inv' /\ (path # None => path' # None /\ path'.mode = path.mode)
<1>1. PICK p \in Procs : Step(p) \/ Signal(p) \/ Kill(p)
  BY DEF Next
<1>2. CASE Rename(p)
  <2>1. \A q \in Procs : Local(q)'
    BY <1>2, RenameStep, OthersKeep DEF Inv
  <2> QED
    BY <1>2, <2>1, RenameStep DEF Inv
<1>3. CASE ~Rename(p)
  <2>1. path' = path
    BY <1>1, <1>3 DEF Step, Parse, CacheOptions, NewEngine, EngineRuns, WriteDiagnostics,
       Verdict, BeforeStdout,
       ToStdout, Pending, Chmod, Fill, Execute, Signal, Kill
  <2>2. TypeOK' /\ Pathed' /\ Local(p)' /\ Same(p)
    BY <1>1, <1>3, ParseStep, CacheOptionsStep, NewEngineStep, EngineRunsStep,
       WriteDiagnosticsStep, VerdictStep,
       BeforeStdoutStep, ToStdoutStep, PendingStep, ChmodStep, FillStep, ExecuteStep, SignalStep, KillStep DEF Step
  <2>3. \A q \in Procs : q # p => Keeps(q)'
    BY <2>1, <2>2 DEF Inv, Local, Keeps, Same
  <2>4. \A q \in Procs : Local(q)'
    BY <2>2, <2>3, OthersKeep DEF Inv
  <2> QED
    BY <2>1, <2>2, <2>4 DEF Inv
<1> QED
  BY <1>2, <1>3

LEMMA InvStutter == Inv /\ UNCHANGED vars => Inv'
BY DEF vars, Inv, TypeOK, Pathed, Local, Lined, Asked, Temps, Keeps, Publishes, Going, Ending,
   Tells, Finished

LEMMA InvHolds == Spec => []Inv
<1>1. Inv /\ [Next]_vars => Inv'
  BY InvNext, InvStutter
<1> QED
  BY <1>1, InvInit, PTL DEF Spec

\* Whatever fails, whenever a signal or a kill comes and however the processes that
\* name the output path interleave, the path holds a whole document, one is published
\* only for a user who asked for a file, and a process that exits leaves no temporary
\* file it could remove (atomicfile.replace, singleDashLongFlags).
THEOREM OutputIsSafe == Spec => []OutputSafe
<1>1. Inv => OutputSafe
  BY DEF Inv, OutputSafe, TypeOK, Pathed, Local, Temps, Publishes, Replacing
<1> QED
  BY <1>1, InvHolds, PTL

\* The exit code and what is said of a stop are true of what was delivered, for every
\* argument list (exit.go, writeFailureExit, execute).
THEOREM ExitsTellTrue == Spec => []ExitTells
<1>1. Inv => ExitTells
  BY DEF Inv, Local, Tells, ExitTells
<1> QED
  BY <1>1, InvHolds, PTL

\* No replacement changes the mode of the file at the output path (pendingFor's
\* chmod), though any number of processes replace it meanwhile.
THEOREM ModeIsKept == Spec => ModeKept
<1>1. Inv /\ [Next]_vars => [path # None => path' # None /\ path'.mode = path.mode]_path
  BY InvNext DEF vars
<1> QED
  BY <1>1, InvHolds, PTL DEF Spec, ModeKept
=============================================================================
