------------------------------ MODULE Command ------------------------------
(***************************************************************************)
(* The command line: cmd/morphic, and under it engine/output and           *)
(* engine/internal/atomicfile, which write the document.                   *)
(*                                                                         *)
(* Each process of Procs runs the command once, and all of them name one   *)
(* output path.  A signal may come at any instant and ends the run's       *)
(* context; a process may also be killed outright.  The engine's run is    *)
(* one step here (module Pipeline has its inside): it fails, or answers    *)
(* with a verdict and with a document or none.                             *)
(***************************************************************************)
EXTENDS Naturals, Sequences, FiniteSets

CONSTANTS Procs,     \* the processes that run the command
          Modes,     \* permissions a file can have
          NewMode,   \* what the umask leaves of newFilePerm
          None,      \* no file
          Lines      \* the argument lists a process may be started with

ASSUME ConstantsOK == NewMode \in Modes /\ None \notin Modes
\* An argument list is a sequence of strings.
ASSUME LinesOK == Lines \subseteq Seq(STRING)
\* No file is not a file.
ASSUME NoneOK ==
    None \notin [content : {"part", "whole"}, by : Procs \cup {"before"}, mode : Modes \cup {None}]

VARIABLES
    pc,        \* where the run of each process has got to
    line,      \* what its arguments ask for
    done,      \* whether its context has ended
    verdict,   \* what the engine answered
    err,       \* the error its command returns
    out,       \* what has reached its stdout and stderr
    temp,      \* its temporary file, beside the output path
    path,      \* the file at the output path
    exit,      \* the exit code, and what reportError says ended the run
    at,        \* history: where the run was when the first signal came
    published, \* history: the processes whose rename took place
    kept       \* history: the processes that could not remove their file

vars == <<pc, line, done, verdict, err, out, temp, path, exit, at, published, kept>>

----------------------------------------------------------------------------
\* Arguments.  A token is known by how pflag reads it on its own.

Commands == {"compile", "validate", "help"}

\* The tokens that are flags of a command: validate has none of those that emit
\* a document, help none at all.
Flags(command) ==
    IF command = "compile" THEN {"-o", "--output", "--explain", "--opt", "--cache"}
    ELSE IF command = "validate" THEN {"--opt", "--cache"} ELSE {}

\* readAlone: every flag wants a value, "-opt" is a whole -o pt to pflag, and a
\* flag the command does not define is refused.
Reading(command, token) ==
    IF token = "--" THEN "endsFlags"
    ELSE IF token \in Flags(command) THEN "wantsValue"
    ELSE IF token \in {"spec", "other"} \/ (token = "-opt" /\ "-o" \in Flags(command))
    THEN "standsAlone"
    ELSE "refused"

\* What the argument at each place is read as: the walk of singleDashLongFlags,
\* which is pflag's own.
Places(command, args) ==
    LET place[i \in DOMAIN args] ==
          IF i = 1 THEN "arg"
          ELSE IF place[i - 1] = "operand" THEN "operand"
          ELSE IF place[i - 1] = "value" THEN "arg"
          ELSE LET r == Reading(command, args[i - 1])
               IN  IF r = "wantsValue" THEN "value"
                   ELSE IF r = "endsFlags" THEN "operand" ELSE "arg"
    IN  [i \in DOMAIN args |-> place[i]]

\* Mutant: pflag is left to read the flag as shorthands.
NeverRefused(command, args) == FALSE

\* singleDashLongFlags: a long flag the command defines, spelled with one dash,
\* where a flag is read and before the first token pflag refuses.
SingleDashLongFlags(command, args) ==
    \E i \in DOMAIN args :
      /\ args[i] = "-opt" /\ "--opt" \in Flags(command)
      /\ Places(command, args)[i] = "arg"
      /\ \A j \in 1 .. (i - 1) :
           Places(command, args)[j] = "arg" => Reading(command, args[j]) # "refused"

\* The operands: every argument that is neither a flag nor a flag's value.
Operands(command, args) ==
    {i \in DOMAIN args : \/ Places(command, args)[i] = "operand"
                         \/ Places(command, args)[i] = "arg" /\ args[i] \in {"spec", "other"}}

Sets(command, args, tokens) ==
    \E i \in DOMAIN args : Places(command, args)[i] = "arg" /\ args[i] \in tokens

\* What ends a command before it runs: the check of dashes, pflag's refusals,
\* specArgs, compileArgs and helpArgs.
Misused(command, args) ==
    LET last == args[Len(args)]
        toFile == Sets(command, args, {"-o", "--output", "-opt"})
    IN  \/ SingleDashLongFlags(command, args)
        \/ \E i \in DOMAIN args : /\ Places(command, args)[i] = "arg"
                                  /\ Reading(command, args[i]) = "refused"
        \/ /\ args # <<>> /\ Places(command, args)[Len(args)] = "arg"
           /\ Reading(command, last) = "wantsValue"
        \/ command # "help" /\ Cardinality(Operands(command, args)) # 1
        \/ command = "help" /\ Cardinality(Operands(command, args)) > 1
        \/ Sets(command, args, {"--explain"}) /\ toFile

\* compileOptions as the flags fill them; asked is what the user wrote.
Parsed(command, args) ==
    [command |-> command,
     cache   |-> Sets(command, args, {"--cache"}),
     explain |-> Sets(command, args, {"--explain"}),
     file    |-> Sets(command, args, {"-o", "--output", "-opt"}),
     asked   |-> Sets(command, args, {"-o", "--output"})]

----------------------------------------------------------------------------
\* Exit codes and errors.

NoError == [kind |-> "nil", code |-> 0]
ExitWith(code) == IF code = 0 THEN NoError ELSE [kind |-> "verdict", code |-> code]
Failure == [kind |-> "failure", code |-> 2]
Misuse == [kind |-> "usage", code |-> 2]

\* finished: no error, or one that carries only the verdict.
Finished(e) == e.kind \in {"nil", "verdict"}

\* The exit code of the findings, and of a run whose output could not be
\* written: the verdict on the spec keeps it.
FindingsCode(p) == IF verdict[p].failed THEN 1 ELSE 0

\* Mutant: every failed write exits 2.
WriteFailureAlwaysTwo(p) == [kind |-> "failure", code |-> 2]

WriteFailure(p) ==
    [kind |-> "failure", code |-> IF FindingsCode(p) # 0 THEN FindingsCode(p) ELSE 2]

\* execute: a run that failed once its context had ended was stopped.
Ended(e, stopped) ==
    IF stopped /\ ~Finished(e) THEN [code |-> 2, said |-> "stopped"]
    ELSE [code |-> e.code, said |-> IF Finished(e) THEN "nothing" ELSE e.kind]

----------------------------------------------------------------------------
Init ==
    /\ pc = [p \in Procs |-> "args"]
    /\ line = [p \in Procs |-> Parsed("help", <<>>)]
    /\ done = [p \in Procs |-> FALSE]
    /\ verdict = [p \in Procs |-> [doc |-> FALSE, failed |-> FALSE]]
    /\ err = [p \in Procs |-> NoError]
    /\ out = [p \in Procs |-> [stdout |-> "none", stderr |-> "none"]]
    /\ temp = [p \in Procs |-> None]
    /\ path \in {None} \cup {[content |-> "whole", by |-> "before", mode |-> m] : m \in Modes}
    /\ exit = [p \in Procs |-> [code |-> 0, said |-> "nothing"]]
    /\ at = [p \in Procs |-> "nowhere"]
    /\ published = {}
    /\ kept = {}

history == <<at, published, kept>>

Goes(p, from, to) == pc[p] = from /\ pc' = [pc EXCEPT ![p] = to]

\* A step that returns e as the command's error.
Returns(p, from, e) == Goes(p, from, "end") /\ err' = [err EXCEPT ![p] = e]

\* What the argument lists come to.
Readings == {[misused |-> Misused(c, args), options |-> Parsed(c, args)] :
                c \in Commands, args \in Lines}

\* The arguments are refused, help answers (an unknown topic is a misuse), or the
\* command begins.
Parse(p) ==
    /\ \E r \in Readings :
         IF r.misused THEN Returns(p, "args", Misuse) /\ UNCHANGED line
         ELSE /\ line' = [line EXCEPT ![p] = r.options]
              /\ IF r.options.command = "help"
                 THEN \E e \in {NoError, Misuse} : Returns(p, "args", e)
                 ELSE Goes(p, "args", "cache") /\ UNCHANGED err
    /\ UNCHANGED <<done, verdict, out, temp, path, exit, history>>

\* cacheOptions: a stop is looked at once the executable has been read; a cache
\* that cannot be used is a warning.
CacheOptions(p) ==
    /\ IF line[p].cache /\ done[p] THEN Returns(p, "cache", Failure)
       ELSE Goes(p, "cache", "engine") /\ UNCHANGED err
    /\ UNCHANGED <<line, done, verdict, out, temp, path, exit, history>>

\* newEngine, and Engine.Run up to its first look at the context.
NewEngine(p) ==
    /\ \/ Returns(p, "engine", Failure)
       \/ ~done[p] /\ Goes(p, "engine", "run") /\ UNCHANGED err
    /\ UNCHANGED <<line, done, verdict, out, temp, path, exit, history>>

\* Engine.Run ends: it fails, or it answers.  A context that ended meanwhile may
\* or may not have been seen.  A spec that lowered to no document has failed.
EngineRuns(p) ==
    /\ \/ Returns(p, "run", Failure) /\ UNCHANGED verdict
       \/ /\ Goes(p, "run", "report")
          /\ \E d, f \in BOOLEAN :
               /\ d \/ f
               /\ verdict' = [verdict EXCEPT ![p] = [doc |-> d, failed |-> f]]
          /\ UNCHANGED err
    /\ UNCHANGED <<line, done, out, temp, path, exit, history>>

\* Where a run goes once its diagnostics are written.
AfterReport(p) ==
    IF line[p].command = "validate" \/ ~verdict[p].doc THEN "verdict"
    ELSE IF line[p].explain THEN "explain"
    ELSE IF line[p].file THEN "replace" ELSE "encode"

\* WriteDiagnostics: whole, or cut off by a write that fails.
WriteDiagnostics(p) ==
    /\ pc[p] = "report"
    /\ \/ /\ out' = [out EXCEPT ![p] = [stdout |-> out[p].stdout, stderr |-> "part"]]
          /\ Returns(p, "report", WriteFailure(p))
       \/ /\ out' = [out EXCEPT ![p] = [stdout |-> out[p].stdout, stderr |-> "whole"]]
          /\ Goes(p, "report", AfterReport(p)) /\ UNCHANGED err
    /\ UNCHANGED <<line, done, verdict, temp, path, exit, history>>

\* A run with nothing to write ends with its verdict.
Verdict(p) ==
    /\ Returns(p, "verdict", ExitWith(FindingsCode(p)))
    /\ UNCHANGED <<line, done, verdict, out, temp, path, exit, history>>

\* Mutant: the document is encoded straight to stdout, the context unread.
StdoutUnchecked(p) ==
    /\ \/ Goes(p, "explain", "print") /\ UNCHANGED err
       \/ Goes(p, "encode", "print") /\ UNCHANGED err
    /\ UNCHANGED <<line, done, verdict, out, temp, path, exit, history>>

\* compileSpec looks at the context before an explanation's first byte;
\* WriteDocument encodes the document whole, under the context, before its own.
BeforeStdout(p) ==
    /\ \/ done[p] /\ Returns(p, "explain", Failure)
       \/ ~done[p] /\ Goes(p, "explain", "print") /\ UNCHANGED err
       \/ Returns(p, "encode", WriteFailure(p))
       \/ ~done[p] /\ Goes(p, "encode", "print") /\ UNCHANGED err
    /\ UNCHANGED <<line, done, verdict, out, temp, path, exit, history>>

\* The write to stdout: WriteExplanation's lines, or the document's bytes.
ToStdout(p) ==
    /\ pc[p] = "print"
    /\ \/ /\ out' = [out EXCEPT ![p] = [stdout |-> "part", stderr |-> out[p].stderr]]
          /\ Returns(p, "print", WriteFailure(p))
       \/ /\ out' = [out EXCEPT ![p] = [stdout |-> "whole", stderr |-> out[p].stderr]]
          /\ Returns(p, "print", ExitWith(FindingsCode(p)))
    /\ UNCHANGED <<line, done, verdict, temp, path, exit, history>>

----------------------------------------------------------------------------
\* atomicfile.Replace.


\* replace's first look at the context, and pendingFor: Stat may fail; the
\* temporary file is created with NewMode, or owner-only when there is a mode to
\* keep (None here, until chmod).
Pending(p) ==
    /\ \/ done[p] /\ Returns(p, "replace", WriteFailure(p)) /\ UNCHANGED temp
       \/ ~done[p] /\ Returns(p, "replace", WriteFailure(p)) /\ UNCHANGED temp
       \/ /\ ~done[p] /\ UNCHANGED err
          /\ Goes(p, "replace", IF path = None THEN "fill" ELSE "chmod")
          /\ temp' = [temp EXCEPT ![p] =
               [content |-> "part", mode |-> IF path = None THEN NewMode ELSE None,
                keep |-> IF path = None THEN NewMode ELSE path.mode]]
    /\ UNCHANGED <<line, done, verdict, out, path, exit, history>>

\* Mutant: a failure leaves the temporary file where it is.
AbandonNothing(p) == UNCHANGED <<temp, kept>>

\* abandon: the temporary file is removed, or that fails too.
Abandon(p) ==
    \/ temp' = [temp EXCEPT ![p] = None] /\ UNCHANGED kept
    \/ kept' = kept \cup {p} /\ UNCHANGED temp

\* Mutant: a file that exists is replaced by one of the default mode.
ChmodDefault(p) ==
    /\ pc[p] = "chmod"
    /\ Goes(p, "chmod", "fill")
    /\ temp' = [temp EXCEPT ![p].mode = NewMode]
    /\ UNCHANGED <<err, kept, line, done, verdict, out, path, exit, at, published>>

\* The existing file's mode is given to the temporary one, or it is removed.
Chmod(p) ==
    /\ pc[p] = "chmod"
    /\ \/ Returns(p, "chmod", WriteFailure(p)) /\ Abandon(p)
       \/ /\ Goes(p, "chmod", "fill")
          /\ temp' = [temp EXCEPT ![p] = [content |-> temp[p].content, mode |-> temp[p].keep,
                                          keep |-> temp[p].keep]]
          /\ UNCHANGED <<err, kept>>
    /\ UNCHANGED <<line, done, verdict, out, path, exit, at, published>>

\* Mutant: what fill returned is not looked at.
FillUnchecked(p) ==
    /\ pc[p] = "fill"
    /\ \E c \in {"part", "whole"} : temp' = [temp EXCEPT ![p].content = c]
    /\ Goes(p, "fill", "rename")
    /\ UNCHANGED <<err, kept, line, done, verdict, out, path, exit, at, published>>

\* fill: encode streams the document, and stops at the first write after the
\* context ended, at one that fails, or at a value that does not marshal; what
\* is already in the file is then cut short.  The look at the context after it
\* is the last.
Fill(p) ==
    /\ pc[p] = "fill"
    /\ \/ Returns(p, "fill", WriteFailure(p)) /\ Abandon(p)
       \/ /\ ~done[p] /\ Goes(p, "fill", "rename")
          /\ temp' = [temp EXCEPT ![p] = [content |-> "whole", mode |-> temp[p].mode,
                                          keep |-> temp[p].keep]]
          /\ UNCHANGED <<err, kept>>
    /\ UNCHANGED <<line, done, verdict, out, path, exit, at, published>>

\* CloseAtomicallyReplace: the rename publishes, or fails.
Rename(p) ==
    /\ pc[p] = "rename"
    /\ \/ /\ Returns(p, "rename", WriteFailure(p)) /\ Abandon(p)
          /\ UNCHANGED <<path, published>>
       \/ /\ Returns(p, "rename", ExitWith(FindingsCode(p)))
          /\ path' = [content |-> temp[p].content, by |-> p, mode |-> temp[p].mode]
          /\ temp' = [temp EXCEPT ![p] = None]
          /\ published' = published \cup {p} /\ UNCHANGED kept
    /\ UNCHANGED <<line, done, verdict, out, exit, at>>

----------------------------------------------------------------------------
\* execute reports what ended the run, and main exits with its code.
Execute(p) ==
    /\ Goes(p, "end", "exited")
    /\ exit' = [exit EXCEPT ![p] = Ended(err[p], done[p])]
    /\ UNCHANGED <<line, done, verdict, err, out, temp, path, history>>

\* What the help text calls too late: the document is being written or moved
\* into place, a report has begun, or a compile that has no document is over.
TooLate(p) ==
    \/ at[p] \in {"print", "rename", "verdict"}
    \/ at[p] = "report" /\ (line[p].command = "validate" \/ ~verdict[p].doc)

\* watchSignals: the first signal ends the context, the next change nothing.
Signal(p) ==
    /\ pc[p] \notin {"exited", "killed"} /\ ~done[p]
    /\ done' = [done EXCEPT ![p] = TRUE]
    /\ at' = [at EXCEPT ![p] = pc[p]]
    /\ UNCHANGED <<pc, line, verdict, err, out, temp, path, exit, published, kept>>

\* The process dies where it stands, as on SIGKILL.
Kill(p) ==
    /\ pc[p] \notin {"args", "exited", "killed"}
    /\ pc' = [pc EXCEPT ![p] = "killed"]
    /\ UNCHANGED <<line, done, verdict, err, out, temp, path, exit, history>>

Step(p) ==
    \/ Parse(p) \/ CacheOptions(p) \/ NewEngine(p) \/ EngineRuns(p)
    \/ WriteDiagnostics(p) \/ Verdict(p) \/ BeforeStdout(p) \/ ToStdout(p)
    \/ Pending(p) \/ Chmod(p) \/ Fill(p) \/ Rename(p) \/ Execute(p)

Next == \E p \in Procs : Step(p) \/ Signal(p) \/ Kill(p)

Spec == Init /\ [][Next]_vars

----------------------------------------------------------------------------
Pcs == {"args", "cache", "engine", "run", "report", "verdict", "explain", "encode",
        "print", "replace", "chmod", "fill", "rename", "end", "exited", "killed"}
Options == [command : Commands, cache : BOOLEAN, explain : BOOLEAN, file : BOOLEAN, asked : BOOLEAN]
Errors == [kind : {"nil", "verdict", "failure", "usage"}, code : 0 .. 2]
Verdicts == [doc : BOOLEAN, failed : BOOLEAN]
Outputs == [stdout : {"none", "part", "whole"}, stderr : {"none", "part", "whole"}]
TempFiles == [content : {"part", "whole"}, mode : Modes \cup {None}, keep : Modes]
Files == [content : {"part", "whole"}, by : Procs \cup {"before"}, mode : Modes \cup {None}]
Exits == [code : 0 .. 2, said : {"nothing", "failure", "usage", "stopped"}]

\* Every variable holds a value of its type.
TypeOK ==
    /\ pc \in [Procs -> Pcs] /\ at \in [Procs -> Pcs \cup {"nowhere"}]
    /\ line \in [Procs -> Options]
    /\ done \in [Procs -> BOOLEAN]
    /\ verdict \in [Procs -> Verdicts]
    /\ err \in [Procs -> Errors]
    /\ out \in [Procs -> Outputs]
    /\ temp \in [Procs -> {None} \cup TempFiles]
    /\ path \in {None} \cup Files
    /\ exit \in [Procs -> Exits]
    /\ published \subseteq Procs /\ kept \subseteq Procs

\* The output path holds a whole document at every instant, the one that was
\* there before or one a process compiled, whatever fails and however the
\* processes that name it interleave (ReplaceDocument, atomicfile.replace).  One
\* is published only for a user who wrote --output or -o: a long flag with one
\* dash, which pflag would read as -o, is never run (singleDashLongFlags).  A
\* process that exits leaves no temporary file beside the path, unless it could
\* not remove it (abandon, pendingFor).
OutputSafe ==
    /\ TypeOK
    /\ path # None => path.content = "whole"
    /\ \A p \in published : line[p].asked
    /\ \A p \in Procs : pc[p] = "exited" /\ temp[p] # None => p \in kept

\* The exit tells a wrapper what happened: 0 that everything asked for was
\* delivered and nothing reaches --fail-on, 1 that the engine's verdict was
\* against the spec, and a verdict against the spec is never hidden by a write
\* that fails, only by a stop (exit.go's contract, writeFailureExit, execute).
\* A run that says a signal stopped it has published nothing and written no
\* whole document, and not one byte to stdout unless the signal came when its
\* last write had begun (WriteDocument, replace, compileSpec's look at ctx).
ExitTells ==
    \A p \in Procs : pc[p] = "exited" =>
      /\ exit[p].code = 0 =>
           \/ line[p].command = "help"
           \/ /\ ~verdict[p].failed /\ out[p].stderr = "whole"
              /\ line[p].command = "compile" =>
                   IF line[p].file THEN p \in published ELSE out[p].stdout = "whole"
      /\ exit[p].code = 1 => verdict[p].failed
      /\ verdict[p].failed /\ exit[p].said # "stopped" => exit[p].code = 1
      /\ exit[p].said = "stopped" =>
           /\ p \notin published /\ out[p].stdout # "whole"
           /\ at[p] \notin {"print", "end"} => out[p].stdout = "none"

\* The file at the output path keeps the mode it has, whichever process replaces
\* it (pendingFor's chmod).
ModeKept == [][path # None => path' # None /\ path'.mode = path.mode]_path

\* A signal that comes once the document is being written or moved into place,
\* once a report has begun, or once a compile with no document is over, changes
\* nothing: the run does not end as a stopped one (compileLong, validateLong).
LateSignalChangesNothing ==
    \A p \in Procs : pc[p] = "exited" /\ TooLate(p) => exit[p].said # "stopped"
=============================================================================
