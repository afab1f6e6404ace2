# A TLA+ model of morphic

morphic compiles API specifications (OpenAPI 3.0, 3.1 and 3.2 today) into one
intermediate representation, the IR, runs passes over it and writes it out with
the findings it made on the way.  This directory keeps TLA+ models of the parts
of it that are hard to get right and hard to test, the TLC configurations that
check them on small instances, and TLAPS proofs that carry the main results to
every instance.  Paths below are relative to the repository.

    tlc -workers 2 -config CacheDirBound.cfg MCCacheDir     # one run
    tlapm CacheDirProofs.tla                                # one module of proofs

`PROJECT.json` lists the components, the runs, the mutants that show each
property can fail, the source lines behind each definition, the hazards and the
theorems.

## 1. Inventory

### How the parts interact

    cmd/morphic ── engine.New / Engine.Run ──┬── engine/reader: bytes of the spec and what it refers to
         │                                   ├── engine/cache:  a directory shared by processes
         │                                   ├── compilers:     registry, detection, contracts
         │                                   │      └── compilers/openapi ── compilers/compile
         │                                   ├── pass:          names, validate
         │                                   └── ir, ir/irverify, ir/irfacts
         └── engine/output, engine/internal/atomicfile, engine/report

A run is one goroutine: it reads the spec, asks the cache, detects a format,
compiles, runs the passes, judges the findings and returns a `Result`.  Runs of
one `Engine` may overlap, over one document too.  Processes share nothing but
the cache directory, and take no lock on it.  Everything else that is
concurrent is a caller's: a context that ends, documents edited while they are
read, a signal.

### Components

| Component | State it keeps | Operations | What makes it correct | Modelled in |
|---|---|---|---|---|
| cache directory (`engine/cache/{dir,ledger,prune}.go`) | entry files, temporary files, `stored.ledger`, modification times | Store, Load, prune, reset and append of the ledger | a Load is whole; the entries stay near the limit however processes interleave, fail or die; a prune ends and spares Stores in progress | `CacheDir`, `LossyStore` |
| cached runs (`engine/cache*.go`) | the entry of each key; a run's record of its reads | lookup, replay of the reads, compile, keep | a cache costs work and never a wrong document | `CachedRun` |
| cache keys (`engine/cache/{key,build}.go`) | none | frame a request's fields into a hash | distinct requests have distinct keys | in part: a key is one value per request in `CachedRun` |
| engine pipeline (`engine/{engine,stage,verify,verdict}.go`) | compilers, passes; a run's document, findings and fingerprint | New, Run, RunDocument; detect, compile, pass, verdict | no finding lost or misplaced; a verified document is sound; a refusal says why; a stop returns nothing | `Pipeline` |
| compiler registry and contracts (`compilers/*.go`) | compilers by order and by format | Register, Detect, checks of what a compiler answers | only whole specs are compiled, by the compiler that serves the format | `Pipeline` |
| type registry (`compilers/compile/{types,promise,settle}.go`) | nodes by ID, coordinates and IDs claimed, promises, settlements | Intern, Register, PrimRef, Promise, Complete, Defer, Finish | the registry handed over is whole, does not depend on declaration order, and is never overwritten in silence, but by a settlement's swap | `TypeRegistry` |
| command line (`cmd/morphic`), output and `atomicfile` | arguments, exit code, streams, temporary file, output path | parse, run, report, write, replace, stop on a signal | the path holds a whole document; the exit tells what was delivered | `Command` |
| readers (`engine/reader`) | none; the file system under them | Disk, Memory, Layered | regular files only, inside the root, within the limit, whatever is replaced meanwhile | `Reader`, `Pipeline` |
| IR editor (`ir/edit*.go`) | the edit's registry, the service tree, refusals | read, update, replace, remove, Finish | the input is never written; the lazily built tree is the one edited; no refusal is lost | `Editor` |
| ir: walks, clone, names, decimals | none | traverse, copy, split, compare | each answer against its definition; in part | `Walk`, `Spelling` |
| facts (`ir/irfacts`) | indexes over a registry | layout, components, subtypes, exposure, aliases, usage | an index answers as a direct reading would, cycles included | `TypeFacts` |
| invariant checker (`ir/irverify`) | none | every check (a name's content rules in `Spelling`) | each defect is reported, and only defects | `Verify`, `Spelling`, `Pipeline` |
| passes (`pass`) | none | names, validate | each collision and fault once; in part | `Passes`, `Pipeline` |
| OpenAPI: source trees (scan, budget, overlay, sourceindex) | budgets, indexes | scan, charge, apply an overlay | every limit binds before the cost is paid; in part | `Source` |
| OpenAPI: node views | memo of expansions | expand merges, index keys, walk | a view answers as a fresh one would; in part | `NodeView`, `Spelling` |
| OpenAPI: external documents (load) | documents read, held spellings, chains | read, hand over, settle, resume, respell | each document once, every chain ends, every limit binds; in part | `Loading`, `External`, `Escapes` |
| OpenAPI: references, identifiers (resolve, navigation, ids, bind) | reference table | follow, walk by pointer, bind, base | scopes, chains, IDs and bases are what the documents say; in part | `Resolve`, `Bind`, `Bases` |
| OpenAPI: merging of declarations (merge) | none | bounds, steps, types, folds | merging is intersection | `Merge` |
| OpenAPI: lowering of schemas | budgets of a reading | null, allOf, admission, unions, discriminators, promotion | what a reading says is what JSON Schema says; in part | `Schemas`, `Admission`, `Promotion` |
| OpenAPI: operations, services, auth | expansion budget | mount, layer, group, judge | each construct mounted once and charged; in part | `Operations` |
| OpenAPI driver, compile toolkit, panic barrier | one compile | lower, Finish, look at ctx, assemble, recover | as the parts they drive; in part | `TypeRegistry`, `Resolve`, `Pipeline` |
| reports (`engine/report`) | none | order and render findings | when one is written and what its failure does; in part | `Command` |
| object model and wording; repository tools; emitters | - | - | tables, no part of the compiler, no code yet | no |

### What is hard

The hazards, each at its line, are in `PROJECT.json`.  In short:

- *interleaving*: processes store into, load from and prune one directory with
  no lock; a ledger is removed while another process holds it open; runs
  overlap over one document; documents are edited between two reads;
- *crashes*: a process dies between rename and record, or inside a prune;
- *ordering*: references met before the declarations they name; settlements
  that must wait for the last promise; findings that arrive on two channels;
- *bounds*: the ledger's eighth, the byte read past a spec's limit;
- *trust*: a cache nobody vouches for, compilers and passes that break their
  contract, settlements that write past the registry;
- *cancellation* between any two steps.
- *reentrancy*: a change handed to the editor may call the edit, end it or panic;
- *cost*: aliases, overlays, copies and chains that a small document makes large.

## 2. The modules

| Module | What it is |
|---|---|
| `CacheDir` | the directory, one action per system call; processes, clock, faults, kills |
| `LossyStore` | the abstract store the directory implements: a put takes effect at once or never, entries may be lost at any time |
| `CachedRun` | runs over a store that may answer anything, and documents that are edited |
| `TypeRegistry` | the registry of one compile, from the first declaration to Finish |
| `Pipeline` | New, and the runs of the engine it builds |
| `Command` | processes that run the command and name one output path |
| `Editor` | one copy-on-write edit of a document |
| `Reader` | one read of a document, one action per system call, beside a changing file tree |
| `Loading` | the resolvers of one compile: the reads they share, and the source held for them, in both resolutions |
| `External` | chains into other documents, what is reached there, and what it costs |
| `Walk`, `TypeFacts`, `Passes`, `Verify`, `Spelling` | what is read off the IR, and what judges it |
| `Source`, `NodeView`, `Escapes` | a source before and while it is parsed |
| `Resolve`, `Bind`, `Bases` | references, identifiers and bases |
| `Merge`, `Schemas`, `Admission`, `Promotion`, `Operations` | the lowering |
| `MC...` | the instances TLC checks; `MCAlgorithms` holds the inputs of the pure algorithms and what is said of each |
| `...Proofs` | the theorems of each, and the lemmas under them |

Definitions marked *Mutant* in a comment are no part of the model: each is a
plausible bug, put in place of the definition after it to show that a property
fails then.  The map in `PROJECT.json` names a stretch of code once: a small helper
stands under the definition that uses it.

### CacheDir and LossyStore

`files` is the directory, `ledger` the file `stored.ledger` as the set of the
Stores it notes and a torn tail.  A Store is `Store` (create the temporary
file), `Fill`, `Publish` (the rename), then `OpenLedger`, `WriteRecord` and
`ReadLedger`, and when the tally says so `ResetLedger`, `List`, one `Stat` for
each name, one `Evict` for each file removed, `PruneDone`; `Abandon` is every
failure before the rename.  A descriptor left open on a removed ledger is
`stale`: what is written to it reaches nobody.  `Load` reads, `Mark` sets the
time by name afterwards.  `Faults` lets ledger calls fail or the context end
after the rename, `PruneFaults` lets a prune fail midway, `Kills` lets a process
die anywhere.  The history variables `born`, `sweeper` and `swept` serve the
properties alone.

Boundaries of the model: a listing is atomic; files of one instant are removed
in any order, where the code goes by name; two Stores are never given one
temporary name; a whole entry is known by its Store, not its bytes.

`LossyStore` is what the rest of the engine may rely on, and `CacheDir` refines
it: an entry is kept from its rename on, and an open call is read off `pc`.

### CachedRun

A key stands for a request: spec bytes, options, build.  A document is known by
the key it was compiled for and the reads it was compiled from, so a wrong
answer shows.  `Load` lets the cache return nothing, a damaged entry or any
entry it has, another key's too.  `Replay` does one read of the entry again,
`ReadDocument` one read of a compile, `Keep` stores.  `Edit` changes a document
at any time.  `seen` is a history variable: what documents have held since the
run began.  The reads of an entry are replayed in any order, where the code has
one.  That distinct requests have distinct keys is taken for granted here.

### TypeRegistry

What is compiled is a *document*: for each coordinate, its ID and what its
lowering asks of the registry, in any order.  A document can be one of a faulty
compiler, which the registry is there to refuse.  `stack` and `todo` are the
builds in progress: `Intern` enters one, `Built` and `BuiltNil` leave it.
`Finish` is `TakeRound`, `Fulfil`, `Fulfilled`, `Settle`, `TakeSettlement` and
`Report`; `Cancel` may come between any two steps, and is looked at where the
code looks at ctx.

Boundaries: the promises of a round are built in any order, where the code
sorts them, which is more behaviours; refusals are a set of reasons; calls with
an empty argument are one action; a node is known by the coordinate that built
it.  A settlement writes the registry's map behind its back: `WritesPast` puts a
node at an ID, held or not, `Removes` takes one away and `Swaps` takes one away
and puts another at a second ID.  `settle` compares counts (`Resized`), so it
refuses an addition and a removal, and not a swap, at one ID or of one ID for
another: `WholeRegistry` and `NeverOverwritten` except it by name, and
`SameWhateverTheOrder` the one that changes the IDs, as the code does, which
leaves the references it makes dangle to `pass.Validate` and `irverify`.  IDs with no namespace segment and nodes on a
primitive's ID are excluded by `Grammatical`: the registry leaves them to other
checks.

### Pipeline

`engine` is built by `Register`, `Built` or `NewRefused`.  A run begins with
`RunSpec`, `RunEmpty`, `RunDocument` or `NotRun`; `Ask`, `Declines`, `Claims`,
`Unserved` and `Unrecognized` are detection; `Lowers`, `Refuses` and
`CompileBroke` what a compile comes to; `PassStarts`, `Analyses`, `Transforms`
and `PassBroke` the passes; `Returns` the verdict.  Compilers and passes answer
anything their types allow and the engine's checks are the guards, so the
properties are about the checks.  `Tampers` is a pass that changes its input,
which the code forbids and a verified run detects.  A finding carries the file
its reporter meant, beside the index it gives.

Boundaries: findings are sets, not lists; every Go error is one outcome; two
documents share no structure, and a compiler does not keep and change a document
it has returned; settings and parses are known by their compiler; the cache is
left to `CachedRun`.

### Command

Each process is a `pc` through `Parse`, `CacheOptions`, `NewEngine`,
`EngineRuns`, `WriteDiagnostics`, `Verdict`, then `BeforeStdout` and `ToStdout`,
or `Pending` (create the temporary file), `Chmod`, `Fill` and `Rename`; `Abandon`
is every failure of a replacement, `Execute` turns the error into an exit code.
An argument list is a sequence of tokens and `Misused` says which are refused.
`Signal` ends a run's context at any instant, `Kill` ends the process.  What the
run answers is a choice here; `Pipeline` has its inside.  `at`, `published` and
`kept` are history variables.

Boundaries: modes stand for permissions; hard links and the sync of the
directory are left out; the text of help, completions and messages too.

### Editor

`heap` holds the type nodes by address, so a write to a node of the input would
show; `maps` the document's registry and the edit's copy of it.  An update is
`BeginType` and `EndType` (`BeginNode` and `EndNode` in the tree): between the
two the client's change runs, and may call the edit (`Refused`, `FinishInside`),
build and move nodes of its own (`Build`, `Move`), or `Panic`.  `tree` is the
services, groups and operations with the lists that are stale and the nodes
removed; `ReadNode` and `Finish` build the stale lists.  `Value` is the tree
edited with everything built at once, against which `BuiltAsEdited` holds the
lazy one.

Boundaries: types stand for the five registries that run the same generic code; a
node is its ID, a version and how often it declares each member.

### The algorithms

A step of `MCAlgorithms` takes one input of the bounded set of a part, the next
gives it up, and an action property speaks of every input given up: it compares
the operator translated from the code with a reference definition, or two of its
answers with one another (another order, another budget, read twice).  `Reader`
and `Loading` have state of their own and run beside it, so `ReadsBounded` and
`LoadSettles` are invariants.  Constants such as `MaxInt` and the depth caps are
set small enough that inputs lie on both sides of them.

`Reader`: `read` is one request on its way through `Disk.ReadDocument`, rooted or
not (ask, fetch, resolve, judge the path, open, judge what was opened, read
chunks), `tree` the files, which another process swaps and grows between any two
calls.  A read of a source goes one byte past its limit.

`Loading`: a document is looked up by a spelling and read under `ReadUnder` of it.
An asker looks a reading up, and the first ask of it (`once`) charges the budget
and fetches; the others wait for its answer.  `FinishRead` is `fetch` with all
that `prepare` does: a read that panics or is cancelled may have stored its tree
and held some of the spellings, and is answered as failed.  The source is held
under its own keys, under each spelling a `$ref` was found to write, and, while
`maxOpenedSpellings` allows, under those `Open` was asked for.  `SecondPass`
rebuilds the model where the resolver parsed a document itself, with what
`handOver` hands it.  In the run two askers look for four spellings of three
documents, one read under two of them, against a budget of two documents and of
one opened spelling, so that a document is asked for while it is read, refused
past the budget, and parsed by the resolver under its other spelling.

Boundaries: a schema of `Schemas` has one property and one element at most, and
its items lie under no identifier; the settlement of a discriminator beside a
union and the resolution of its mapping's targets are left out; `SameText` has one
base, since a `$ref` is its target and not a spelling; an inline principal of
`KeptBranches` is taken to own a node, so less is kept than the code keeps and the
check is the stricter; in `Bind`, `CutHonestly` allows the zero chain a chain past
its budget leaves; in `Verify` a name's content rules are left to `Spelling`, which
has its runes; big decimals in `Merge` are integers with an
exponent; the JSONPath of an overlay is the library's.

## 3. The runs

Every property of a passing run has a mutant that breaks it under the same
configuration.  Deadlock is not checked: every process, run and compile is meant
to end, and then nothing is left to do.  Symmetry is over processes and keys
(`CacheDir`) and over processes (`Command`), which no definition and no property
tells apart, and is never used with a liveness property.

| Run | Properties | Instance, and why it is enough |
|---|---|---|
| `cachedir_bound` | `QuietBound`, `Accounted`, `LoadWhole` | two processes, three keys, three Stores of sizes 1, 8 and 9 under a limit of 8: an eighth, the limit, and past it; two records fill a ledger; ledger calls fail. Two processes are enough for an unlinked ledger, and three Stores for one before, one during and one after a prune |
| `cachedir_solo` | `UsedLastStays` | one process, three Stores, three instants, prunes that fail: the property is about one process at work |
| `cachedir_shared` | `IsLossyStore`, `Terminates`, `YoungTempKept`, `SweepFits` | two processes, two Stores, kills anywhere, two instants, weak fairness |
| `cachedir_killed` | `QuietBound` (violated) | two processes, two Stores, kills: see the findings |
| `cachedrun` | `AnswersCurrent`, `EntriesVouch`, `RunsEnd` | two runs, two specs, two documents of two contents or missing, where one content leads to the other document, one edit: enough for a change between any two reads, and for an entry stored by one run and used by the other; weak fairness |
| `registry` | `WholeRegistry`, `SameWhateverTheOrder`, `SettledInOrder`, `NeverOverwritten`, `CompileEnds` | three coordinates, every graph of up to three references or nestings (cycles and self-references included), and families of documents with colliding IDs, shared namespaces, nil builds, blank calls and misbehaving settlements; weak fairness |
| `pipeline_detect` | `RefusalStated`, `CompilesWhole`, `RunsEnd` | one run, three compilers with limits 1, 2 and none, specs of 0, 1, 2 and 4 bytes: below, at and past each limit; every list and option New may refuse; weak fairness |
| `pipeline_stages` | `FindingsPlaced`, `NothingLost`, `VerifiedSound`, `StopReturnsNone` | a run through two passes, three source tables with two files in either order, findings at every kind of index; and two runs over one document handed in, in every interleaving |
| `command` | `OutputSafe`, `ExitTells`, `ModeKept` | two processes, two modes, every argument list of up to three of seven tokens: enough for a replacement between the look at the path's mode and the rename |
| `command_late` | `LateSignalChangesNothing` (violated) | one process: see the findings |
| `editor` | `EditSound`, `BuiltAsEdited`, `WritesConfined` | two types, one member, four addresses, four documents with nil, misplaced and duplicate nodes, a tree of seven nodes with duplicate IDs and one group past the cap, two refusals; a client edits types or the tree, and at most two parts of the tree: types and tree share nothing but the refusals, and two writes are enough for one above, below or beside another |
| `algorithms` | `FactsTrue`, `JudgesTell`, `SourceCharged`, `TextsRead`, `ReadsBounded`, `ReferencesTrue`, `IdentifiersBound`, `LoadSettles`, `MergeTrue`, `OperationsMounted`, `SchemasRead` | some 885 000 states: each part has every input of its bounded set, stated beside it |

What they show:

- `QuietBound`: with no Store in progress, the entries pass the limit by an
  eighth at most, however Stores and prunes have overlapped and whichever ledger
  calls failed.  `Accounted` is why: no entry escapes both the ledger and the
  prune that follows its reset.  `SweepFits`: after a kill, the next prune to end
  restores the limit for all it sized.
- `LoadWhole`, `IsLossyStore`: a Load is of one whole Store of its key, and a
  Store takes effect at its rename or not at all.  `YoungTempKept`: no prune
  makes a prompt Store fail.  `UsedLastStays`: the entry used last is not
  removed to make room.  `Terminates`: two prunes over the same files both end.
- `AnswersCurrent`: a run returns a document of its own spec, from contents
  each of which its documents held during the run.  `EntriesVouch`: an entry
  lists exactly the reads its document came from, so replaying them vouches for
  it.  `RunsEnd`: a run ends whatever the cache answers.
- `WholeRegistry`, `SameWhateverTheOrder`: an unrefused registry has the node of
  every coordinate its declarations lead to, under its own ID, and the same IDs
  in whatever order they were lowered.  `SettledInOrder`: each settlement is
  taken once, the completing ones first.  `NeverOverwritten`: no node is
  overwritten or removed without a refusal, but by a settlement's swap of one node
  for one; the first two are of compiles no settlement has swapped in.  `CompileEnds`: promises run out.
- `FindingsPlaced`: a finding of a Result points at the file its reporter meant,
  whatever tables passes return.  `NothingLost`: a Result, and the document in
  it, hold exactly what the stages accepted said.  `VerifiedSound`,
  `RefusalStated`, `StopReturnsNone` and `CompilesWhole` say what a verified run,
  a refusal, a stop and a compile may be relied on for.  `Trusted` names what no
  check can make up for: a pass that changes a document another run has got to,
  or its input on a run that does not verify.
- `OutputSafe`: the output path holds a whole document at every instant, only a
  user who asked for a file gets one, and a process that exits leaves no
  temporary file it could remove.  `ExitTells`: 0 means all was delivered, 1 that
  the verdict was against the spec, and what is said of a stop is true.
  `ModeKept`: no replacement changes the mode of the file.
- `EditSound`: the result holds each node at its own key and declares no ID the
  document did not, and every refused call is reported or still waiting.
  `WritesConfined`: the input is never written, nor anything by a change whose
  call was refused.  `BuiltAsEdited`: building stale lists lazily gives what
  building everything at once would.
- `FactsTrue` (walks, clones, indexes of irfacts), `JudgesTell` (passes and
  verifier), `SourceCharged` (budgets, scan, overlay), `TextsRead` (node views,
  names, decimals), `ReferencesTrue` (resolve, IDs, respelling,
  file URIs, chains into other documents), `IdentifiersBound` (bind), `MergeTrue`,
  `OperationsMounted` and `SchemasRead` say of their parts what the comment
  above each in `MCAlgorithms` states, and the relations each joins are stated
  one by one beside their inputs.
- `ReadsBounded`: the bytes a reader hands back are a regular file's, inside the
  directory of a confined request, within its limit, however the file is swapped
  or grows between two calls; the buffer always has room for what is left to read
  and never more than may be read; and a read left alone answers on disk as
  `Memory` does.  `LoadSettles`: a document is read once and answers every ask
  alike, the second resolution finds every document it reads prepared, and what a
  `$ref` names in the source is held under the spelling it writes, in both.

**Fairness.**  Liveness is checked under weak fairness of the steps of each
process, run or compile: the operating system schedules a process again, a run
is one goroutine that takes no lock and waits only for the stage it called, and
a stage returns.  Beginning a call, failing before one begins, being killed,
cancelled or edited are never fair.  `Terminates` is checked with the faults
off, so that no fault is needed for a prune to end.

**Findings.**  `cachedir_killed` violates `QuietBound`: a Store publishes by
rename and records its size in the ledger afterwards, so a process killed
between the two leaves an entry no ledger counts, and the directory can hold
twice the limit with no Store in progress.  The comment on `MaxBytes`
(`engine/cache/dir.go:22-23`) allows an eighth and what a Store in progress
holds.  `SweepFits` shows the excess lasts until the next prune.

`command_late` violates `LateSignalChangesNothing`: a signal that comes during
the last write, when that write then fails, makes `execute`
(`cmd/morphic/main.go:54`) report a stopped run, exit 2, where the help text
(`cmd/morphic/compile.go:69-73`) says a signal that late changes nothing.

Three disagreements between code and comment were met on the way and are kept out
of the inputs instead of having a run each.  A held schema whose `$id` roots
nothing, beside a `$schema` that names another dialect, is entered by `enterIn`
as `enter` would not (`bind/resources.go`, the comment on `readsDialects`).  A
chain that runs over budget leaves a zero `Chain` where its hop says it resolved
(`bind/table.go:547-548`).  A `$ref` that is an alias of another `$ref`'s scalar
is respelled twice (`load/escapes.go:34-40`; `RespelledTwice` excludes it).

## 4. The proofs

The theorems hold for every number of processes, keys, runs, compilers, passes,
coordinates, files, argument lists, types, tree nodes, resolvers, documents and
spellings, and every value of the other constants that the named `ASSUME`s admit.
These say that constants have their types and that `None` and the like are none of
the values they stand beside; `TreeOK` says what a document's tree is: parents come before what they
hold, a service alone is at the top, and an operation holds nothing.

| Module | Theorems, and the property each states |
|---|---|
| `CacheDirProofs` | `TypeCorrect`, `LoadsAreWhole` (`LoadWhole`), `NothingEscapes` (`Accounted`), `YoungTempsAreKept` (`YoungTempKept`), `ImplementsLossyStore` (`IsLossyStore`), `SweepsFit` (`SweepFits`), `BoundIsKept` (`QuietBound`), `LastUsedIsKept` (`UsedLastStays`) |
| `CachedRunProofs` | `TypeCorrect`, `NeverWrongDocument` (`AnswersCurrent`), `EntriesAreSound` (`EntriesVouch`) |
| `TypeRegistryProofs` | `TypeCorrect`, `RegistryIsWhole` (`WholeRegistry`), `NothingIsOverwritten` (`NeverOverwritten`), `SettlementsAreTaken` (`SettledInOrder`), `OrderDoesNotTell` (`SameWhateverTheOrder`) |
| `PipelineProofs` | `TypeCorrect`, `FindingsStayPlaced`, `NoFindingIsLost`, `VerifiedRunsAreSound`, `RefusalsAreStated`, `StopsReturnNone`, `WholeSpecsOnly` |
| `CommandProofs` | `OutputIsSafe` (`OutputSafe`), `ExitsTellTrue` (`ExitTells`), `ModeIsKept` (`ModeKept`) |
| `EditorProofs` | `EditIsSound` (`EditSound`), `WritesAreConfined` (`WritesConfined`), `TreesAreBuiltAsEdited` (`BuiltAsEdited`) |
| `ReaderProofs` | `ReadsAreBounded` (`ReadsBounded`) |
| `LoadingProofs` | `LoadingSettles` (`LoadSettles`) |

Some hold under a hypothesis on the faults, which the statement names and which
the runs share: `NothingEscapes` and `BoundIsKept` without kills and prune faults
(with kills the bound fails, as the finding shows), `SweepsFit` without prune
faults, `LastUsedIsKept` with one process.

The arguments:

- **CacheDirProofs**: the typing invariant is strengthened by the shape of
  each process's call: which of its fields are set at which `pc`.  To it
  `FilesOK` adds that an entry is whole and stored for the key it is named by,
  because only `Publish` puts a file at a key and only after `Fill`; `Ages`
  relates the time of a temporary file to when its Store began; `Accounted` is
  inductive beside `Shape`, because the record is appended after the rename and
  the ledger reset before the listing.  The refinement maps each step to a put,
  a get, a loss, or a stutter.
- **CacheDirProofs**, the bound: sums come first.  That a sum over a finite set has the
  equations expected of it, grows with the set and is carried along an injection
  is shown by taking a smallest set that would refute it.  `SweepsFit` needs that
  what a prune has sized and not yet dropped is what it counts (`Sweeping`).
  `BoundIsKept` adds that what the ledger leaves uncounted is covered by a prune
  that is due or under way (`DueCovered`): by `Accounted` each entry is either
  recorded, an eighth at most, or among what the last prune sized, the limit at
  most.  `LastUsedIsKept` follows one process through its prune (`SoloInv`): the
  entry used last sorts last, so room is made before it is reached.
- **CachedRunProofs**: the invariant is `TypeOK`, `EntriesVouch` and, for each
  run, that what it has replayed or read is in `seen`, that a sound record is
  what the compile used, and that an entry loaded vouches.
- **TypeRegistryProofs**: the invariant has five parts: types; that the registry is
  finite, so that counts tell an addition or a removal (`SettlementCounts`: one that
  is refused nothing swapped one for one); `Asking`, what
  open builds have still to ask; `Phases`, what each phase of Finish has left, and that no settlement is
  taken before it settles; `Sane`, that an unrefused registry maps coordinates and
  IDs one to one, and holds their nodes while no settlement replaced one (`Trusted`).
  Wholeness is a closure argument: what is interned is within every closed set,
  and once no promise and no build is left it is closed itself.
- **TypeRegistryProofs**, the order: an account of the work done.  What a coordinate's
  lowering has asked for is, while nothing is refused, exactly what lies in the
  queues (`Accounted`) and in the registry (`Registered`), and each item lies in
  one place (`Queues`, `Where`).  At the end every lowering has asked for all it
  asks for, so queues and registry are functions of the document.
- **PipelineProofs**: the invariant says of each run what it holds (`Held`), what
  the document it has got to says (`Carried`), that results are apart from every
  document in use (`Apart`), what declining compilers have said (`Declining`) and
  what has been answered (`Answer`), and how much of a spec was read
  (`Reading`).  Two facts carry it: the heap is written at fresh addresses only,
  or by `Tampers` at the document a run has got to; and on a verified run the
  fingerprint stands for the document, so a change to it is seen.
  `WholeSpecsOnly` needs the greatest of the compilers' limits to exist, for
  lists of any length: a shortest prefix without one is taken, and has a
  shorter.
- **CommandProofs**: `Temps` says what a temporary file holds at each place of a
  replacement, `Keeps` that every pending replacement means to give the mode the
  path has now, though other processes replace it meanwhile, `Publishes` what a
  rename implies of the options, and `Lined`, `Going` and `Ending` what is known
  of arguments, error, verdict and output wherever a run has got to.
- **EditorProofs**: across the client's change, the node it was given is still
  the one at the key when it ends (`Changing`); the client's nodes lie apart from
  the document's (`Apart`); each entry the edit wrote names a node that is there
  (`Present`); refusals add up (`Counted`).  For the tree, every list of a held
  node that is not stale is the one edited (`Fits`), a stale list makes every list
  on the path to it stale (`Traced`), and lists go stale within the cap only
  (`Formed`).  The values are recursive functions on the tree: that they exist and
  that two of them agree goes from the last node to the first, by a least
  counterexample.
- **ReaderProofs**: `ReadsBounded` speaks of what was handed back, and what is
  handed back was decided several calls before, so the invariant follows a read.
  `Stage` says what it has at each place, `Homed` that what a confined read opened
  is inside, `Fitting` that what was read fits the buffer and the buffer the limit,
  `Handed` that an answer of bytes was of a file within it.  While nothing beside
  the read moved, `Undisturbed` ties what was opened to what the tree holds at the
  path, so its answer is what the tree says; that `Memory`'s is the same needs
  `NewMemory` to hold each file of the tree once, under its own key.  The growth of
  the buffer is a handful of lemmas on numbers: it grows while there is room for
  more, and never past the limit.
- **LoadingProofs**: `Turns` says that a document is being read by one asker
  and that whoever waits waits for a reading that was begun; `Settled`, of
  each document, that none is fetched before its first ask, that all its answers
  are the one it has, and that what was read has its tree; `Budgeted` that what
  was fetched was paid for first.  `Walked` is why none is parsed again: what was
  used was read, and the second resolution asks for nothing the first has not
  settled, so it reads nothing.  For the source, `Mirrored` says that the record of
  spellings says exactly what is held, whatever was held whole: `hold` rebuilds the
  one from the other.

Only model-checked:

- liveness (`Terminates`, `RunsEnd` of the cached runs and of the pipeline,
  `CompileEnds`), which is out of the prover's reach;
- the other nine properties of the `algorithms` run.  Its operators are recursive,
  and what a recursive operator computes for every input is an induction over data
  that the installed provers cannot be given.

Every other property of a passing run, invariant, action property or refinement,
is a theorem.

## 5. What is not modelled, and the plan

Not modelled, and not meant to be: wording, rendering and layout of messages; the
order of a report's lines; the object model of OpenAPI, which is tables; the
framing and hashing of cache keys; repository tools and test support; code outside
the repository (YAML and OpenAPI parsers, the HTTP client).  The boundaries of
each module are stated in its section above.

Worth proving next are lemmas on the operators of the algorithms that are not
recursive: budgets that saturate, bounds that meet, the IDs of positions.  They
stand in modules beside recursive ones and would have to be parted from them.
