# PastaLean: a verification project in TLA+

PastaLean translates Python programs to Lean 4. A Python driver parses the source, rewrites its
AST, and sends it, one top-level statement at a time, to a Lean process that has imported Mathlib
and stays warm between requests. Around it stand a harness that evaluates the translated programs on
recorded tests, a loop that writes and repairs contracts with a model, and a benchmark curated by
both. This directory models the parts that keep state, wait for other processes, or can be cut off
half way. Paths below are relative to `src/`.

## The system

| part | code | state it keeps | interacts with |
|---|---|---|---|
| Lean backend client | `src/backend/client.py` | `_proc`, `_warm`, `_libraries`; the child's pipes | called by the driver and by Session; starts `py2lean` processes |
| Session API | `src/api.py` | its client, options, a lock | one lock per Session around each translation; `start()` and `close()` take none |
| Transpile driver | `src/transpile/driver.py` | module globals: `_NUMERIC_MODE`, `_RUN_SUFFIX`, `_USER_NAMES`, `_BEST_EFFORT`, `_HEAP_MODE`, `_LAST_UNSUPPORTED`; per translation: `emitted_funcs`, `code_parts`, `backend_unsup` | reads the globals at each request |
| py2lean server | `py2lean.lean` | one line in, one line out, until EOF | sets the generator's refs from each request |
| Code generator | `PastaLean/Codegen.lean`, `PastaLean/PyGens/` | refs of the current request; `classRegistry`, `heapContainerFieldsRegistry`, `noncomputableDefRegistry` for the life of the process | written by one statement, read by later ones |
| Evaluation, interpreted | `cp_harness/cpasta_eval.py` (`evaluate`, `WarmLeanEval`), `PALC/PastaCheck.lean` (`runEvalLoop`) | a queue of evaluators, each with a Lean process and a count; the report | threads of an executor; the main thread merges |
| Evaluation, native | `cp_harness/cpasta_eval.py` (`_evaluate_native`) | `bad_ids`, `id_binary`, generated modules, the report | `lake build`, the harness binaries |
| Reference runs and pruning | `cp_harness/cpasta_eval.py` (`guarded_ref_batch`, `prune_tests`) | results aligned with the batch; `tests.json`, `excluded.json` | a forked child per bomb |
| Contract QA | `src/transpile/contract_qa/` | best candidate so far, history; in the child: oracle, mutant verdicts | an external generator; a child process per check |
| PastaBench curation | `PastaBench/pastabench.py` | `_curate/gate.json`, staged contracts, the manifest, the units | a model asked in parallel; Session; Lean |
| TypeInfer client and executable | `src/backend/typeinfer.py`, `typeinfer_exe.lean` | a second line server, without lock or deadline | called by the inference command line |
| MCP, HTTP servers, command line | `src/mcp_server.py`, `src/server.py`, `src/main.py` | workspace files, request threads | callers of Session |
| Runtime, type engine, libraries | `PastaLean/PyAPI`, `TypeInfer/`, `Libraries/`, `PALC/` | none at translation time | pure definitions |

What is hard here: threads that share a client, a Session or only the driver's module globals;
children that crash, hang or answer late, on pipes whose lines carry no name; a request answered by
another process than the one that knows the file; process-wide registries that outlive the file that
filled them; an emission order that differs from source order and must survive any refusal by
the backend; batches in which one item must not take another with it; loops that keep the best of what
they have seen; and long commands, paid by the answer, that are killed and resumed. The hazards, each at its
line and with the properties that cover it, are in `PROJECT.json`.

What makes each modelled part correct:

- client: every call ends exactly once, with an answer made for that call or the substitute its
  method documents; the short deadline never holds a child that is still importing Mathlib; no
  running child is let go of; nothing is left in the pipes between calls;
- driver and generator: a request carries the options of its own translation; a result reports its
  own degraded statements; a warm process translates a file as a fresh one would, as far as the file
  shares nothing with the files before it;
- emission: every declaration once, callees before callers, both numeric twins or neither, and nothing lost
  but what a refused group takes with it;
- evaluation: every problem gets one verdict made of answers to its own solutions; evaluators are
  neither shared nor lost; no process is used past its limit; offenders, and they alone, are excluded from
  the native build; the report counts everything;
- reference runs: results stay with their cases, a good case is never dropped for a neighbour;
- contracts: what is written has passed, and is no weaker than what was seen;
- curation: what is published compiled, or was published without the gate on request; an answer on record
  is not paid for again; a resumed command ends, unless a translation hangs.

## Modules

| module | models |
|---|---|
| `AnswerOnce` | what a caller is promised: the abstract specification of the client |
| `LeanClient` | client, session lock, child process, pipes, one-shot processes, `Session.start`, `Session.close` |
| `LeanClientProofs` | theorems about `LeanClient` |
| `WarmTranslation` | driver globals, backend refs and registries, files one after another |
| `WarmTranslationProofs` | theorems about `WarmTranslation` |
| `Emission` | the emission loop, function groups, numeric passes, placeholders |
| `EmissionProofs` | theorems about `Emission` |
| `OneVerdict` | what an evaluation promises: the abstract specification of `WarmEvaluators` |
| `WarmEvaluators` | the executor's threads, the evaluators and their processes, the merging main thread |
| `WarmEvaluatorsProofs` | theorems about `WarmEvaluators`, the refinement of `OneVerdict` among them |
| `Ordering` | a finite set of numbers in order, as `sorted` gives it |
| `ReferenceBatch` | `guarded_ref_batch` and its children |
| `PruneTests` | `prune_tests` on top of `ReferenceBatch`, with its two files |
| `PruneTestsProofs` | theorems about `ReferenceBatch` and `PruneTests` |
| `NativeEvaluation` | chunks, bisection, runs and scores of the native evaluation |
| `NativeEvaluationProofs` | theorems about `NativeEvaluation` |
| `ContractGates` | one check of a contracted program, with the child process |
| `ContractRepair` | the repair loop on top of `ContractGates` |
| `ContractRepairProofs` | theorems about `ContractGates` and `ContractRepair` |
| `BenchCuration` | `curate` and `regen`, killed and resumed |
| `BenchCurationProofs` | theorems about `BenchCuration` |
| `MC...` | the instance of each for TLC |

### LeanClient

Each thread runs one call at a time. A translation takes the session's lock (`Acquire`), and `Call` chooses one of
its request methods (`translate` / `request`, `infer_types`, `prove_file`), which differ in what they do when no
answer comes: a one-shot process, the unchanged AST, an error. `StartSession` is `Session.start`: it boots the
child (`StartFirst`) and asks for the library facts, all without the lock. Then `Start`/`Spawn`, `Write`,
`ReadLine` or `NoAnswer`, the lines of `close()`, `OneShot`, `Release`, as in the code. The child is a process with two
pipes. It boots (`Boot`, the Mathlib import), serves one line after another (`Serve`), and may die whenever it likes
(`Crash`, `CrashMidLine`). A request carries the identity of its call, so an answer that reaches another caller is visible.

`close()` reads `self._proc` afresh at every line, and so does the model: `EndInput` closes the input of whichever
child is there, `Reap` waits for it (`awaited`) or kills and closes whichever is there afterwards, `Drop` clears `_proc`
and `_warm`, whatever has been put there meanwhile. A thread goes through these lines inside its call
(`CloseBegin`, `CloseReap`, `CloseEnd`, with the escapes `CloseRaises` and `CloseFails`), and
`Session.close` through the same at any point beside it (`StopBegin`, `StopReap`, `StopEnd`, ...), since it takes no lock.
`raced` records that it has run beside a call.

`Alongside` says whether the program may run `Session.start` beside a translation. Nothing in `Session` prevents it, but
no caller in the repository does it: the HTTP server starts its session in its lifespan handler, the MCP server under a
lock of its own, scripts by `with Session(...) as s`. So the run and the theorems take it as FALSE. With TRUE TLC finds
`ReplyIsOwn` violated (two lines on one pipe, and either reader takes the other's answer) and `NoOrphanBackend` too (two
spawns). Without the premise `~raced` it finds `NoOrphanBackend` violated even so: `Session.close` waits for the
old child while a call starts a new one, and then clears `_proc` over it.

Each thread acts between two statements that touch shared state. Coarser than the code are: `select` and
`readline` are one step (a line is flushed whole, and `CrashMidLine` covers the child that dies within it);
`self._proc = None` and `self._warm = False` are one step; `lake env` and the process it wraps are one process; and one
`Session.close` runs at a time (a bound).

### WarmTranslation

A translation is the sequence `Begin` (takes the session's lock), `SetOptions`, `FrontEnd`,
`SetHeap`, `Infer`, and for every statement and numeric pass `SetPass`, `Send` and `Translate` or
`OneShot`, then `Finish`, which reads `_LAST_UNSUPPORTED` before it lets go of the lock.
`IrOnly` is `to_json_ir`. `Restart` is a process that dies between two requests.

A file is a sequence of statements: classes, functions, the `__main__` guard, and others. A statement has a name, the
names it uses, and what lowering it registers: the metadata of a class (two values are enough to
tell an own class from a stranger's) with its methods, its container fields, whether its value is real. It also has the
methods it calls on receivers whose class the front end could not tell (`asks`): for these the generator searches the
whole registry by method name, and finds the class only if no other declares the method (`Receiver`, which is
`classOfMethod?`). `After` gives the process after a request: `Enter` sets every request ref, and `Lower` does what the generators
do to the registries. `View` is what lowering a statement reads of the process, and `Cold` computes, pass
by pass, the process a file would meet if it were the only file translated. The safety properties compare the
two. The history variables `intact` and `past` say when the comparison is fair: one process lowered the
whole file and is the same still, and what earlier files it has met. Their premises are real limits of the code: an earlier
file's class of another name that declares a method of the same name makes a file's own receiver ambiguous, and
then the statement is refused or lowered otherwise. `NothingOwnIsMissing` excepts such methods, and `WarmLikeCold` asks that
the file share neither a name nor such a method with the files before it.

Threads that share a client are assumed to share a Session (`ConstantsAssumption`);
`LeanClient` covers the others. An exception within the heap prelude and `_USER_NAMES` (set and read within one
translation to mangle names) are left out. A refused `class` is a method that mutates `self` and returns a value, the only
shape that leaves a ref set.

### Emission

The recursion of `emit_function_group` is the variable `stack`; a frame holds the group and the
callees not yet visited, which `Pull` takes in alphabetical order. `Reach`, what the code's search from a
function reaches, is the least set closed under references; groups are functions that reach each other. `Ready` starts to send,
`PassSucceeds` collects the code of one pass, `Emit` appends it. The backend may refuse any pass:
`Degrade` appends a placeholder in best-effort, `Refuse` ends a strict translation.
A part of the output records which statements it was sent for and which names it declares; the properties are about
declared names. The placeholder of a refused group declares only the function that was asked for, although all of its
members count as emitted: the others are declared nowhere, and `Lost` says exactly which. `NothingLost` and
`CalleesFirst` allow this loss and no other. The `__main__` guard (`guard`) is sent once per pass, as definitions are,
other top-level statements (`top`) once. Comments, imports and the heap prelude are left out: the first two send nothing,
the prelude stands in front of everything.
A file defines each function once: of a function defined twice the code
emits the last definition, and both if it belongs to a mutual group.

### OneVerdict and WarmEvaluators

A thread of the executor takes a problem and an evaluator (`Take`), asks for the solutions one by one
(`Eval`, `Boot`, `Booted` or `BootFails`, `Write` or `WriteBroken`, then `Read`, `ReadEof` or `Timeout`), and
returns both (`Finish`), or leaves by an exception anywhere outside `eval` (`Raise`), in which case
`finally` puts the evaluator back all the same. Problems of the stdio kind run each solution in a process of
its own (`RunStdio`) and never touch the evaluator they hold. The process of an evaluator boots
(`Ready`), answers (`Serve`) and dies (`Die`) as it likes; `inbox` and `lines` are its pipes, the
second with the reader thread's queue, so `Eof` arrives after what was sent before it. Boots are
serialised by the class-wide lock. `evals` counts as `_evals` does, across reboots, and the history field
`served` counts what one process was asked for. `poll()` may answer before it has noticed a
death: `Eval` on a dead child goes either way.

The main thread merges results as they come (`Merge`), closes the evaluators (`Close`), writes the report
(`WriteReport`), and raises in `WriteDivergences` if a problem raised, as the code does.

`OneVerdict` says each problem's verdict is decided once, by outcomes that problem may have, and that none stays
undecided. The refinement maps `verdict` to what the main thread merged. An answer is identified
by the solution it evaluates although the line on the pipe is not, so an answer read for
another solution would be a verdict that is not allowed.

### ReferenceBatch and PruneTests

The parent of `guarded_ref_batch` alternates between a child started at case `at` (`Fork`), results taken
from its pipe (`Receive`), and the end of that child: a stall (`Stall`), the end of the stream
(`EndOfStream`), `Reap`. Each case has a fixed kind: it returns, raises, exhausts memory, hangs, or takes
about as long as the deadline, so that either side may win. `PruneTests` reads, judges and rewrites
`tests.json` and `excluded.json`. `write_text` truncates a file and fills it in place, so a write is two steps
(`OpenTests`, `WriteTests`; `OpenExcluded`, `WriteExcluded`). `Interrupt` ends the command at any point; in the middle of a write it
leaves the file cut off (`cut`; `hit` records where a kill fell). `Read` starts the command again, and `ReadRaises` is the next
command on a `tests.json` that is not JSON any more. Good cases are lost in this one way, which `GoodCasesStay` names. The
default of `not-run` is part of the model and no run ever reports it.

### NativeEvaluation

Each harness compiles and links, does not elaborate, or breaks every dispatcher it is part of; the
largest dispatcher the linker can take and the chunk size are arbitrary. `todo` is the call stack of
`build_chunk`, filled with the harnesses that elaborate in ascending order: `Bisect` replaces a call by its
two halves. `Score` is one result in completion order. When nothing linked the evaluation returns an empty
summary (`AllLinked`, phase `nothing`) and writes no report: no harness is counted then, not as a compile_fail either, and
`EveryHarnessCounted` says that this happens only when none could be built.

### ContractGates and ContractRepair

`Static` is the gate in the parent; `Oracle`, `Candidate` and `MutantRun` are the calls the child makes;
`ChildFails` loses the child anywhere. What a call returns is a free choice among
the outcomes the code tells apart. `args` counts, per recorded input, how often a call has changed the list
in place, since `dict(args)` copies one level. `max_problems` is looked at after a call only: an input that
cannot be parsed is a problem whose `continue` passes the limit by. `met` collects what a mutant did on its inputs, and
`VerdictAsDefined` fixes the verdict by that set. `ContractRepair` adds the loop: the existing contracts
are checked first (`Load`), then `Regenerate` asks the critic and the generator, `Keep` compares by
all four components of `_rank` (scores as fractions), `Write` writes. The model may return the old text. A
candidate may get another report each time it is checked, since deadlines are real time. With the default output directory
the file that `Write` replaces is one the loop has never read; only the contracts beside the solution are compared.

### BenchCuration

`cache` is `gate.json` in memory, `saved` the file. `Ask` is a thread of the pool that pays for an
answer and stages it; `Collect` is the main thread, which saves at each pass and at every tenth result
(`SaveEvery`). `Compile`, `Pick`, `Materialize`, `Copy` and `Regen` follow in order; `skip` is `--skip-compile`, under which a
pass of the contract gate is enough (`ungated` remembers those units). Answers are numbered per
candidate, so the contracts in a unit, behind its `Generated.lean` and before the compile gate can
be compared. `Crash` kills the command between two writes or within one. Every file is truncated and filled in place, `shutil.copy2`
included: a kill may cut off `gate.json` (`Torn`) and staged contracts (`CutGates`), the manifest (`CutManifest`), a
`Generated.lean` (`CutGenerated`) and a unit's contracts (`CutUnit`), which `not dst.exists()` then never replaces.
`Hang` is a translation whose one-shot process does not end. `StartRegen` is `regen` by itself. A unit's
directory that held contracts before the first curation is not modelled, nor are `--force`, the command `select`, `Proofs.lean`
(kept if it exists, cut off or not) and human edits.

## Runs

| run | instance | shows |
|---|---|---|
| `client_shared_lock` | 2 threads, 1 lock, 2 calls each, sessions started first, any number of crashes, children and `Session.close` | the safety of the client, that it refines `AnswerOnce`, that a call moves on to its end or to a place without a deadline |
| `warm_translation` | 2 threads, 1 session, one file each of six, all options | the options and the report are the translation's own; leftovers hide nothing, but for a shared method name |
| `warm_own_sessions` (violation) | 2 threads, 2 sessions, 2 clients | requests with another translation's options |
| `emission` | all 729 patterns of calls and other references among three functions in each of two orders; files with a class or guards between functions | order, uniqueness, twins, and what a refused group loses |
| `emission_class_order` (violation) | the same | a function pulled forward goes out before the class it instantiates |
| `warm_evaluators` | 2 threads and evaluators, 3 problems of which one is stdio, reboot after 2 | the evaluation implements `OneVerdict`; the pool, the limit and the report are kept |
| `prune_tests` | 4 cases of any kinds, one of them unparsable, two passes, killed anywhere, within a write too | cases and results stay aligned, good cases stay unless `tests.json` itself is cut off, the command ends |
| `prune_on_record` (violation) | the same | a case can be in neither file |
| `native_evaluation` | 4 harnesses of every fate, all chunk sizes and limits | only offenders are excluded, every harness of a written report counts once |
| `contract_repair` | 2 inputs, 1 mutant, 2 regenerations, one problem allowed, with and without a threshold, with a critic | what is written passed and is the strongest seen |
| `contract_inputs` (violation) | the same | Ensures read a list the call has changed |
| `bench_curation` | 3 candidates for 2 places, 2 kills, with and without `--skip-compile` | published contracts compiled, answers on record are not paid for again, the command ends or hangs in a translation |

The largest are `warm_translation` (about 790,000 states up to symmetry) and `client_shared_lock` (about 780,000,
with liveness; some two and a half minutes on two workers).

Why the bounds are enough. Two threads are what a race on one client or on the globals needs. The
client's run lets a thread call again after a failed call, so a late answer has a later call to
reach, lets a second child replace the first, and a `Session.close` meet a call at each of its lines. One file per thread
makes two files through one process, one after the other, the least in which one can meet the other's
leftovers, and two at once where sessions differ; the programs in `MCWarmTranslation` share a class name with
different metadata, declare one method in two classes and ask for it by name, declare container fields, chain a
noncomputable function, box a variable without any class, and contain a statement without a lowering at either level. Three functions give chains, diamonds, groups of two
called from outside, and groups of three, in an order that agrees with the alphabet and one that does not.
In `warm_evaluators` a reboot falls due within a problem and between problems, an evaluator changes threads,
and a problem has further solutions for a late answer to reach. In `prune_tests` a bomb has good cases before and
behind it, two bombs meet, and an unparsable case shifts the indices. Four harnesses give chunks of one to
four, a rest, and bisection twice. Two inputs and one mutant give a mutant every sequence of two outcomes,
and the first input can be the one that passes the limit of problems by;
two regenerations let a better candidate be followed by a worse one and the reverse. Three candidates for two
places leave one over, or fall short, and two kills let a resumed run be killed again.

Deadlock checking is off where the system stops: threads at `MaxFiles`, a command that is done or was
interrupted for the last time.

## Fairness

`LeanClient`: weak fairness of what the client itself does in a call (`Timed`): straight-line code whose waits have
deadlines (`_read_response`, the two seconds of `close()`). The steps that end a `subprocess.run` without timeout are not
fair (`Untimed`): `lake build` behind its file lock, and the one-shot retry. Neither is anything of the backend: it need
not import, answer or die. So `CallReturns` promises no more than the code can: a call moves on until it
returns or is where no deadline is set (`NoDeadlineSet`): a build, a one-shot process, or the write of a long task to a child
that does not read.

`WarmEvaluators`: weak fairness of each thread and of the main thread, both straight-line code whose
waits have deadlines; none of the children, which need never boot, answer or die, nor of `Raise`.
`PruneTests`: weak fairness of the command and of its child; a case that hangs takes no step.
`BenchCuration`: weak fairness of the command, which covers starting it again after a kill: that a killed
sweep is resumed is up to whoever runs it. A translation that falls back to a one-shot process may hang (`Hang`)
and then nothing is fair: no verdict is recorded for the candidate, and a resumed command meets it at the same place.
`Finishes` therefore ends in `done` or `hung`. The others state safety only.

## Proofs

Every invariant that a passing run checks is also a theorem, for all values of the constants, and so is
the safety half of both refinements. The assumptions are those of the modules (each checked by TLC on its
run): finite sets of threads, cases, harnesses and candidates, counters that are numbers, files that are
sequences of statements. Theorems that need more say so: most of `LeanClientProofs` and
`WarmTranslationProofs` assume one lock (`SharedLock`), which is what the Session API asks of threads that share a client,
those of `LeanClientProofs` also that sessions are started before they are used (`~Alongside`),
and `DeclaredOnceAlways` assumes that no file declares a name twice (`EachNameOnce`).

None of the properties is inductive as it stands. What each module adds, and why:

**`LeanClientProofs`** proves `TypeCorrect` for any threads, calls, long tasks, locks and starts, and for threads
that take one lock and sessions started first `RepliesAreOwn`, `BudgetsAreSafe`, `NoOrphans`, `PipesAreQuiet` and `Refines`
(`LeanClient` implements `AnswerOnce`), with `Session.close` at any moment. That a reply is the caller's own depends on what the
pipes held when the request was written, which depends on how the call before ended: with an answer read, or with the child
discarded. `IInv` adds `OneInside`, at most one thread is inside and only there has it a
call open; `PipesOwn`, what the pipes hold belongs to the thread that waits on them and is at most one
line; `BootFacts`, a child that has answered has booted; `ClosersOwn`, which child each `close()` is taking down and that,
until a `Session.close` runs beside a call, it is still the one in `_proc`; `OneShotOnlyTranslates`, only `request` retries. With a
lock per thread TLC finds `ReplyIsOwn` violated, and with `Alongside` too, so both assumptions are necessary.

**`WarmTranslationProofs`** has two parts. `RequestsAreOwn` and `ReportsAreOwn` follow a value from the global it
is set in to the request or report it is copied to many steps later: `OptionsInv` adds that one translation
at a time is inside, and what the globals hold for it at each place. `warm_own_sessions` shows that the
shared lock is necessary. `NothingOwnIsLost` and `WarmIsCold` compare the warm process with the cold one
that `Cold` computes. `WarmInv` runs the two side by side: while a file is translated by one process, that
process has everything the cold one has where the thread is, and of each method the same classes unless an earlier file
declares it (`Covers`); if the file's names are new to the process, both know the
same of them (`Agree`); a process knows no names but those of files that ended on it and of the one
inside; and the mutator flag is set by nothing but a failed file. The lemmas say that a request preserves `Covers` and
`Agree` (`AfterKeeps`), that a statement sees no more than that (`ViewCovers`, `ViewAgrees`), and that the
driver's next pass is the cold process's next pass (`ColdNext`), for which the equation of the
recursive function `Cold` is derived (`ColdSteps`). `TypeCorrect` needs no lock.

**`EmissionProofs`** covers any file, call graph, best-effort setting and refusals. The recursion of
`emit_function_group` ends without re-entering a pending group because the pending functions form a path down the graph of groups:
each was reached from the one below and does not reach it back (`StackOK`). What is out are whole groups
and all that the loop has passed (`OutOK`). `NeverReentered`, `NothingLostAtAll` and `CalleesBeforeCallers`
follow (what is out is declared, or `Lost` with the group it was refused in), the last from the fact that what a pending group calls is in the group, still to be
visited, out, or on the stack just above it. `TwinsTogetherAlways` needs that a placeholder declares what the passes would
have declared (`TwinsOK`), `DeclaredOnceAlways` that a part declares only names of its own statements (`DeclaresOK`).

**`WarmEvaluatorsProofs`** proves the type invariant, `NotOverused`, `PoolKept`, `ReportWhole`, and `DecidesOnce`: the evaluation
implements the safety part of `OneVerdict`. Answers carry no name, so that a verdict is made of answers to
the problem's own solutions rests on the pipes: an evaluator that is not being read owes nothing, and one that is read owes
exactly the answer its thread waits for, or has died of it (`PipesOK`). The limit rests on `served`
running behind `evals` by the evaluation in preparation since the last scheduled reboot (`RebootOK`); the
report on each problem being in one place: to be taken, with one thread, finished, or decided (`ProblemsOK`).

**`PruneTestsProofs`** proves `ResultsAligned` and `ForksPaidFor` for any batch, from: the results in the pipe
are those of the cases from `at` on without a gap, and a child is at the next one or died of it
(`PipeOK`, `ChildOK`); `GoodCasesKept` for any number of passes and interrupts, from: only faulty cases are ever out of
spec, and a file is cut off only while the parent writes it or after a kill there (`CutOK`). **`NativeEvaluationProofs`** proves `OffendersAlone` and `AllCounted` for any number of harnesses, chunk size and
limit, from: a harness that elaborates is excluded, in a snapshot with an arm for it, or in a chunk to come
(`LinkOK`), which rests on the chunks covering all harnesses (`ChunksCover`) and on a bisection losing none (`Halves`).

**`ContractRepairProofs`** proves `VerdictsCorrect`, `WrittenPassed`, `BestKept` and `NothingSpent` for any inputs,
mutants, attempts and thresholds; `BestKept` rests on `_rank`, with scores as fractions and None below all, being a strict
weak order. **`BenchCurationProofs`** proves `PublishedCorrect` and the action property `PaidOnce` for any
candidates and any number of kills, within writes too: a verdict on the staged answer stays until the answer changes, a
staged file that was cut off has no verdict, and every answer but the first is paid for by a kill.

Only model-checked is what the prover cannot reach: liveness under fairness (`CallReturns`, `Ends`,
`Finishes`, and `VDone` within `OneVerdictEach`). No result rests on an induction theorem that takes a predicate: where
an argument is an induction (`Counting`, `LeastIsOne`), it is made on a set of numbers by the minimality
principle `WFMin`.

Proving found two errors of the model that the runs' bounds had hidden, both in `WarmTranslation` and both
repaired: a one-shot answer ended the comparison for the thread that met it but not for an earlier file of the same process, and the
range of `at` was claimed between files, too.

## Disagreements between code and documentation

Those a run shows, with the line they contradict in `findings` of `PROJECT.json`:

- Sessions of their own do not make threads independent, since the options are globals of a module
  (`warm_own_sessions`).
- The class registry can lack a class of the same file, because emission left the source order
  (`emission_class_order`).
- Pruning loses cases from both files, when interrupted between the writes or within one and when a second pass rejects
  more (`prune_on_record`).
- The Ensures of a program that changes its arguments read the changed ones (`contract_inputs`).

Those the models contain and no run states:

- "A `Session` serialises its own calls with a lock" (`src/api.py:17-18`): `translate` and `to_json_ir` do, `start` and
  `close` do not (see `LeanClient` above for what follows).
- The module-level `translate()` takes a new lock at each call, around one client for the process.
- The Lean backend "sees one statement at a time, with no shared state" and lowers method calls "deterministically"
  (`src/transpile/driver.py:1880-1881`, on the hints it is sent): calls without a hint are resolved in registries that
  all files of the process share, and a method of another file's class changes the lowering (`WarmTranslation!Receiver`).
- `valueMutatorRef` survives an exception in strict mode.
- A statement lowered by a one-shot process leaves its class unknown to the warm one.
- References that are not calls do not order the output.
- "Keeps the declaration's name where possible so references still resolve" (`src/transpile/driver.py:1998-2001`, and
  2179-2181 on twins): the placeholder of a refused group declares one of its functions, and references to the others
  resolve to nothing (`Emission!Lost`).
- "The individual offending module(s), which are marked `compile_fail`" (`cp_harness/cpasta_eval.py:2023-2024`): an evaluation in which nothing
  links reports none of them (`NativeEvaluation!AllLinked`).
- The native report keeps one solution per problem (`NativeEvaluation!Score`), and `_write_divergences` raises
  if any problem did (`WarmEvaluators!WriteDivergences`).
- `docs/contract-qa.md:125-126` and `src/transpile/contract_qa/dynamic.py:394-395` define CRASHED as "only ever raised or hung" and EQUIVALENT as
  told apart by no input: a mutant right on one input and crashing on another is CRASHED. KILLED is "some Ensures was
  false": an Ensures that cannot be evaluated kills as well (`ContractGates!Judge`).
- "A unit that already passes costs nothing" (`src/transpile/contract_qa/__main__.py:8-9`), at any `--attempts`
  (`docs/contract-qa.md:186`): one below `--min-mutation-score` is regenerated (`ContractRepair!GoodEnough`).
- `max_problems` does not stop at inputs that cannot be parsed (`ContractGates!Candidate`).
- "Costs nothing to resume" (`PastaBench/pastabench.py:473-474`) and "Fully resumable": an answer whose verdict was not saved is
  paid for again, a cut-off `gate.json` ends every later command, a cut-off `solution_contracts.py` is never
  replaced, and a candidate that hangs does so again (`BenchCuration`).

## Not modelled

Pure translation (the node visitor, the Lean syntax generators, the type engine) and the runtime
library: functions without state, better served by the Lean theorems and tests they have. The
servers and command lines add no state to what their Session does, except the MCP workspace. Prover
search and compilation are one subprocess per call. The scoring scripts of the inference
benchmarks read finished results. Most of the Python under `PastaBench/` is the benchmark itself, a
thousand small programs and their contracted twins: input of the system and not code of it,
so a share of the repository's lines says little about what is covered. What is left of the system proper is pure:
a formula about it would restate it.

## Plan

1. `AnswerOnce`, `LeanClient`, `LeanClientProofs`: done.
2. `WarmTranslation`, `WarmTranslationProofs`: done.
3. `Emission`: done. `OneVerdict`, `WarmEvaluators`: done.
4. `ReferenceBatch`, `PruneTests`, `NativeEvaluation`: done.
5. `ContractGates`, `ContractRepair`: done. `BenchCuration`: done.
6. `BenchCurationProofs`, `ContractRepairProofs`, `PruneTestsProofs`, `WarmEvaluatorsProofs`,
   `EmissionProofs`, `NativeEvaluationProofs`, the registries in `WarmTranslationProofs`: done.
7. Action properties worth a run and a proof: `emitted` and the output only grow, a verdict in the report
   keeps its outcomes, `report` in `WarmTranslation` is written once per file.
8. Theorems of `LeanClient` with `Alongside`: what is left of the pipes' discipline when `Session.start` runs beside a call
   (each line is still answered at most once).
9. `TypeInferClient`, `McpWorkspace`: the line client without deadlines, the workspace files.
