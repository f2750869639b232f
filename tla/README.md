# Rib in TLA+

Rib is a small, typed, expression language to drive WebAssembly components:
`rib-lang` parses, infers types, compiles to bytecode for a stack machine and
interprets it; `rib-repl` is an interactive session on top, which a host embeds.
This directory models the parts of the two crates whose behaviour is decided by
sequences of steps, checks the models with TLC, and proves what matters most
with TLAPS.

## 1. Inventory

| component | state | operations | what is hard about it | what makes it correct |
|---|---|---|---|---|
| **REPL session** (`rib-repl/src/rib_repl.rs`, `repl_state.rs`, `invoke.rs`, `eval.rs`, `instance_name_gen.rs`, `raw.rs`, `compiler.rs`) | the lines accepted so far; a result per call instruction; the last instruction executed; the names of instances; the interpreter of the line in hand | `execute` (push, compile, run, pop on error), `:clear`, `invoke` (cache or host), `generate_worker_name` | each line compiles the whole script anew and re-runs it against a cache keyed by instruction index; a use in the new line types the lets of earlier lines; lines fail half-way; the host's answer is awaited and the future may be dropped; the cache outlives the lines it was filled by | as long as the earlier lines compile to what they ran as, their bindings are restored exactly and no call is made twice; when they do not, all of it runs again; a bare `instance()` is a worker of its own |
| **Interpreter** (`rib-lang/src/interpreter/`) | instruction cursor, value stack with iterators and sinks, environment | one handler per `RibIR` instruction, end of program | an operand is found only by its position on the stack; iterators and sinks live on the same stack as values; calls leave the machine | the value is the one the language guide gives the expression; no "corrupted state" error; every program ends |
| **Bytecode compiler** (`rib-lang/src/compiler/byte_code.rs`, `ir.rs`) | work stack of expressions and instructions, output (built backwards), label counter | `process_expr` and its `handle_*` | code is produced last instruction first; labels must be unique; loops, branches and operands must keep the machine's stack balanced | compiled code computes what the expression means; operands are evaluated once |
| **Desugaring of `match` and ranges** (`compiler/desugar.rs`) | none | `get_conditions`, `build_expr_from` | nested patterns become conditions and bindings over projections of the predicate, which is duplicated into each | the first arm that matches is taken, with its bindings; nothing is projected out of a value of another shape |
| **Number semantics** (`interpreter/literal.rs`, `expr.rs`) | none | `cast_to`, `+ - * /`, comparison over u64 / i64 / f64 carriers, literals of a type | mixed carriers are converted to 64 bits before the operation; every cast has bounds of its own | a result is exact or an error; order and equality agree |
| **Parser and printer** (`parser/`, `text/writer.rs`) | none | text to `Expr` and back | alternatives tried in a fixed order, failures that end the attempt, words that begin with a keyword, nothing printed around operands | the texts of the grammar are accepted; an expression prints and parses back |
| **Syntax tree** (`expr.rs`, `expr_arena.rs`, `expr_visitor.rs`) | arena of nodes, table of types | lowering, traversal orders, rewriting, rebuilding | passes keep node ids while others rewrite nodes and move their parts | each node is in the tree once, and has a type |
| **Inferred types** (`inferred_type/`) | none | `unify_types`, `merge`, `all_of` | order of the uses a type is collected from; a table of tasks indexed while it grows; defaults of literals beside stated types | the type does not depend on the order; nothing collected is lost |
| **Type inference** (`type_inference/`) | a node and a type per expression, the identity of each variable | some 20 passes in order, two loops of passes until types rest | passes over the whole tree overwrite what others decided; scoping by passes per kind of binder; conflicts live as alternatives; the loops have no bound | a use is bound to the nearest binder; what is accepted is well typed; the loops come to rest |
| **Type refinement** (`type_refinement/`) | none | is a type a record, a list, ...; what is inside it | alternatives of several kinds | all alternatives count |
| **Type checker** (`type_checker/`) | none | checks on the typed tree, exhaustiveness of `match` | nested patterns, wild cards, constructors that are only names | accepts a `match` only if each value has an arm; refuses only what is wrong |
| **Function registry, instance types** (`registry/`, `function_name.rs`, `instance_type.rs`) | dictionary of exports | lookup by package, interface, resource, method | several exports of one name, resources | a method resolves to one export or is refused |
| **Values and text** (`value*.rs`, `wit_type.rs`, `wave.rs`, `wasm_wave_text.rs`, `text/`) | none | conversions | - | round trip |
| **Completion, values of the host** (`rib_edit.rs`, `compiler.rs`, `value_generator.rs`, `rib_val.rs`) | symbols of the last line that compiled | the functions offered after `x.`, the call filled in with values made up for its arguments; values to and from the host | the symbols are those of another program than the session's after a line failed, `:clear` or a name let again; who takes the resource as an argument differs between signature and call; the host answers what it likes | what is filled in compiles; what the session has is offered; a value of the host enters the program only if it has the declared type |
| **REPL commands, printing** (`command/`, `repl_printer.rs`) | none | `:clear` (above), commands that print | - | - |

Interactions. `RibRepl::execute` calls the compiler (which calls the parser,
inference, the checker and the bytecode compiler) and then the interpreter; the
interpreter calls back into the session through two traits,
`RibComponentFunctionInvoke` (`invoke.rs`) and `GenerateInstanceName`
(`instance_name_gen.rs`); `invoke` awaits the embedder's host, the only place
where the outside world runs between two steps. There are no threads: the
future of `execute` borrows the session exclusively.

## 2. Plan

Order: what decides the user-visible result first.

| | modules | state |
|---|---|---|
| the session, its replay, the promise it implements | `ReplLang`, `ReplSession`, `ReplReplay`, `ReplPromise`, `MCRepl`; `ReplReplay_proofs`, `ReplPromise_proofs` | written, proved |
| from an expression to its value | `RibTerms`, `RibDesugar`, `RibCompile`, `RibVM`, `RibMeaning`, `RibPipeline`, `RibAgreement`, `MCRib`; `RibCompile_proofs`, `RibPipeline_proofs` | written, proved |
| the type an expression gets from its uses | `RibSignatures`, `RibTypes`, `RibUnify`, `RibUses`, `MCUses` | written |
| inference and the checker | `RibRegistry`, `RibArena`, `RibScope`, `RibCalls`, `RibFlow`, `RibArms`, `RibCheck`, `RibFront`, `RibJudge`, `MCFront` | written |
| numbers | `RibNumbers`, `MCNumbers`; `RibNumbers_proofs` | written, proved |
| texts | `RibRead`, `RibWrite`, `RibGrammar`, `RibText`, `MCText` | written |
| completion, conversion of host values | `ReplHost`, `ReplEdit`, `ReplPrompt`, `MCPrompt`; `ReplEdit_proofs` | written, proved |
| left open | the exact height of the stack at each instruction, where no leftovers are: `NothingMissing` says only that it is high enough | - |

The parts meet as the crates do: the trees `RibRead` makes of a text have the
constructors `RibArena` lowers (`Term`, `Pattern`), the types they carry are
those of `RibTypes`, and `RibFront` runs over both. `ReplPrompt` compiles every
line with `RibFront` and is otherwise `ReplEdit`, the prompt with the compiler left
open. What the compiler and the prompt both look at, types, functions and
instances, is in `RibSignatures`. `RibTerms` begins where the
front end ends, with variables that are told apart and a type where the compiler
looks at one. The session abstracts all of it to what a line does.

## 3. The session of the REPL

### Modules

| module | role |
|---|---|
| `ReplLang` | values, instructions and what an instruction does inside the interpreter, abstracted to what the session can tell apart |
| `ReplSession` | the session: one action per way `execute` proceeds |
| `ReplReplay` | the session with the history variables `trace` (the execution in progress), `ran` and `path` (the program that was committed, and its execution), and every property |
| `ReplPromise` | abstract specification: a session without cache and replay |
| `MCRepl` | the lines TLC types and what a script of them compiles to |
| `ReplReplay_proofs` | the theorems about the replay and the instances |
| `ReplPromise_proofs` | the session implements its promise |

| action | code |
|---|---|
| `Reject(l)`, `Start(l)` | `execute` up to the interpreter: push, join the lines, parse, reset the instance count, infer the types of the whole script and generate its code; on an error pop |
| `Compute` | an instruction that stays inside the interpreter |
| `GenerateName` | `GenerateWorkerName` and `generate_worker_name` |
| `CachedCall`, `HostCall`, `HostError` | `ReplRibFunctionInvoke::invoke`: cache hit; host answers; host errs or its value cannot be converted |
| `RuntimeError` | an error of the interpreter |
| `Finish` | end of program, `update_last_executed_instruction` |
| `Cancel` | the embedder drops the future at the await of the host |
| `Clear` | `:clear` |

The compiler is a constant: `Compiled(s)` is the program of the whole script `s`, or
none. It is applied to the whole script with each line, as `execute` does
(`rib_repl.rs:190`), and nothing is assumed of how the program of a script compares
with that of a longer one. It may differ anywhere: a later use of a variable is
merged into the type of the let that bound it (`identifier_inference.rs:53-63`,
`84-86`), which is pushed into the operands (`type_push_down.rs:230-240`) and
written into literals and arithmetic (`byte_code.rs:154-243`). So a line can change
the value a committed line binds, the branch it takes, or make it overflow, or no
longer compile; the language guide (`docs/language-guide.md:263-277`) has the type
of `x` in `let x = 1` depend on a later call. `MCRepl` has such lines: `f64` and
`u8` state the type of the number that `n` (`3 / 2`) or `big` (`200 + 100`) bound
earlier and that `if` branches on.

A line is a name; only whether it parses or ends in a comment is known of its
text. The host is external: a worker counts the calls it served and answers with
the count, the stateful export the language guide uses, so that a call made twice
shows. A uuid is the number of names drawn before it: new, because the name cache
never forgets.

### Properties

The replay can only be faithful to lines that still are what they ran as. `PathKept`
says it: at each instruction the committed execution went through, the program has
the instruction that was executed there; of branches not taken it says nothing.
With it,

* `ReplayRestores`: when the replay of the earlier lines ends, environment,
  position and instance count are those of their execution.
* `ReplayIsPure`: workers change state only on behalf of the new line.
* `ReplayNeverFails`: a line is refused at run time for what it does itself.

Without it the three are false of the code: `ValuesKept`, `ReplayCallsNobody` and
`OwnFaultOnly`, in section 11. Whatever the lines compile to,

* `InstancesDistinct`: two bindings made by bare `instance()` never share a worker.
* `KeepsItsPromise`: the session implements `ReplPromise`, under the mapping at
  the end of `ReplReplay`. Kept are the bindings at the end of `path`. If the program
  begins with `ran` (`AsRun`), the task is the part of it past `last`, and the replay is no
  step of the promise. If not, the task is the whole program, run from nothing
  (`again`), and the old execution is worth nothing but answers: the cache still
  applies, so a call may be answered by what a worker answered before (`Recall`).
  Even then a line that fails leaves the bindings as they were, one that ends has
  exactly the bindings of the script, and no two instances are one. The prompt may
  thus cost the user calls and values of earlier lines, and the promise says when.
  A line the embedder drops stays in the script, uncommitted, and runs before the
  next one. Its calls are made again, also those its worker has served already, and
  if it fails then, it is the new line that is popped.
* `Answered`: a line that was accepted ends.
* `ValuesKept`, `FreshWorker`, `GoodLinesAccepted`: what the documentation promises and the
  code does not keep (section 11). `FreshWorker` fails after `:clear` too: `clear`
  resets three of the four parts of the session, not the name generator
  (`repl_state.rs:63`), so the cleared session starts with the old workers.

### Fairness

`Answered` assumes weak fairness of the steps of the interpreter only: the
embedder polls the future it was given and the host answers or errs. Nothing is
assumed of the user, who may stop typing; hence `CHECK_DEADLOCK FALSE`: when
`MaxSubmissions` lines were typed, or on purpose, nothing more happens.

### The prompt

| module | role |
|---|---|
| `ReplHost` | values: made up (`value_generator.rs`), converted to the host and back (`rib_val.rs`) |
| `ReplEdit` | the session of the prompt: lines typed and filled in, what completion knows and offers, the answers of the host; whether a line compiles is left open |
| `ReplPrompt` | the same, each line compiled by the passes of `RibFront` |
| `ReplEdit_proofs` | the theorems about the conversions and the session |
| `MCPrompt` | the lines, the component and the answers |

| action | code |
|---|---|
| `TypeLine`, `Complete` | `execute` with a line that was typed, or that `RibEdit::complete` has filled in |
| `Compile` | one pass of `infer_types` |
| `Learn` (`Accept`) | `update_progression`: completion takes the symbols of the program that compiled |
| `Reject` (`Refuse`) | a compilation error, and `remove_last_rib_expression`; nothing catches a panic |
| `Ends` (`Run`, `NoValue`, `FailRun`), `Answers` (`GetValue`) | the run ends: no call, a call without a value, an error; a call with a value |
| `Clear` (`ClearSession`) | `:clear` |

The actions are those of `ReplEdit`, with the action of `ReplPrompt` that adds the
compiler to them in brackets. The property `SpecEdit` of the run says that
`ReplPrompt` implements `ReplEdit`. What it owes it is in `Compiles`, the names a
script lets are known when it has compiled, and in `NextEdit`, where a call is taken
to return what its signature says; that the compiler keeps both is what TLC checks.

The conversions go down a value along its type, by recursion in the code. In
`ReplHost` each is a constant (`Generated`, `ToHost`, `FromHost`), and a definition
with the name of the function in the code (`GenerateValue`, `ValueToRibVal`,
`RibValToValue`) is its body, with the constant where the code calls itself;
`MCPrompt` gives the constant the body, so that TLC runs the recursion, and the
assumptions say that the constant is a solution of it on a set of types `WitTypes`,
closed under parts and of some depth (`Size`), and on the values met (`Inside`,
`Outside`). TLC evaluates them for all the types of the component's signatures, all
values of these with lists of none or three elements, and all answers of the host.

The lines are compiled in earnest here, by the passes of `RibFront` (section 6),
while their execution, the cache and the replay are left to `ReplSession`: all that
happens when a line runs is its own call, which the host answers with any value of
`HostValues`. A value made up is printed and read again: `Shown` is the
expression its text is read as, and `IsReadable` excludes the three that have no such
text (handles, characters, a result without a payload: the line does not parse, and
the line editor's validator keeps it from being submitted).

* `CompletedAccepted`: a call that completion filled in compiles. Not for a static
  function (section 11), and only while the session has one let of that name.
* `OffersEveryCall`: what compiles after `x.` is offered, constructors included.
* `KeptOffered`: each variable of the session is offered at the prompt, whatever
  failed or was cleared since; the symbols are replaced, not merged, by each line
  that compiles, and stay when one does not.
* `AnswersTyped`: the value of a call has the type its signature declares,
  whatever the host answers; a result may lack its payload (section 11). The type
  compared with is that of the signature; the one converted with is inferred.
* `FilledCross`: the values made up survive the way to the host and back.
* `SpecEdit`: the refinement above.

Names are compared as wholes: a prefix offers what the whole name does. Nothing is
fair here.

## 4. From expression to value

### Modules

| module | role |
|---|---|
| `RibTerms` | expressions, patterns, types, instructions and values |
| `RibCompile` | `RibByteCode::from_expr`: the stack of work and the label counter, one action per group of `process_expr` arms and per `handle_*` |
| `RibDesugar` | `compiler/desugar.rs`: what a match and a slice stand for |
| `RibVM` | `Interpreter::run`: stack, cursor, environment; one action per instruction |
| `RibMeaning` | the reference: a recursive evaluator written from `docs/language-guide.md`, without bytecode and without stack |
| `RibPipeline` | compiles, loads, runs; what the two owe each other |
| `RibAgreement` | what a run makes, compared with `RibMeaning` |
| `MCRib` | the programs TLC compiles and runs |
| `RibCompile_proofs`, `RibPipeline_proofs` | the theorems about jumps and about the stack |

| action | code |
|---|---|
| `WriteInstruction` | an instruction comes off the work stack |
| `LowerOperands` | every arm of `process_expr` that pushes operands and emits instructions of its own; `Own` is the table of those instructions |
| `LowerBlock`, `LowerStanding`, `LowerIf`, `LowerRange`, `LowerFor`, `LowerReduce` | the arms with a shape of their own, and `handle_if_condition`, `handle_range`, `handle_list_comprehension`, `handle_list_reduce` |
| `Reject` | `PatternMatchDesugarError`: no arm of the match yields a branch |
| `Literal` ... `SinkToList` | one instruction of `RibIR` each |
| `Fault` | an instruction that cannot execute: `Ready` lists what each needs; the outcome names the instruction |
| `HostError` | the host errs |
| `End` | the end of `run`: the top of the stack, unit after a let |

A variable is a name and what tells it from others of that name, as type
inference leaves it (`VariableId`). Numbers are unsigned and unbounded here;
width, sign and floats are in `RibNumbers` (section 7). Types are kept where the
code branches on them: the type of a matched value, and whether an index is a
range. A call says what it is made on: the variable of a worker's instance, of a
resource, or none (`Worker`, `Resource`, `Static`, `Unnamed` of `RibTerms`); what the
compiler makes of each and what the interpreter sends to the host (worker,
function, arguments) is in `RibCompile` and `RibVM`. `Answer` is the host: call
number *k* answers *k* + 1, so that a call too many, too few or out of order
shows in the value; `calls` shows it in any case. `NewName` is the other thing
the embedder supplies, the names of anonymous instances.

The guide leaves the order of operands open; `RibMeaning` evaluates the last one
first, as the compiler orders them, and cuts an open slice `xs[a..]` before its
last element, as `desugar_range_selection` does (the repository's tests expect
it, the guide does not describe it).

### Properties

* `AgreesWithGuide`: the outcome and the sequence of calls are those of the
  guide, for programs that succeed, fail, or are stopped by the host. A call names
  its instance, so this includes the guide's section on workers
  (`docs/language-guide.md:150`): one name, one instance, and a fresh one for each
  anonymous `instance()` that is evaluated, in a loop too.
* `JumpsLand`: a compiled program jumps to labels that exist once.
* `NothingMissing`: whatever branches were taken and loops gone round, the stack
  holds all that the next instruction takes, and the sink that an element is
  collected into. The compiler never says where an operand is: that it is there is
  a fact about all paths to an instruction. What the element is (a Boolean, a
  record, an iterator) is left to `AgreesWithGuide`.
* `Finishes`: every program is compiled or rejected, and then ends.

Which programs. `MCRib` plugs number expressions into every form, once (`Once`)
or twice (`Twice`), and adds programs with several instances, resources and texts
(`Instances`, `Texts`). Six kinds of programs do not have the value of the guide.
One has a run of its own, `rib_nested` (section 11); the others are at the end of
`MCRib`, one line of a configuration away (`Programs <- MCDiscarded`):

* `MCDiscarded`, `[{ 1; 2 }, 0]`: a statement whose value nobody uses leaves it
  on the stack, where it is taken for an element of the list (`byte_code.rs:292`);
* `MCRecordElement`: each part of a record, tuple or list pattern leaves an empty
  string on the stack (`desugar.rs:301`), with the same effect;
* `MCListLength`: a list pattern does not look at the length of the list, so
  `[only]` fits two elements and fails on none (`desugar.rs:525`);
* `MCLiteralInside`: a literal inside a constructor is
  compared without looking at the constructor, so `err(1)` takes the arm
  `ok(1)` (`desugar.rs:258`);
* `MCCalledAgain`: the matched expression is copied into the
  condition of every arm, so a call in it is made once per arm that is tried.

The passing runs leave out the programs these touch: `Clean` says that an
expression leaves exactly one element on the stack, `Safe` that a program uses an
expression that leaves more only where nothing below it is needed. What `Safe`
admits is thus also a statement: leftovers of loops, of discarded statements and
of composite patterns do no harm at the end of a program, in the body of a
`for`, and in the operand evaluated first.

### Fairness

Weak fairness of the whole next-state relation: compiler and interpreter are
loops in one thread, and the only thing waited for, the host, answers or errs.
`CHECK_DEADLOCK FALSE` because a program that has ended does nothing more.

`RibDesugar`, `RibMeaning` and `MCRib` use recursive operators, so nothing is
proved in or above them; `RibCompile`, `RibVM` and `RibPipeline` have none, and
take the desugaring as a constant.

## 5. The type of an expression

| module | role |
|---|---|
| `RibSignatures` | `InferredType`, a kind with named parts; names and signatures of functions; instances |
| `RibTypes` | equality and order of types, `AllOf` (`all_of.rs`, its queue of tasks and table), `Merge` |
| `RibUnify` | `unify_types`, the unification of two types kind by kind, and the validation of the result |
| `RibUses` | an expression and the uses the passes meet, one action per way they reach it; the reference it is compared with |
| `MCUses` | the types TLC makes uses of |

| action | code |
|---|---|
| `Collect` | `Expr::merge_inferred_type` (`InferredType::merge`), from any pass |
| `CollectArms` | the arms of a match, merged all at once through `all_of` |
| `Decide` | `unify_types` at the end |

Which pass meets a use first depends on the program, so uses come in every order.
`all_of` is modelled as the code runs it: a queue of tasks, a table of builders
indexed by position, tasks replaced in place while the table grows
(`InspectTask`, `TaskTable`), because that is where it could lose a part. Of the
origins a type carries only one decides anything, whether a number's type is the
default of a literal; it is the field `d`. Instances and resources never have
alternatives and are left out of this module.

* `Agreement`: unification returns what the uses agree on, or a conflict,
  whatever the order. `Agreed` is the reference: a set has no order.
* `NothingLost`: at every place inside the type, what is collected so far says what
  the uses met so far say.

Two kinds of uses are left out of the run `types`, because the properties fail
for them: the same number type both stated and
the default of a literal, beside another one (`MCUses.cfg` with `Uses <- Annotated`, `StatedKept`);
and an arm that has alternatives already when the arms of a match are merged
(`MCUses.cfg` with `Uses <- ArmWithAlternatives`, `NothingLost`). Section 11 says
what happens.

## 6. Inference and the checker

| module | role |
|---|---|
| `RibRegistry` | the dictionary of a component's exports and of the constructors in their signatures; the lookup of a function or method through an instance |
| `RibArena` | expressions, their lowering into an arena of nodes with a table of types, traversal orders, rebuilding |
| `RibScope` | the passes of `variable_binding.rs`, types stated by the host, annotations |
| `RibCalls` | the passes that find instances, resources, variants and enums, turn methods into calls, and give a call the types of its signature |
| `RibFlow` | the passes that carry types: between the uses of a variable, down, up, over the uses of an input; type refinement |
| `RibArms` | the exhaustiveness check |
| `RibCheck` | `type_check` and `unify_types` |
| `RibFront` | `Expr::infer_types`: the passes in their order, each an action |
| `RibJudge` | what inference promises, said without the passes |
| `MCFront` | the programs and the component of the runs |

| action | code (`expr.rs`, `type_inference/`) |
|---|---|
| `LowerProgram` | the tree becomes an arena |
| `BindSpecs` ... `BindLetNames`, `FindInstances`, `NameInstances` | `run_initial_binding_and_instance_phases` |
| `FindVariants`, `FindEnums`, `FirstBinding` | variants, enums, instances by their variables |
| `ScanBinding`, `ScanInvokes` | the first loop: instances and methods, until types rest |
| `Signatures` | `infer_function_call_types` before the second loop |
| `ScanBack` ... `ScanUp`, `ScanInputs`, `ScanCalls` | the second loop, a scan being ten passes; `LastPass` compares the types with those of `FirstPass` and begins again or goes on |
| `LastBinding`, `Check`, `UnifyAtLast` | the rest |

A pass is a function of the arena (`arena.nodes`, `arena.types`), written as the
code traverses it: in pre-order or post-order, first child first or last, with
the queue or the stack the pass has. The first pass that fails ends it, with
`arena.fault` naming the pass; `"panic"` is an outcome too. There is no
concurrency and no choice after the program is chosen: what makes this hard is
that some twenty passes over one tree each assume what the others left.

Left out: source positions and all wording; the copy of a worker's name that
every call node keeps; custom specifications of instances; several components at
once. The component has a function for each kind of type a signature may have, a
resource with a constructor, methods and static functions, and a record with a
handle in it.

* `BinderMeant`: two uses of a name are one variable exactly when the same binder
  holds for both, and those no binder is around are inputs. The reference is the
  usual scoping (`Scoped`). It is claimed where lets, loops and arms do not
  compete for a name (`NamesApart`): the passes bind by kind, over the whole tree,
  and where two kinds compete the later pass wins, whichever is nearer. Section 11.
* `WellTyped`: an accepted program is well typed, every form by its own rule
  (`RightlyTyped`), calls against the signature, patterns against what they are
  matched with, and all uses of a variable against each other.
* `ArmsJudged`: an accepted match leaves no value of its type out, and arms are
  refused only when a value is left out or an arm takes none that is left. The
  reference enumerates values (`Values`, `Takes`).
* `OnlyLearns`: in the second loop no pass forgets a kind of type that was learnt
  of an expression. Conflicts exist only as alternatives, so a pass that replaces
  a type instead of adding to it hides an error. Ranges and calls are excluded: the
  type of a range is rebuilt from its ends in each scan, and a call can take the
  place of a method's invocation, with the type of the signature.
* `ComesToRest`: `type_inference_fix_point` has no bound. The loops end before
  they have scanned a tree of *n* nodes *n* + 2 times. It is an invariant and not a
  liveness property: with it, the passes can only be finitely many.

Left out of the run `infer`, because a property fails for them: a call as the
argument of a call (run `infer_calls`), lists whose elements differ
(`MCLists`) and names that are no case of a matched enum (`MCMisspelt`).

## 7. Numbers

`RibNumbers` is the arithmetic of the interpreter for every width. The types are
constants (`Unsigned`, `Signed`, `Floating`), with their width (`Half`, the
numbers a sign bit splits off) and that of the carriers (`WordHalf`); what
the hardware makes of an integer as a float is `Round`, of which only that it keeps
order is assumed (`RoundAssumption`). The state is a number on the stack, `acc`;
`Math` is `run_math_instruction` with any operand and any type the result is to be
cast to. `exact` is the number the operations should have given, and `wrapped`
whether an unsigned number above the signed maximum met a signed one, which the
code casts with `as i64` (`literal.rs:258`): after that nothing is promised. Mixed
operands do reach the interpreter, through the equality operands inference never
relates (section 11).

* `Exact`: a result is the mathematical one, or there is none.
* `RefusedRightly`: between numbers of one type, an operation fails exactly when
  its result does not exist or does not fit. The ten casts have bounds of their
  own, and this is where one off by one shows.
* `OrderKept`: order and equality, written separately for nine pairs of carriers,
  agree with each other and with the numbers.

Left out: arithmetic on floats (so nothing is cast from a float), fractions,
infinities and NaN.

## 8. Texts

| module | role |
|---|---|
| `RibRead` | the parsers of expressions, patterns and types, with their order and their two kinds of failure |
| `RibWrite` | the printer, `text/writer.rs` |
| `RibGrammar` | the grammar of the documentation as rules: which texts derive |
| `RibText` | a text that grows phrase by phrase, parsed after each |
| `MCText` | for every part of the language, a beginning and the phrases that may follow |

A text is a sequence of tokens. Characters matter only where a word begins with
another: `~x` is a token that continues the word before it without a space, so
that `truex` or `thenx` can be written. A parser ends in `Ok`, `Soft` or `Hard`:
combine tries the next alternative only after a failure that has consumed nothing,
so a `Hard` one hides the alternatives behind it unless `attempt` (`Try`) makes it
soft. That, and the order of some eighteen alternatives, is what the model keeps
of the parser.

* `GrammarHolds`: the parser accepts the texts of the grammar and no others.
  `TakenOtherwise` names the texts for which it does not: five pairs of adjacent
  tokens on which an earlier alternative is chosen for good.
* `ReadsBack`: a printed expression parses to itself. `Printable` names, form by
  form, what the printer loses.
* `NothingDropped`: what is read has every word of its text, in order; `Forgets`
  names the annotations that are not kept.

`RibGrammar` follows the documentation except where it says more or less than the
language has; those rules are marked `"!="` in the module.

Nothing is fair here: a text may stop anywhere, which is why deadlock is not checked.

## 9. Runs

| run | expects | checks | shows |
|---|---|---|---|
| `repl_lines` | pass | `TypeOK`, `OnTrace`, `ReplayRestores`, `InstancesDistinct`, `ReplayIsPure`, `ReplayNeverFails`, `KeepsItsPromise` | Up to five loop-free lines typed in any order, good and bad, dropped by the embedder at a call or run to their end, with failures of the host and :clear between them, and one (f64) that gives the number of an earlier let another type: as long as the instructions that were executed are what they were, the replay restores the bindings, calls no worker and never fails; and the session implements the cache-free promise, in which a dropped line runs again before the next, and everything runs again once the lines compile to other code than they ran as. |
| `repl_cancel` | pass | `KeepsItsPromise`, `Answered` | The embedder may drop the future of execute while a worker is being called, which skips both the pop and the cache update: with a loop without calls, a second binding of a result and a line (u8) for which a committed one overflows, the session still implements the promise, and every accepted line gives the prompt back. |
| `repl_loop` | violation | `ReplayRestores` | A call in a loop has one instruction and so one cache entry: the next line replays the loop with the result of its last iteration in every iteration, and the binding of the session changes. |
| `repl_retry` | violation | `FreshWorker` | A line that creates an instance, calls it and then fails is popped, but the generator keeps the name: the next bare instance() is given the worker the failed line already used. |
| `rib` | pass | `JumpsLand`, `NothingMissing`, `AgreesWithGuide`, `Finishes` | Every form of the language, and every form inside every form (loops in arms of matches in operands of calls and so on), in two environments, calls that fail included: the compiled code jumps only to labels it has once, finds on the stack what each instruction takes, ends, and has the value, the error and the calls of the guide. |
| `rib_nested` | violation | `AgreesWithGuide` | A reduce in the body of a reduce: the exhausted inner iterator stays on the stack and ends the outer loop after its first element. |
| `types` | pass | `Agreement`, `NothingLost` | Up to three uses of one expression, of every kind of type, merged in every order, one by one or as the arms of a match, then unified: no order decides, and nothing is lost on the way. |
| `infer` | pass | `TypeOK`, `BinderMeant`, `WellTyped`, `ArmsJudged`, `ComesToRest`, `OnlyLearns` | Some 1,800 programs go through every pass of infer_types: binders around binders, values of every form used in every way, calls and resources right and wrong, matches with every choice of arms. Names mean the binder around them, what is accepted is well typed and leaves no value without an arm, no scan forgets, and the scans end. |
| `infer_calls` | violation | `WellTyped` | The argument of a call is itself a call: it is never looked at, so f(f("x")) and f(f(1, 1)) are accepted, and so is a result of the wrong type. |
| `numbers` | pass | `TypeOK`, `Exact`, `OrderKept`, `RefusedRightly` | Numbers of all types of two and four bits through every operation, one type or several: results are exact or refused, refused only if they have to be, and compared as the numbers they are. |
| `text` | pass | `GrammarHolds`, `ReadsBack`, `NothingDropped` | Texts of up to five phrases from fifteen corners of the language: the parser accepts what the grammar derives and nothing else, keeps every word in its place, and reads what the printer wrote as the expression it was. |
| `prompt` | pass | `PromptTypeOK`, `CompletedAccepted`, `OffersEveryCall`, `KeptOffered`, `AnswersTyped`, `FilledCross`, `SpecEdit` | Up to four lines, typed or filled in by completion, that make workers and resources, hide them from each other, fail, and call a host that answers with values of the right type and of others: what completion offers is what the session has, what it fills in compiles, what comes back from the host is of the declared type. With the compiler the session implements the one that leaves the compiler open, about which the theorems are. |

Bounds of the session. `MaxSubmissions` is 3 to 5 lines: a stale cache entry
needs a line that filled it, one that failed or was cleared, and one that reads
it, and a fourth to replay the third. Four variables let two instances and two
results coexist. The lines were chosen so that each instruction kind occurs, a
branch skips a call (cache with holes), a line fails after a call (`bad`), and a
line is refused before and after the parser (`typo`; a call without an instance, or
two types stated of one let). A let that is typed anew needs three lines, the let, what
depends on its value (`if`) and the use that states the type (`f64`, `u8`), and with the
instance and the line that replays the outcome five: `repl_lines` types five, in
237,146 distinct states.

Bounds of the machine. Programs are finite, so there is no bound in the model
itself; what is bounded is the set of programs: every form over four atoms (two
constants, an input, a call), and every form inside every form, each in two
environments (a list with elements and `some`, the empty list and `none`). Two
levels are the least at which one loop, match or block sits inside another, which
is where positions on the stack can go wrong; lists of zero, one and two elements
take each branch of the loops, and constants 0 and 2 reach division by zero,
subtraction below zero, and indexes inside and outside a list of two.

`Exprs` and `Yielding`, which the assumptions of the proofs are about, are all the
expressions met while these programs are compiled, down to seven levels below a
program; `ExprsAssumption` would fail if there were more.

`Instances` adds two instances with one name, two names and no name, in loops and
in branches; resources of one and of two instances; a call without a result. Two
instances and two anonymous names are the least that can be confused.

Bounds of the types. A pool of some thirty types of all kinds with parts, and every
set of at most three of them, in every order and with every grouping into arms.
Three is where it matters whether a conflict was met first or last; a record in a
record and alternatives in a record are the depths at which `all_of` keeps tasks
for parts of parts.

Bounds of inference. Two binders around one or two names, in each of five forms and
both orders; a value of each form bound to a name and used in each of fourteen ways;
calls with arguments right and wrong, their results used in nine ways; up to three arms of five
patterns, on types with constructors two deep. A scan reaches one step further
through the tree, so programs of this depth need several scans to rest.

Bounds of numbers. Types of two and of four bits, the latter with the carriers, and
floats of two and of three significant bits, so that both roundings are inexact
within the carriers; all integers the carriers have. The proofs have no bound.

Bounds of texts. Fifteen beginnings, each with the phrases that belong to one part
of the language, four or five of them in every order. That is enough for any
alternative of that part to be entered, left after one token, and for another to
follow it; phrases of several tokens reach deeper.

Bounds of the prompt. Four lines or commands: two that let one name, one that fails or
`:clear`, and the one that completion fills in. Two variables, each a worker or a
resource; a component with every kind of type in its signatures; answers of the
declared type, of another, with a case, field or payload the type does not have.
## 10. Proofs

### The session

`ReplReplay_proofs` proves, for every set of lines, every compiler (whatever the
program of a script has to do with that of a longer one), every number of
submissions, with and without cancellation (`ReplPromise_proofs` has the last one):

| theorem | statement |
|---|---|
| `SessionOnTrace` | `HSpec => []OnTrace`, the inductive invariant |
| `SessionTypes` | `HSpec => []TypeOK` |
| `ReplayRestoresBindings` | `HSpec => []ReplayRestores`: bindings are restored, if `PathKept` |
| `ReplayCallsNoWorker` | `HSpec => ReplayIsPure`: the replay calls no worker, if `PathKept` |
| `ReplayDoesNotFail` | `HSpec => ReplayNeverFails`: the replay does not fail, if `PathKept` |
| `InstancesStayDistinct` | `HSpec => []InstancesDistinct` |
| `SessionKeepsItsPromise` | `HSpec => KeepsItsPromise`, the refinement |

The assumption is `LoopFree`: jumps go forward. It is needed: the run
`repl_loop` is the counterexample without it. `PathKept` is needed too:
section 11 has what happens without it. `InstancesStayDistinct` needs neither: it assumes only
`NamesDrawn`, that no constant of a program is a name the generator draws, as a uuid
is not. `SessionKeepsItsPromise` assumes `NoLoops`, programs without iterators and
lists under construction, since the promise starts every line with none open, and
nothing of the embedder, who may drop any line at any call, nor `PathKept`.

The argument. None of the properties is inductive: that the replay ends in the
bindings the lines had depends on each cache entry it will read. `OnTrace` says
it of each instruction. The recorded execution `path` of `ran` leads from the first
instruction to the one past `last`; at each instruction it goes through, the snapshot
there, continued with the *cached* result and the *remembered* name, gives the
snapshot at the next one (`Repeatable`, `LeadsTo`). The execution in progress,
`trace`, is such a path of the program in hand up to where it is, and as long as
`PathKept` holds and it is not past `last + 1`, it is where `path` is. A step of the
replay then stays on the path (`StaysOnPath`); any step extends the trace
(`TraceExtends`); an execution that ends makes it the path, also when the lines
compiled to something else than they had run as (`FinishOnTrace`): what is replayed
next is what they were made into. One that fails or is dropped leaves the path, which no
cache entry written meanwhile can touch, as entries are written only past `last`.

Distinct instances rest on `DrawnOnce`: a bound instance is one of the first
`count` names, and no cached result is a name, so a name that is given next is
bound nowhere. That the names are drawn in order, and counted no further than
they go, is an invariant of its own (`NamesInOrder`), which needs nothing of the
recorded execution: this is why a loop, or a line that changes what earlier ones compile to,
whose replay leaves that execution, and a line that the embedder dropped, do no
harm here. `InstancesDistinct` alone does not say that the next name is free.

The refinement needs, besides `OnTrace`, `PromiseKept`: no snapshot of `path` or
`trace` has an iterator, and the instances it counts have names (`NothingOpen`); the
program is that of the script; what is cached was answered by a worker. `AsRun`
implies `PathKept` (`AsRunKept`). Then a step of the replay leaves every variable of
the promise as it is (`ReplayStutters`). Any other step, past `last` or of a script
that runs again, is the same step of the task at its own instruction (`TaskGoesOn`, with
`MoveTask`, `SameLocal`, `SameAssign`); a call answered from the cache can only be
one of a script that runs again, and is a `Recall` (`CacheKeepsPromise`). A line that
starts begins on the kept bindings or from nothing (`StartBegins`); an end is a
commit of what the trace has at the end of the program (`FinishCommits`), an abort
(`ErrorAborts`) or a drop (`CancelDrops`), which keep the path.
A new instance has a name that is not among those kept, also when the name was
first drawn for a line that failed.

### From expression to value

`RibCompile_proofs` and `RibPipeline_proofs` prove, for every set of expressions
of every size, every desugaring of match and slices, every input and every answer
of the host:

| theorem | statement |
|---|---|
| `CompilerLinks` | `CSpec => []Linkage`, the inductive invariant of the compiler |
| `CodeLands` | `CSpec => []JumpsLand` |
| `StackSuffices` | `Spec => []NothingMissing` |
| `RunsLand` | `Spec => []JumpsLand`, of the whole pipeline |

The assumptions are about expressions, and TLC checks them of the programs of
`MCRib`. `ExprsAssumption`: an expression has as many parts as the variant of
`Expr` has boxes, and what a match or a slice stands for is an expression.
`YieldingAssumption`: where a value is used, the expression leaves one: it is not
a let, nor a block that ends in a let or is empty, nor a condition with such a
branch. That is a property of sensible programs, not one the code enforces: the
parser reads a let wherever it reads an expression, inference gives it the type of
the empty tuple, and `some(let x = 1)` is compiled to an instruction that finds
nothing to take.

The argument. What the compiler has written and what it has still to do are one
list, the *plan*: the work from the bottom of its stack, then the instructions,
last written first. `WriteInstruction` leaves the plan as it is; every other step
replaces one expression of the plan by what it is compiled to (`Splice`). So a
property of plans that such a replacement keeps is an invariant. `Linkage` says
that the plan has each label up to `labels` at most once, no other label, and the
label of each of its jumps. It is stronger than `JumpsLand`, which says nothing
before the compiler is done.

For the stack, the plan has *shapes* (`Shaped`): before each item, a sequence of
`"any"`, `"iterator"` and `"sink"` that is at least on the stack there, from the
bottom, and one for each label. An expression leads from a shape to the next with
one element more if it yields a value and with none if it does not; an instruction
with what it takes removed and what it gives put on (`Leads`). `Laid` says that
there are shapes for the plan; each step of the compiler must find shapes for the
items it puts in (a chain from the shape before the expression to the one after),
the loops with the shape of their iterator and their sink at both labels. The run
is then simple: `Loaded` says that the code is that of the plan, and that the
stack *fits* the shape at the cursor. A shape may be a part of the stack, with
gaps (`Embeds`), because an expression may leave more than one element: parts of
statements nobody uses, an iterator after a reduce. This is also why the theorem
does not say what the element found is: with such leftovers it may be another than
the one meant, which is what the run `rib_nested` shows.

### Numbers

`RibNumbers_proofs` proves, for every set of types, every width and every
rounding that keeps order, over any number of operations:

| theorem | statement |
|---|---|
| `NumbersTyped` | `Spec => []TypeOK`: a value is a number of its type |
| `NumbersExact` | `Spec => []Exact` |
| `NumbersRefused` | `Spec => RefusedRightly` |
| `NumbersOrdered` | `Spec => []OrderKept` |

The assumptions are `WidthAssumption` (no type is wider than the carriers,
literals are numbers a carrier holds) and `RoundAssumption`. The inductive
invariant is `TypeOK /\ Exact`: an operation on an exact number of its type is
exact if the carrier has room (`OperatedMeans`: without a wrap, an operation is the
checked operation on the mathematical result; `CheckedKeeps`, `CastKeeps`: what
passes the check and the cast is unchanged). `RefusedRightly` needs in addition
that a number that fits its type fits its carrier (`CheckedWhenFits`), and
`OrderKept` that an unsigned carrier is never negative, which `TypeOK` gives.

### The prompt

`ReplEdit_proofs` proves, for every component, every set of lines, every host and
every set of types:

| theorem | statement |
|---|---|
| `HostLetIn` | what the host answers is refused, or let in as a value of the type it was expected to have |
| `RoundTrip` | a value of a type is converted for the host, and back to itself |
| `GeneratedIsOfType` | a value made up for a type is of the type |
| `PromptCorrect` | `SpecEdit => []PromptTypeOK` |
| `KeptAreKnown` | `SpecEdit => []KeptOffered` |
| `AnswersAreTyped` | `SpecEdit => []AnswersTyped` |
| `FilledReachHost` | `SpecEdit => []FilledCross` |

The assumptions are those of `ReplHost` and `ReplEdit`, which TLC evaluates for the
component of `MCPrompt`. `TypesAssumption`: the types within a type are of the set and
not as deep, and a type has the parts its kind has; the cases and flags of a type have
names of their own, as WIT demands. `ValuesAssumption`: values have the parts that
Rust's types give them (an option has at most one). `GeneratedAssumption`,
`ConversionsAssumption` and `IsOfAssumption` say what the recursive functions are, one
level at a time. `FunctionsAssumption`: signatures are made of types of the set.

The argument. That something holds for every type is an induction over types, and the
provers cannot apply the library's rules of induction, which take an operator. Instead:
were it false of some type of the set, it would be false of one of least depth
(`SmallestType`, from the well-foundedness of the numbers), whose parts all have it;
so it is enough that a type has it if its parts have it (`LetsInStep`, `CrossesStep`,
`GeneratesStep`, one case for each kind of type). For one level, `Put1` of parts that
were converted is a value of these parts (`PutTogether`, `PartsLetIn`, `PartsCross`).
The way back goes by names: that the first place of a name is *the* place
(`PlaceOfName`) and that the flags set are those whose names are in the set
(`FlagsOfNames`) needs the names to be apart.

For the session the inductive invariant is `EditInv`. `KeptOffered` speaks of the
prompt only; in between, a script under compilation is known but for its last line,
the one `Reject` pops, and a script that runs is known altogether, so that it does not
matter whether the line is kept (`EndsKeeps`, `PopKeeps`). `FilledCross` follows in
every state from `RoundTrip` and from what a call that was filled in is made of.

That `ReplPrompt` implements `ReplEdit` is checked by TLC and not proved: the compiler
is written with recursive operators.

### Only model-checked

The promise of a session with a loop that makes no call (`repl_cancel`). Liveness
(`Answered`, `Finishes`) and `ENABLED` are beyond the proof system. Sections 5, 6
and 8, the compiler behind the prompt, and `RibDesugar` and `RibMeaning`, compute over
trees with recursive operators, which the provers do not take: what is checked of
them (`AgreesWithGuide`, `Agreement`, `WellTyped`, `GrammarHolds`,
`CompletedAccepted`, `OffersEveryCall`, `SpecEdit`, ...) is checked for the types,
programs and texts of the `MC` modules.

## 11. Where the code departs from its documentation

Each of these is a run that TLC finds violated.

* `repl_loop` (`src/rib-repl/src/invoke.rs:49`): The cache has one result per instruction and answers every instruction up to the last executed one, so replaying a committed loop gives each iteration the result of the last one and the values the loop collected change with the next line. src/rib-repl/README.md:36 says: "the session keeps the values you already defined"; the comment at src/rib-repl/src/invoke.rs:48 says the check exists because "without this, loops end up reusing the cached invocation result".
* `repl_retry` (`src/rib-repl/src/instance_name_gen.rs:34`): The name drawn by a line that fails stays in worker_name_cache and is handed to the next bare instance() at the same position, a worker that may already have served calls. src/rib-repl/README.md:32 says: "A bare **`instance()`** in source gets a **fresh unique name** each time".
* `rib_nested` (`src/rib-lang/src/compiler/byte_code.rs:824`): handle_list_reduce ends in LoadVar and never removes its iterator from the stack. In reduce a, x in [1, 2] from 0 { let y = reduce b, z in [1, 2] from 0 { yield b + z; }; yield a + y; } the outer IsEmpty then finds the exhausted inner iterator on top: the result is 3 instead of 6. src/docs/language-guide.md:465 says: "Here **`acc`** is the accumulator, **`x`** is each element from the list after **`in`**".
* `infer_calls` (`src/rib-lang/src/type_inference/call_arguments_inference.rs:86`): infer_function_call_types does not go into the arguments of a call, so neither the arguments nor the result of a call inside a call are compared with a signature: with f a function of u8 and u64 its result, f(f("x")) is accepted and the inner call has type u8. src/docs/language-guide.md:439 says: "**Calls** — Arguments are checked against the **`func`** signature".
### Beside the runs

These are not among the runs. Where a configuration is named, TLC finds the
property violated with it; the others are visible in the model, which does
what the code does.

The session

* `MCRepl_retry.cfg` with `Lines = {"x", "n", "f64"}`, `ValuesKept`: `let a = 3 / 2`
  binds 1; the next line passes `a` to a parameter of type f64, the whole script is
  inferred again, the division is one of floats, and the session now has
  `a = 1.5`, while `src/rib-repl/README.md:36` says "the session keeps the values you
  already defined" (`identifier_inference.rs:60`, `type_push_down.rs:230`,
  `byte_code.rs:154`);
* the same with `Lines = {"x", "n", "if", "f64"}` and `MaxSubmissions = 4`,
  `ReplayCallsNobody`: `let a = 3 / 2`, then
  `let b = if a == 1 then 7 else x.increment-and-get()`, which calls nobody, then a line
  that passes `a` as an f64; now `a` is 1.5, and the replay of the second line takes
  the other branch and calls the worker;
* the same with `Lines = {"x", "big", "u8"}`, `OwnFaultOnly`: `let a = 200 + 100`
  is accepted; a line that passes `a` as a u8 makes that sum overflow in the
  replay, and the new line is popped, with an error of the old one;
* `MCRepl_retry.cfg` with `Lines = {"x", "a"}`, `FreshWorker` after `:clear`: `clear`
  keeps the name generator, and the first instance of the cleared session is a
  worker that has been called (the trace has a call that fails after it was
  served, then `:clear`);
* `MCRepl_lines.cfg` with `Lines = {"x", "c", "a"}` and `Commented = {"c"}`,
  `GoodLinesAccepted`: a line that ends in a comment
  swallows the `;` that joins it to the next one (`raw.rs:7`).
* `MCPrompt.cfg` with `FilledAccepted`: completion takes the first argument of
  every function of a resource for the resource (`rib_edit.rs:166`), which a static
  function does not have. What it fills in has an argument too few and is refused,
  or, for a function of no other argument, makes the checker panic.
* completion describes the last line that compiled: after one that failed at run
  time, and after `:clear`, it offers variables the session does not have;
* where a name is let twice, as a worker and as a resource, completion offers the
  functions of both (`compiler.rs:143`);
* a result without a payload is let pass by both conversions although its type has
  one (`rib_val.rs:178`, `rib_val.rs:321`): the host can make a call return `ok` without a value.

Compiler and interpreter

* the programs of section 4, with `Programs` of `MCRib_nested.cfg` changed to
  `MCLiteralInside`, `MCCalledAgain`, `MCDiscarded`, `MCRecordElement` or
  `MCListLength`;
* a method called on a constructor in place, `w.cart("x").add(1)`, without a
  variable between them: it is sent to the static name `___STATIC_WIT_RESOURCE`
  without a handle, and the constructor is never called (`byte_code.rs:419`);
* a call on an instance in place, `instance("a").f()`, is rejected
  (`UnresolvedWorkerName`);
* a let used as a value, `some(let x = 1)`, is accepted with the type of the empty
  tuple (`expr.rs:761`), but leaves nothing on the stack: the program ends with
  the error `InsufficientStackItems`, which is what `StackSuffices` excludes by
  assumption (section 10).

Types

* `MCUses.cfg` with `Uses <- Annotated`, `StatedKept`: origins are added up when types are merged,
  so a number type that is stated and also a literal's default counts as a
  default, and gives way to a different one;
* `MCUses.cfg` with `Uses <- ArmWithAlternatives`, `NothingLost`: alternatives are put into the table of tasks at
  the index their type has in the list (`all_of.rs:1017`), where a task of a part of
  an earlier arm may stand; that part is lost.

Inference and the checker

* `MCFront_calls.cfg` with `Programs <- MCLists`, `WellTyped`: a list has the type of its first element, so
  `[1, true]` is accepted;
* the same with `Programs <- MCMisspelt`, `CasesSpelt`: a misspelt case of an enum is a variable that
  takes every case, while section 9.8 of the guide calls it an error;
* a let is seen after the block it is in, and where a let, a loop and an arm bind
  one name, the pass that comes last decides which is meant;
* the operands of an equality are never related to each other, nor those of `and`
  and `or` to Booleans;
* a function with the name of a case cannot be called, and a resource's instance
  cannot be an argument;
* a static function without parameters, or a name that is no method of a handle
  in a record, makes the compiler panic (`checker.rs:157`, `type_pull_up.rs:307`);
* the resource a method returns is looked up as `"cart"`
  (`worker_function_invocation.rs:292`).

Texts

* `MCText.cfg` with `Hands <- OperatorHands`, `OperatorsGroup`: `docs/language-guide.md:299` says "usual
  precedence grouping", but every operator takes all that follows as its right
  operand: `1 - 1 - 1` is 1 - (1 - 1), `a * b + c` is a * (b + c). Parentheses make
  tuples, so nothing else groups; `!=` has no parser;
* words: `thenx` is read as `then x`; an identifier that begins with `true` or
  `false` is read as a Boolean, a pattern that begins with `none` as that case;
* `yield (x)` is read as a call of `yield`, `x : result < y` as the beginning of a
  type, and a range whose end is missing before `{` or `then` does not end;
* `a[1]: u8` does not parse and `a.b[1]: u8` does; an annotation of a range, of
  the integral part of a number with a fraction, of a method's call, and the first
  of two, are dropped;
* a block in braces needs two lines; the grammar (`rib-lang/README.md:201`) asks
  for two fields in a record, the parser for one;
* the printer: no `;` in the body of a reduce or between the lines of a loop, no
  braces around nested blocks, `..x` for the open range `x..`, `foo()` as a pattern
  printed as the name `foo`, annotations of seven forms only, texts not escaped and
  adjacent texts merged; the types of records, enums, flags and variants are
  printed in a form the parser has no rule for.

## 12. Not modelled

* Highlighting, hints, printing and the commands that only print: they read the
  result of the last compilation and change nothing a later line sees. Of
  completion: prefixes, and the completion of commands, cases and custom instances.
* The characters of values (`wave.rs`, `wasm_wave_text.rs`), which another library
  reads and writes, and the helpers of `value*.rs` and `wit_type.rs` that build
  values and types.
* Of the session: how the compiler arrives at the program of a script. The theorems
  hold for any; TLC has that of `MCRepl`, in which the use of a number as an f64 or a
  u8 types the let before it, contradictory uses refuse the line, and a branch, a
  quotient and a sum depend on that type. Instructions that only move operands are
  part of the binding or call they belong to.
* Error reports: only which pass or instruction fails is kept of an error.
* Of the compiler: the list of worker functions, the types of inputs and output it
  reports beside the code, and the list of inputs it may be restricted to.
* Of the interpreter: instructions the compiler never writes (`And`, `Or`,
  `SelectIndex` with a constant, `GenerateWorkerName` for a variable), and the text
  of composite values in a concatenation.
* Of inference: custom instance specifications, several components, source positions.
* Of numbers: arithmetic on floats, fractions, infinities, NaN.
* Of texts: comments, negative numbers and exponents, escapes but `\${`, interface
  paths in names, underscores.

The REPL's line editor and history file do not influence evaluation. Locks of
`ReplState` are never held across an await and the session is borrowed exclusively
by `execute`, so they are not modelled. Nothing of the language runs concurrently,
and nothing is persisted: there are no crashes to recover from.
