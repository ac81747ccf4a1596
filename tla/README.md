# TLA+ for askl-golang-indexer

The indexer loads the packages of one or more Go modules, walks their syntax
with a pool of goroutines in two stages, records modules, files, symbols and
references in an in-memory index, numbers the containment tree of every file,
and writes one protobuf file. This directory models the parts whose correctness
depends on order, interleaving or boundaries, checks them with TLC, and proves
the main facts about the worker pool, the references, the values, the walks of a
file, the index and its numbering, and the paths with TLAPS.

## 1. Inventory

| Component | State | Operations | Talks to |
|---|---|---|---|
| `pkg/parser/parsing_stage.go` ParsingStage | channel (1000), WaitGroup, dedup set, errors, worker channel | `Parse`, `loop` (dispatcher and GOMAXPROCS workers), `Wait`, `Close` | called by itself: a parse submits more items |
| `pkg/parser/package_parser.go`, `assignment_stage.go` | none | parse the files, then the imports of a package | stage, index |
| `pkg/parser/parser.go` Parser | loaded packages, deferred type references, receiver references | `Load`, `AddPackages` (two stages, then deferred references), `Close` | stages, index |
| `pkg/parser/file_parser.go` | position of the walk | one handler per declaration form | index, deferred references |
| `pkg/parser/assignment_parser.go`, `type_walker.go` | position of the walk, first error | assignments, calls, returns: which type satisfies which interface | index |
| `pkg/index/proto_index.go` ProtoIndex | modules, objects, symbols, lookup maps, logs of unresolved references and imports, run-once flag | `AddModule`, `AddFile`, `AddSymbol`, `AddReference`, `AddModuleImport`, `ResolveReferences`, `GetAllReferencesNames`, `Marshal`, `Upload` | every worker, under one mutex |
| `pkg/index/numbering.go` | none (a pass over one object) | derive parents, override, number, place references | called by `Marshal`, `Upload` |
| `pkg/indexing/indexing.go` | the order of a run | expand and group paths, one Parser per module root, git files, resolve, marshal, write | everything above |
| `pkg/indexing/git_files.go` | none | list HEAD, add every tracked file | index, go-git |
| command line, logging, file types, generated protobuf | none of interest | | |

What is hard here, and what makes each part correct:

* **ParsingStage.** Workers are producers and consumers of one bounded channel,
  so a blocking send can stop all of them; a WaitGroup must count what is in a
  channel, in a blocked goroutine, and in a worker's hands; the same package is
  submitted by many importers. Correct means: `Wait` returns only when nothing
  is in flight, nobody sends on the closed channel, each package is parsed once,
  everything reachable is parsed or an error is reported, and `Wait` returns.
* **ProtoIndex.** Calls arrive in whatever order the workers make them, from
  several parsers that may index one dependency twice; positions in a slice are
  remembered while other passes append to the slice; two passes run once;
  offsets and contents come from different reads. Correct means: nothing is in
  the index twice, nothing recorded is lost, what was remembered is still there,
  and asking for the index twice gives the same index.
* **Numbering.** Equal ranges, empty ranges, partial overlaps and stated parents
  that contradict the ranges. Correct means: intervals are laminar, every
  instance has one, and they say exactly what the parents say.
* **A run.** An error on the way must leave no index; files arrive from parsers
  and from git.
* **Deferred references.** A worker looks up the file of a type and then records
  the use or defers it, while other workers add files; the deferred ones are
  resolved when the stage is over. Correct means: the references a stage leaves
  do not depend on the interleaving, each is there once, and none points into a
  file the index lacks (`ResolveReferences` would refuse the whole index).
* **The walk of a file.** Traversals overlap: one of the file, one over each
  initialiser, one over each signature, one over each body, and each stops others
  from descending. A function literal or an interface can be met by several of them
  or by none. What variable holds which literal is remembered while the walk goes
  on. Correct means: everything is declared once, under the name of what it is in,
  and every use refers to something that is declared (strict resolution refuses the
  whole index otherwise).
* **Type uses.** Two walkers go through the same type expressions with switches of
  their own and share what they have seen between some expressions. Correct means:
  every type at its first use, once.
* **The assignment walk.** Every function body is traversed twice, once for its
  returns and once for the rest, with an error variable that two nested walks and
  a flag share. Correct means: each value is connected once, a return with its own
  function, and no error is lost.
* **Slots and values.** Assignments, specs, calls and returns count slots, values
  and results separately, and the methods of a type are found by a switch over what
  kind of type it is. Correct means: each interface is connected with the type the language
  gives it, with no other, and code that compiles is not refused.
* **Paths.** Package paths, project root and module roots are found by climbing
  directories; module paths are cut from two different bases.

The hazards, each at its line with the properties that cover it, are listed in
`PROJECT.json`.

## 2. Modules

| Module | Models | EXTENDS |
|---|---|---|
| `PackageGraph` | what a package's parse submits: its files, then its imports | SequencesExt, ... |
| `Traversal` | abstract: what a stage promises (discover, finish, fail, return) | PackageGraph |
| `ParsingStage` | the pool: one action per step of each goroutine | PackageGraph |
| `ParsingStageProofs` | the proofs about it | ParsingStage, Lemmas |
| `DeferredRefs` | look-up, recording, deferral and resolution of references around the first stage | |
| `Containment` | pure operators: which instance contains which, the sweep, owners of references | |
| `Numbering` | the numbering of one object, step by step | Containment |
| `NumberingProofs` | the proofs about the walk | Numbering, Lemmas |
| `ProtoIndex` | the index, one action per operation | Containment |
| `IndexingRun` | the order in which a run calls the index, and where it ends | ProtoIndex |
| `IndexProofs` | the proofs about the index with calls in any order, and about a run | IndexingRun, Lemmas |
| `Lemmas` | facts that all proofs share: about sequences, least elements and listings, and about the operators of `Containment` | Containment |
| `Pipeline`, `PipelineProofs` | the command: paths, root, module roots, failures, the file on disk, and the proofs | |
| `AssignmentWalk` | the two traversals of the assignment stage over one syntax tree | |
| `ValueFlow` | how one assignment, spec, call or return connects values with interfaces | |
| `AssignmentProofs` | the proofs about both | AssignmentWalk, ValueFlow, Lemmas |
| `SyntaxTree` | trees in the order of `ast.Inspect` (external) | |
| `FileWalk` | the overlapping traversals of `FileParser` over one file | SyntaxTree |
| `FileWalkProofs` | the proofs about it | FileWalk, Lemmas |
| `TypeWalk` | the references of one declaration to the types it names | SyntaxTree |
| `TypeRefsProofs` | the proofs about references to types: `DeferredRefs` and `TypeWalk` | DeferredRefs, TypeWalk, Lemmas |
| `MC*` | finite instances; `MCIndex`, `MCTypeRefs` and `MCAssignments` put two side by side in one run | |

### ParsingStage

A goroutine is a program counter. `mpc` is the goroutine that runs
`AddPackages` for one stage (`load` -> `submit`/`send` -> `wait` -> `close` ->
`closing` -> `closed`); `pc[w]` a worker (`idle`, `parse`, `send`, `error`,
`done`, `exited`) with `item`, `files`, `imports`, `next` as its locals; `dpc`
and `held` the dispatcher. `channel`, `overflow` (goroutines blocked in
`channel <- item` after the `default` branch), `workerCh`, `wg`,
`parsedPackaged` and `errs` are the stage's fields. The steps are those at which
goroutines can interleave: a send is `wg.Add` (`AddOne`) and then the `select`
(`Enqueue`, or `overflow` grows); receiving, dropping a duplicate and handing
over are the dispatcher's; an error is appended (`RecordError`) before
`wg.Done` (`DoneOne`). What the parse of a file writes to the index is not here.
`CloseDone` stands for the joins at the end of `Close`.

`Traversal` has no goroutine: a set of known items, a set of finished ones, the
failed ones, and what was reported. `ParsingStage!Abstract` maps "known" to what
has been counted and submitted, "finished" to what has left the stage.

### DeferredRefs

A reference is one use at one position of one file (`RefsOf`, the order in which
the parse of the file meets them), and `Target` the file it looks up: the file of
the type, for a use of a type as for the receiver of a method. `FindTarget` is the
call of `FindFileId` in `addTypeRefs`; `AddTypeRef` and `AddDeferredTypeRef` are
what follows it, a step later. `AddReceiverRef` never asks. The lists and the log
of `AddReference` are bags: how often each reference is in them. Files enter the
index (`NewFileParser`) when a worker parses their package, before they can be
taken by a worker; parsers of other module roots may have put any of them there
before. An error ends the parse of a file between two references (`FailFile`) or
of a package (`FailPackage`), and the run then stops at `Wait`. That `Wait`
returns only when every file of the stage is parsed, or an error was recorded, is
`WaitSound` and `AllReachableParsed` of `ParsingStage`. The two loops of
`resolveDeferredRefs` run alone and are one action each.

### Containment and Numbering

Instances are records of `start`, `end` and `rank` (kindRank); an object is a
sequence of them, a parent function maps a position to a position or to
`NoParent`. `Sorted` is the sort, `SweepStacks` the stack before each step of the
loop of the sweep, `Derived` the parents it finds, `Overridden` the stated ones on
top, `Owner` the instance that `numberRefs` puts a reference in. `Numbering` is the
walk: `EnterRoot`, `Descend`, `Ascend` are the three places where the counter grows
by `dfsStride`, `Fallback` the second walk, `PlaceRefs` the end. `FoldDepth` is
left out, because no code sets `Folded`. Loops over data are recursive functions
here and in `ProtoIndex`, so that they can be proved about.

### ProtoIndex and IndexingRun

Ids are positions in sequences, since each id counter grows with an append.
`symbolByKey`, `instanceIDByKey`, `fileIDByPath` and `info.fileIDs` are derived
from the sequences; `byFileAndName`, `declared` (the instances `AddSymbol` made,
with their slot), `stated` and both logs are kept as in the code. Every
operation is one action, because each holds the mutex throughout; reading and
writing calls that leave everything as it is (a known module, a known file with
the same contents) are stutters. Iteration over a Go map is a choice of any
order (`Orders`). `Publish` is `Marshal`/`Upload`: module symbols and imports,
directories, then `tree`, the parents each object is numbered by
(`Containment!Parents`, which `Numbering` is shown to compute).

`IndexingRun` gives the calls the order of `ParseModules`: parsers fill the index
in any interleaving, git files follow (outside any module) or not, references
are resolved once, the index is marshalled; a mismatch of contents or an
unresolved reference ends the run. What was resolved may be asked for before and
after that, the index after it. Every run and property about the index goes through
this order; `ProtoIndex!Spec`, with calls in any order, is not run by itself, but
what is proved of it is proved for any order.

### Pipeline

A path is the sequence of its names. The loops of `expandPackagePaths`,
`commonAncestor` and `groupPackagePathsByModuleRoot` are taken one iteration per
step, `findGoModPath` is one operator. `ModulePath` is `strings.CutPrefix` with
the base directory, which cuts strings and not paths: `NameRest` says which name
begins with which. The parse of a module root is one step here that adds files,
those of its packages and some of what they import, or fails. `disk` is the file
at the index path: a failing `os.WriteFile` may have truncated it.

### AssignmentWalk

The syntax tree, the values that fail and the flag are chosen in `Init`. `todo`
is what the outer `ast.Inspect` has before it, `body` the same for the inner one,
in which each node carries the function it belongs to (a recursive call of
`functionBodyParser` in the code). Each action handles one node with all its
values. `PlainCall` is the early return of `callExprParser` for a call without
parameters or of something without a signature: its operands are not visited, so
nothing inside `f(x).Close()` or `go func() { ... }()` is connected except the
returns of the literal. `Reached` states this, and that the returns of a literal
outside any function declaration are never connected; nothing in the repository
says whether that is meant.

### FileWalk, TypeWalk, ValueFlow

A file is a tree with, for each spec, assignment, use and call, what it names
(`about`), both chosen in `Init`; the way of `FileWalk` through it is fixed. `todo`
holds what the traversals have before them, the innermost first: a node and which
traversal stands at it (`file`, `value`, `signature`, `body`), or one name of a spec
or one left-hand side in its turn. The actions are the handlers; what each does not
descend into is what it does not put back into `todo`. `declared` are the calls of
`AddSymbol` with the symbol they are named after and the stated parent,
`anonFuncByPos` and `varToFuncLitPos` the maps of the parser, `refs` the calls of
`AddReference`. `Around` is the reference definition of the symbol whose extent
holds a node. What may stand in what is a constant, of which `GrammarAssumption` says
what `go/ast` gives: declarations stand in the file and specs in declarations,
parameters in functions, types contain nothing but types, and a use contains nothing.
Kept simple: every interface has one method with a name of its own
(in the code the methods of all anonymous interfaces are called `(interface).M`),
`block` stands for nodes without a case and for type specs of other than interfaces,
conversions to interfaces, doc comments and finer spans are left out, and the
initialisers of package variables contain no uses the code would record.

`TypeWalk` takes one declaration: `calls` are the calls of the two walkers that
`typeSpecParser` and `valueDeclParser` make, `walk` the call at hand with what it
has seen. Kinds of expression that the switches treat alike are one kind (`parts`,
`generic`). Here `GrammarAssumption` says that type parameters belong to the
declaration, methods to an interface, and that nothing stands in a name. `TypeAssumption` says that types of packages, builtin types
and others (local types, type parameters) are different types.

`ValueFlow` takes one node that compiles (`Compiles`): the types of its slots and of
what is given to them, and whether by one expression each, by one call, or by the
two-valued form of an assertion, an index or a receive. A type is a base type and
how it is taken (plainly, by pointer, as a type parameter's constraint; for a slot also by an
alias, which the code sees through on the other side). A base says which base
declares each of its methods, so that a promoted method of a struct, an embedded one of
an interface and one that is declared are told apart; a defined type that is an interface
is of kind `interface`, one without a name `anonymous`. The code only sees some of this:
`ReturnType` is `extractReturnType`, `Methods` what the switch at
`assignment_parser.go:205-249` finds of a type, `SameName` the comparison of full names.
The errors are `Untyped` (the type of the value is not found, or has no case) in
`RefuseSlot`, and `Unplaced` in `FailSlot`: the file of the interface's method is not in
the index, or the method of the value's type has no position, as those of `error`
(`Placeless`); some references of the slot may have been made before. The variadic slot
itself is never connected and is a plain one here; a slot of the type of a type parameter
takes only that type, to which it owes nothing.

## 3. Runs

| Run | Shows | Bounds |
|---|---|---|
| `stage_walk` | type, `Accounting` (the WaitGroup is exactly what is in flight), `WaitSound`, `NoSendOnClosed`, `ParsedOnce`, `AllReachableParsed`, refinement of `Traversal`, and `Terminates` under fairness | 3 packages, 5 files, 2 workers, a channel of one; an import that is also a root and may fail; a package parsed by hand with an unparsable file; one package with more items than the channel, the dispatcher and the worker channel hold together, so every kind of blocking occurs |
| `type_refs`, stage | `SameAsInOrder` (what is recorded after the stage is exactly what was met and has an indexed target), `RecordedOnce`, `TargetsIndexed` | three files of the stage that use types of each other, of themselves and of a file outside, receivers of both kinds; 2 workers; any part of the index filled before; any file or package may fail |
| `index`, object | `Laminar` at every step, `EveryInstanceNumbered`, `NumbersEncodeParents` (the intervals say what `Parents` says, stated parents included); `DerivedIsInnermost` and `RefInInnermost` against reference definitions, also where instances overlap partially | every object of a three-byte file with up to two declarations of any range or three of non-empty range, or MODULE and DIRECTORY instances and one declaration; every set of backward stated parents; every reference range, one past the end too |
| `numbering_cycle` | finding: backward stated parents can close a cycle | as above, up to three instances |
| `index`, run | slots and stated parents are right at every step, nothing is there twice; the written index is complete: containers, directories and their nesting, every use and import once, linked to what it names; asking again changes nothing | two modules, two files in different directories (one empty, one with other contents as well), four declarations (repeated, past the end, with a parent in the same or the other file), uses at equal offsets in different files, of C names and of names nobody declares |
| `pipeline` | `ResolvedExactly`, `RootIsDeepest`, `GroupedByModule`, `OnlyWholeIndex`, `Terminates` | six directories three deep, one with the name of another as a prefix, a file in each; up to three of eight arguments (two spellings of one directory, a file, globs with and without directories); four placements of `go.mod`, nested and missing ones among them; a root flag that is absent, a directory, a file |
| `pipeline_git_paths` | finding: module paths from two bases collide | same, one argument |
| `assignments`, walk | `ReturnsOfOwnFunction`, `ConnectedOnce`, `ReachedExactly`, `ErrorsAreReported` | every tree of a file and four nodes, two values at each, up to two nodes with a value that fails, both settings of the flag |
| `file_walk` | `LiteralsOnce`, `NameAgreesWithPlace` (the name of a literal and its place in the containment tree come from one symbol), `InterfacesReached`, `UsesFollowSource` (where one function, with the literals in it, gives a variable all it gets) | every file of six nodes with declarations of every kind and one or two names, blank ones too; of seven nodes with two local variables given literals, nested and in parallel; of eight nodes in which functions give package variables literals; an error at any call of the index |
| `file_walk_other_file` | finding: a literal given to a variable of another file is looked up in that file | five nodes, one such variable |
| `file_walk_shared_variable` | finding: two functions write the same entry of `varToFuncLitPos` | nine nodes, of which two functions with an assignment of a literal each |
| `type_refs`, declaration | `FirstUseOfEach` | every declaration of five nodes over a type of the package, a builtin and another; type specs with constraints, value specs of up to two names |
| `type_walk_builtins` | finding: builtin types inside instantiations, parentheses and variadic parameters of a struct's fields | as above |
| `assignments`, node | `ConnectedAsOwed`, `RefusedForAReason` | up to two slots and three values; a named interface, `error`, two anonymous interfaces of which one embeds `error`, a type that declares its methods, one that has some of them promoted, a struct that has all promoted; pointers and type parameters of them, slots by alias too; any interface in the index or not |
| `value_flow_interfaces` | finding: values of interface type that connect nothing | same, one slot and one value |

`index`, `type_refs` and `assignments` check two modules in one run, which do not share a
variable: in a behaviour only the half that `half` names takes steps, with the inputs of
its module, and the other one stays before a trivial input (`MCIndex`, `MCTypeRefs`,
`MCAssignments`). Each half reaches what its module reaches by itself.

Why the bounds suffice. In the stage every conflict is between at most a sender,
the dispatcher and two workers, and a channel of one is full as soon as anything
is in it; the proofs remove the bound for the safety properties. In the numbering
a three-byte file has all relations two ranges can have (disjoint, touching,
nested, sharing an end, equal, overlapping, empty), and a cycle of a stated and a
derived parent needs three instances. In the index every property relates at most
two files, two declarations or two calls. `MaxDeclared`, `MaxLogged` and
`MaxRefs` cap the instances, logs and references.

A literal in a function with a return in each is four nodes; an error relates two
of them. Two arguments can be equal, nested or apart, and a third comes between.
An interface in a block in a literal in a function, or a literal as the second value
of two names, fits into six nodes; a function that gives a package variable a literal
and uses it in another one into eight, two functions that give it one each into nine. A slot and its neighbour show every way a position can
be miscounted, the third value that of a variadic call; the proof removes the bound.

`TypeOK` is checked in `stage_walk` and proved for the stage and the deferred
references. Deadlock is checked in every run but `stage_walk`, where it is
switched off because `Terminates` says more: a pool that stops is a violation of
it. In `index` the half of a run may stutter anywhere, since the model stops when
its bounds are used up or the run has failed; the numbering may not.

**Fairness.** `FairSpec` has weak fairness for the main goroutine, the
dispatcher, each worker, and for the blocked senders together: the Go scheduler
runs every goroutine that can run, a goroutine blocked in a channel operation
can run once the operation can proceed, and waiting senders are served by a
receive. `Pipeline` is sequential and has weak fairness of its next step. No
strong fairness is used. Parsing of one item is assumed to end.

## 4. Findings

* `numbering_cycle`: `numbering.go` and its test say that stated parents cannot
  form a cycle because they point backwards. The cycle that the fallback guards
  against has one stated and one *derived* edge: declare `[0,1)`, then `[0,2)`
  with the first as stated parent. The fallback is taken, so nothing is shipped
  unnumbered (`EveryInstanceNumbered`), but every stated parent of that object is
  dropped, the good ones too.
* `pipeline_git_paths`: a test says that no two files have the same module path.
  Files of packages are relative to the project root, files only git knows to the
  root of the worktree; with a project root below it `sub/x.go` and `x.go` both
  become `/x.go`.
* `file_walk_other_file` (code bug): a comment says that uses of a variable that was
  given a literal refer to the literal. The file of the target is the one the
  *variable* is declared in. With `var hook func()` in one file and
  `hook = func() {}; hook()` in another the reference names a literal of the first
  file, which has none, and `ResolveReferences` refuses the whole index.
* `file_walk_shared_variable`: the comment on `varToFuncLitPos` says that entries of
  different functions never collide, since the keys are positions of declarations. A
  package variable has one declaration and any number of functions that give it
  literals, and each writes the same entry.
* `type_walk_builtins`: the comment on `addBuiltinTypeRefs` says it refers to the builtin
  types used in the expressions, so that structs have references to those they use. It
  has no cases for instantiations, parentheses and variadic parameters, which the other
  walker has: `struct { l List[int] }` does not refer to `int`.
* `value_flow_interfaces`: comments say that the methods of an interface are
  connected with those of a value that is an interface. A value of a *named* interface
  type is taken by the case for named types, which asks for declared methods; an
  interface has none. The same property fails in two more ways: a comment says that the
  interface of a result may be direct or underlying, but an alias is neither here (421),
  while the other handlers see through it; and a comment says that methods of one full
  name mean an assignment to the same type, but methods of all anonymous interfaces are
  called `(interface).M` (99), so one is never connected with another.

What the passing properties except, or state as it is although something in the
repository says otherwise, is no finding with a run but worth knowing:

* `InterfacesReached`: interfaces in the signature of a function literal, and in the
  methods of a named interface, are never declared (`Hidden`), while a call through
  such a parameter is recorded as a reference to the method; that also ends the run.
  `file_parser.go:486` processes them for function declarations.
* `RefusedForAReason` has two reasons besides an interface that is not in the index. With
  `f(g())`, `f(w I, xs ...T)` and several results of `g` the number of slots becomes 1
  (`assignment_parser.go:314`), the tuple is taken for a value, and the file fails. And
  with `var y interface{ error; M() }`, `var x interface{ Error() string } = y` the method
  `Error` of `y` has no position, for which `AddReference` refuses the reference (128-131).
  Either ends the run.
* `ConnectedAsOwed` asks for nothing that is not owed, and for all that a defined type
  *declares*. Promoted methods are owed too, but connect nothing: `types.Named.Methods` has
  the declared ones only (231), and a struct without a name has no case (232). A type
  that satisfies an interface by what it embeds is not connected with it at all. No
  comment says otherwise, so there is no run. A two-valued index or receive is
  connected by the type of the map or channel.
* `UsesFollowSource` speaks of variables that one function gives all their literals. Of
  others, by the finding above, a use refers to the literal that the walk of the file
  came to last before it, from whichever function, and the walk does not always go in the order of
  the source: a literal in an initialiser that a name claims is walked before one of the
  same declaration that none does.
* `ReachedExactly`: with continue-on-error the traversal goes on after an error, but
  its callback returns at once for every later node (`assignment_parser.go:493`): the
  rest of the file yields nothing, silently.
* `ContainersComplete` is about the order of a run. `createModuleSymbols` skips a
  module that has its symbol and `createDirectorySymbols` runs once, so a file added
  after `Marshal` would never be given its container; the command line adds none.

## 5. Proofs

For every value of the constants (graphs, workers, channel capacity, failing items,
references and their targets; types, numbers of slots and values; syntax trees and
files of any size; file systems, arguments and `go.mod` files; objects with any
instances, stated parents and references; files, directories, declarations, uses,
imports and any number of calls):

| Theorem | Module |
|---|---|
| `StageTypes`, `StageAccounting`, `StageWaitSound`, `StageNoSendOnClosed`, `StageParsedOnce`, `StageAllReachableParsed`, `StageImplementsTraversal` | `ParsingStageProofs` |
| `DeferredInvariant`, `DeferredTypes`, `DeferredTargets`, `DeferredSameAsInOrder`, `DeferredRecordedOnce`; `TypeWalkInvariant`, `TypesAtFirstUse` | `TypeRefsProofs` |
| `FileWalkInvariant`, `LiteralsDeclaredOnce`, `InterfacesDeclared`, `NamesFromPlaces` | `FileWalkProofs` |
| `NumberingInvariant`, `LaminarTheorem`, `EveryInstanceNumberedTheorem`, `NumbersEncodeParentsTheorem`, `DerivedIsInnermostTheorem`, `RefInInnermostTheorem` | `NumberingProofs` |
| `WalkInvariant`, `ReturnsGoToTheirFunction`, `NothingConnectedTwice`, `AllAndOnlyReached`, `NoErrorIsLost`; `FlowInvariant`, `FlowConnectedAsOwed`, `FlowRefusedForAReason` | `AssignmentProofs` |
| `PipelineInvariant`, `PathsResolved`, `RootResolved`, `PathsGrouped`, `WholeIndexWritten` | `PipelineProofs` |
| `IndexInvariant`, `SlotsTheorem`, `StatedParentsTheorem`, `NoDuplicatesTheorem`, `PlacesInvariant`; `RunIsStore`, `RunInvariant`, `ContainersTheorem`, `NoDuplicateRefsTheorem`, `NothingDroppedTheorem`, `PublishIdempotentTheorem`, `WrittenChainTheorem` | `IndexProofs` |

**The stage.** Assumptions: `GraphAssumption` of `PackageGraph` and the constants'
assumptions of `ParsingStage` (finite set of workers, capacity a natural number).
Its inductive invariant `IInv` is `TypeOK`, `Accounting`, `Holding` (what a worker
holds in each control state) and `Phases` (how far the main goroutine is).
`Accounting` alone is not inductive: that `wg.Done` lowers the counter needs that a
worker in state `done` holds an item. `WaitSound` follows from it by arithmetic: a
sum of lengths and cardinalities is 0 only if each is. `RInv` adds `HandedOver`
(every deduplicated item is queued, in a worker's hands, or finished) and
`Discovery` (where the children of an item are while it is parsed); the refinement
and `AllReachableParsed` rest on it.

**Deferred references.** The assumptions are the types of the constants
(`RefAssumption`) and that a reference occurs at one position of one file
(`PositionAssumption`); sets need not be finite. `SameAsInOrder` speaks of the
end of the stage only, so the invariant accounts for each reference all the way:
`NotYet` (in no list and not in the log before its parse passes it), `Dealt` (in
exactly one place after), `Settled` (still so while the lists are emptied, unless
its target is not indexed), with `WorkersApart` (two workers never parse one
file) and `Lookups` (an answer "yes" cannot go stale, since files only arrive; an
answer "no" can, which is why the deferred ones are asked again). The three steps
that pass a reference differ in where they put it, so they share the lemma
`Passed`; the two loops share `Resolving`.

**Values.** The assumption is `BaseAssumption`: a plain type without methods, every base
of one of five kinds, a method declared by a defined type or an interface that has it
itself, numbers of slots and values natural. The invariant is `NodeOK` (the node is
one that compiles, and stays so), `Progress`, `MadeIsOwed` (whatever has been made is
owed), `CertainIsMade` (of the slots passed, nothing certain is missing), and
`RefusedForAReason` itself. `ValueOfSlot` and two facts about counting carry it: in a node that
compiles the number of expressions is never refused (`Counted`), and
`extractReturnType` finds the value of the slot (`Found`) or, for results spread over a
variadic call only, a tuple (`TupleOnlySpread`). `GivesOwed` is then about methods: what
the switch finds of the value's type is part of what is owed, and has all that is
certain; `UnplacedReason` is about why a reference may be refused.

**The assignment walk.** The only assumption is that the sizes are natural numbers
(`WalkAssumption`); `Tree` is what `Init` says of the syntax tree, and it stays. What a
traversal has before it is a front (`IsFront`): nodes in the order of the source, none
of them above another. Behind the front everything is done, and what is still to do is
a node of the front or below one (`Ahead`). `OuterOK` says this of the outer traversal
and `InnerOK` of the inner one, which is in the body of the declaration that stands at
the head of the outer front, and which knows the innermost function of every node it
holds. `LogOK`: a node that has been connected is one that should
be, lies behind the traversal that connects it, and has no failing value unless there
is an error; since it lies behind, it is not connected again. `NothingMissed`: without an error, a node that should be reached is connected
completely or is still ahead of the traversal that connects it, which for a return is
the inner one. `EndOK` ties the result to the flag and the error. Each action takes
the head off a front, with or without putting its children in its place, and one lemma
(`StepLemma`) says what that does to a front: nothing is lost but the head, or the
head and what is below it. At the end both fronts are empty, so nothing is ahead.

**The walk of a file.** The assumptions are `WalkAssumption` (names and numbers of
variables are what they stand for) and `GrammarAssumption` of `FileWalk`; the files
need not be small, and what `WellFormed` and `WellNamed` say of them is not used: `IsFile`,
that the file is a tree of the grammar with names for its nodes, is enough. What
the traversals have before them forms two fronts, that of the file and that of the
functions (signatures and bodies); on each, no item is at or below another
(`FrontsApart`). The items of values are on neither: they overlap with the file's, and
that is where a literal is met twice. `Undeclared` says what each front is the first to
declare: a function's traversal everything below its items, the file's everything
outside functions but literals, which a name may have claimed. That nothing in a
function is declared before the function is (`OutsideFirst`) keeps the two fronts out of
each other's way, and with `NothingMissed` (what is not declared is below an item of the
front it is left to) makes the account complete: at the end nothing is before the
traversals, and a least node that is not declared would have all functions around it
declared, so it would be missed (`AllDone`).

The name of a literal needs one thing more. In a spec with one name, the file's
traversal would name a literal after the package while its place is in the variable;
`ClaimsFirst` says that this cannot happen, since such a literal is below the value of
the name, or the name is still to come, before the file's traversal goes into the spec.
`GenDecl` establishes it for all specs of a declaration at once by putting their names
first; with the mutant that puts them last `NameAgreesWithPlace` fails.
`PlaceInFunction` and `PlaceInFile` compute `Around` from the traversal that comes to the
literal, and `SymbolsIn` holds the result: at most one declaration for each node, and
each literal named after its place. `anonFuncByPos` is the set of the literals declared.

Every action but the last three takes the first item off and puts others in its place.
`Replaces` says locally what these must satisfy (they are children, nothing below the
item is lost, claims are kept), and one lemma (`WalksOn`) turns it into the invariant of
the whole; `GoingOn`, `Entering` and `Leaving` are the ways in which the actions use it.

**Types of a declaration.** The assumptions are `TypeAssumption` and
`GrammarAssumption` of `TypeWalk`; the shapes need not be small or few. `TreesAreGrown`
of `Lemmas`, which the walk of a file uses as well, shows by a
least counterexample over the recursive definition of `TreesOf` that every tree is well
built (parents before children, children of a kind the grammar allows, `Above` as
meant), and everything else about trees follows from that. A walker's expressions are
again a front. `OpenTo` are the leaves a walker may come to at all, as nothing it is
barred from stands above them, `From` those it comes to from a front, `Goal` those of
the expressions a call is given. `WalkOK` says that what the call at hand has seen are
the types of its goal without what is still ahead (`Visited`), and that all of that comes
earlier in the source than the front; `RefsOK` that the references are the first uses
among what each call has visited. That a step goes on correctly (`GoesOnLemma`) rests
on the two switches: a kind they do not go into is one the walker is barred from.
That the goals are the right ones is a fact about the calls, not about the walk
(`AnswersLemma`): each call answers for the uses in the type parameters, for those in
the type, or for the builtin types, no two for the same, and together for all of them.
That is where `WellFormed` is needed: a declaration has one type, and a constraint is
one expression. Both together say at the end, when nothing is ahead, exactly which leaves
have a reference (`FirstsRecorded`), the kinds the switches leave out included;
`FirstUseOfEach` follows from it, and is true of more walkers than this one.

**Paths.** The assumption is `FileSystem`: finitely many directories, paths without
`..` (they come out of `filepath.Abs`, which cleans them), and the parent of every
path is a directory. Each loop has an invariant of its own, and the invariant says that
a phase that is over has done what its loop is for: `ExpandedTo` (the paths are what
the arguments so far name, each once), `AncestorTo` (the candidate holds the paths so
far, and whatever holds all of them holds it), `GroupedTo` (every path so far is in the
group of its innermost module, once), `ParsedTo` (the files of the roots so far are in
the index) and `DiskOK`. The search for the common ancestor is right because the test
with `filepath.Rel` holds exactly if the candidate is a prefix (`WithinLemma`), and two
prefixes of one path are prefixes of each other; it cannot fail, since the root holds
every path. `findGoModPath` finds the innermost `go.mod` (`FindGoModLemma`), and of
those there is one.

**Numbering.** Assumptions: the stride is a natural number above 1
(`StrideAssumption`; `dfsStride` is 1024), and `ObjectAssumption`: an object is a
sequence of instances and one of references with integer offsets, none of which ends
before it starts. What is stated is arbitrary. The code justifies the ends: an
instance `AddSymbol` makes and a reference have the `Pos` and `End` of one syntax
node, and cutting both off at the length of the file keeps their order; all others
go from 0 to the length.

The second half of `Lemmas` is about the operators. The order of the sort is total and
strict, so `Sorted` lists each instance once, in order. The stack of the sweep is a
chain: each instance on it contains the one above it (`SweepLemma`), what is popped
can contain nothing that comes later, and therefore the top is a container of the
instance at hand inside which there is no other: this needs no hypothesis about
overlaps, since a range that overlaps a later one partially has ended, as far as
what follows is concerned, when it is popped. Derived parents come before their
children in the order, so they form a forest. For references the same stack is
wound down to the instances that cover the reference, and one that covers it is never
dropped.

The walk's invariant `NumberingInv` speaks of `Around`: the instances whose interval
was open when an instance was entered. `NumbersOK` (every number is given once and
is at most the counter), `StackOK` (the stack is a path of parents, and what is open
is what is on it), `NestingOK` (what is around an instance is its parent and what
is around that, so it is the set of its ancestors and their number is its level),
`WaitingOK` (an instance that is not entered is in the list of children its parent
still has to visit, or its parent is not entered either). So a finished walk leaves
out only instances all of whose ancestors it left out; in a forest there are none,
and that is what `IsForest` decides before the numbers are used: `Fallback` replaces
the parents by the derived ones, which are a forest, and starts from empty numbers.
`Laminar`, `NumbersEncodeParents` and the two theorems about ranges follow at the end.

**The index, calls in any order.** Assumptions: `DirAssumption` and
`InputAssumption` of `ProtoIndex`. Every path has a directory and every directory
other than the root a different one: `parentDir` shortens a path until it is `/`.
Offsets are natural numbers, a declaration does not end before it starts (as above),
there are finitely many directories, and a use is never also an import (they come in
by different calls). Nothing is assumed about the number of files, calls or names.

`IndexInv` holds in every reachable state of `Spec`, where any call may follow any
other. Its core `IndexOK` relates the modules, symbols, objects and declared
instances: every instance and reference points at a symbol, names (with scopes) and
paths are there once, no instance is twice in an object, and the slot remembered for
a declaration holds its instance. It is stated over sequences, not over the state,
because `Publish` composes passes (module symbols, containers, directory symbols,
sentinels) that each break the form of the state and not `IndexOK`: there is one
lemma for each elementary addition (`ContainersAdded` for a pass over all objects),
and each action is a few of them. `StatedParentsAreReal`, `LogTypes` and `NamesPoint`
(a name of a file stands for a symbol of that name declared there) are the rest;
`SlotsPointHome` and `NoDuplicates` follow. `PlacesInv` adds where instances are:
each inside its object, those of containers over all of it, `FILE` first.

**A run.** `RunIsStore` shows that every step of a run is a step of the index or a
stutter, so `IndexInv` and `PlacesInv` hold in a run as well. The properties of the
written index need more, and say nothing before it is written; `RunInv` says what
holds on the way, by phase. `Filling`: no reference is in an object yet, no module
has its symbol, and every use and import asked for is in its log. `Ready`: every use
has its reference, none twice; the imports are still logged, or made (after
`GetAllReferencesNames`). `Made`: nothing is pending, imports and containers are
there, each sentinel but the root's is referred to by the one of its directory and
by no other, and `tree` is what `TreeOf` gives now, so that making it again gives the same
(`PublishIdempotentTheorem`). That a reference is not added twice by two passes
needs that uses point at declarations and imports at modules: symbols of different rank.

`WrittenChainTheorem` joins all of it: by `PlacesInv` the containers of a file have
equal ranges that contain every declaration, so by `ChainLemma` of `Lemmas` the
derived parent of a container is the next of the containers by rank, that of a
declaration is a declaration or a container, a stated parent is a declaration
(by `SlotsPointHome`), and the forest has no cycle (`ForestHasNoCycle`): climbing
from a declaration ends, and can leave the declarations only into `FILE`.

TLC checked each of the inductive invariants, on the bounds of its run, before it
was proved.

What a recursive function computes for every input (the sort, the stacks, the loop
that adds references) is proved by taking a least counterexample (`LeastNat` in
`Lemmas`) instead of an induction theorem, whose operator parameter the provers
cannot instantiate.

Only model-checked: liveness (`Terminates` of both modules, which needs fairness
and `ENABLED`), `UsesFollowSource` of `FileWalk`, and the findings, each of which
is a counterexample. A proof of `UsesFollowSource` needs
an invariant over the order in which all traversals of one function meet its code. That the steps of `Numbering` compute what
`Containment!Parents` says is proved; that `ProtoIndex` uses `Parents` in place of
those steps is a choice of the model.

## 6. Not modelled

Loading packages, go-git, the syntax of globs and go/types (all external), doc
comments, finer spans, file types, 32-bit offset checks, logging and the command
line. The file system does not change during a run. The walk of a file runs by
itself: that what it records reaches the index is the interface of `ProtoIndex`, not
a composition that is run. See the components in `PROJECT.json`.

## 7. Plan

1. done: `ParsingStage` with its refinement and proofs.
2. done: `Containment`, `Numbering`.
3. done: `ProtoIndex`, `IndexingRun`.
4. done: `DeferredRefs` with its proofs.
5. done: `Pipeline`, with the paths.
6. done: `AssignmentWalk`.
7. done: `FileWalk`, `TypeWalk`, `ValueFlow`.
8. done: theorems about `Numbering`, `ProtoIndex` and `IndexingRun`.
9. done: theorems about `AssignmentWalk` and `Pipeline`.
10. done: theorems about `TypeWalk` and `FileWalk`.
11. `UsesFollowSource` for every file: the traversals of one function meet its code in
    the order of the source.
12. `Pipeline` as the implementation of an atomic "whole index or old file".
