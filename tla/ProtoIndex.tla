----------------------------- MODULE ProtoIndex -----------------------------
(***************************************************************************)
(* The index that all workers write to, one action per operation (each     *)
(* holds the mutex from its first to its last access).  The calls come in  *)
(* any order, as they do from the workers of several stages; ids are       *)
(* positions in the sequences, because every id is given by a counter that *)
(* grows with the append.  Symbols are kept apart by what orders them: the *)
(* rank of their kind.                                                     *)
(***************************************************************************)
EXTENDS Containment, Functions, FiniteSetsExt

CONSTANTS
    ModuleNames,   \* names given to AddModule
    Files,         \* what AddFile is given: records of path, hash, len
    Dirs, Top,     \* directories, and the root directory
    ParentDir,     \* parentDir: directory of each path and directory
    Declarations,  \* what AddSymbol is given: path, name, scope, start, end, under
    References,    \* what AddReference is given: from, to (paths), name, start, end
    Imports,       \* what AddModuleImport is given: from (path), module, start, end
    CNames,        \* names that start with "C."
    NoName,        \* no parent is stated
    MaxDeclared,   \* bound on the instances AddSymbol makes
    MaxLogged,     \* bound on the length of each log
    MaxRefs        \* bound on the references of an object

(* Files and directories all have a directory, and parentDir shortens a     *)
(* path until it reaches the root.                                         *)
ASSUME DirAssumption ==
    /\ Top \in Dirs
    /\ ParentDir[Top] = Top
    /\ Dirs \subseteq DOMAIN ParentDir
    /\ \A p \in DOMAIN ParentDir : ParentDir[p] \in Dirs
    /\ \A d \in Dirs \ {Top} : ParentDir[d] # d

(* Offsets count bytes, a declaration's position is not after its end (Pos  *)
(* and End of one syntax node), and a use and an import are different      *)
(* calls.                                                                  *)
ASSUME InputAssumption ==
    /\ IsFiniteSet(Dirs)
    /\ \A f \in Files : f.path \in DOMAIN ParentDir /\ f.len \in Nat
    /\ \A d \in Declarations : d.start \in Nat /\ d.end \in Nat /\ d.start <= d.end
    /\ \A x \in References \cup Imports : x.start \in Nat /\ x.end \in Nat
    /\ References \cap Imports = {}

VARIABLES
    modules,       \* name, and symbol once createModuleSymbols made it
    objects,       \* project.Objects
    symbols,       \* project.Symbols
    byFileAndName, \* symbolByFileAndName
    declared,      \* instances AddSymbol made, with their slots
    stated,        \* statedParent
    refLog,        \* referencesLog
    importLog,     \* moduleImportsLog
    dirsDone,      \* directorySymbolsCreated
    tree           \* the containment tree each object was last numbered by

vars == <<modules, objects, symbols, byFileAndName, declared, stated, refLog,
          importLog, dirsDone, tree>>

NoSymbol == 0
NoModule == 0
Unspecified == "UNSPECIFIED"

Init ==
    /\ modules = <<>> /\ objects = <<>> /\ symbols = <<>> /\ declared = <<>>
    /\ byFileAndName = <<>> /\ stated = <<>> /\ tree = <<>>
    /\ refLog = <<>> /\ importLog = <<>>
    /\ dirsDone = FALSE

FileIds == {o \in DOMAIN objects : ~objects[o].sentinel}
FileId(path) == {o \in FileIds : objects[o].path = path}

-----------------------------------------------------------------------------
(* Filling the index *)

(* A module that is known keeps its id, and nothing changes. *)
AddModule(name) ==
    /\ \A m \in DOMAIN modules : modules[m].name # name
    /\ modules' = Append(modules, [name |-> name, symbol |-> NoSymbol])
    /\ UNCHANGED <<objects, symbols, byFileAndName, declared, stated, refLog,
                   importLog, dirsDone, tree>>

(* A new path becomes an object with a FILE instance over all of it. *)
AddFile(m, f) ==
    /\ FileId(f.path) = {}
    /\ symbols' = Append(symbols, [name |-> f.path, scope |-> Unspecified, rank |-> RankFile])
    /\ objects' = Append(objects,
            [path |-> f.path, sentinel |-> FALSE, hash |-> f.hash, len |-> f.len, module |-> m,
             insts |-> <<[symbol |-> Len(symbols) + 1, start |-> 0, end |-> f.len]>>,
             refs |-> <<>>])
    /\ UNCHANGED <<modules, byFileAndName, declared, stated, refLog, importLog,
                   dirsDone, tree>>

(* A path that is known must come with the contents it came with before. *)
SameContents(f) == \E o \in FileId(f.path) : objects[o].hash = f.hash
HashMismatch(f) == \E o \in FileId(f.path) : objects[o].hash # f.hash

AddFileAgain(f) == SameContents(f) /\ UNCHANGED vars

(* An extent that ends past the object is cut off at its end. *)
ClampedEnd(o, d) == IF d.end > objects[o].len THEN objects[o].len ELSE d.end
ClampedStart(o, d) ==
    IF d.end > objects[o].len /\ d.start > objects[o].len THEN objects[o].len ELSE d.start

SymbolIds(name, scope) ==
    {s \in DOMAIN symbols : symbols[s].rank = RankOther /\ symbols[s].name = name
                            /\ symbols[s].scope = scope}

FindOrCreate(d) ==
    IF SymbolIds(d.name, d.scope) # {} THEN CHOOSE s \in SymbolIds(d.name, d.scope) : TRUE
    ELSE Len(symbols) + 1

SymbolsWith(d) ==
    IF SymbolIds(d.name, d.scope) # {} THEN symbols
    ELSE Append(symbols, [name |-> d.name, scope |-> d.scope, rank |-> RankOther])

(* The map with one more entry, or another value for a key it has. *)
Put(map, key, value) ==
    [k \in DOMAIN map \cup {key} |-> IF k = key THEN value ELSE map[k]]

Noted(o, d) == Put(byFileAndName, <<objects[o].path, d.name>>, FindOrCreate(d))

(* Mutant: the key is made from the extent before it is cut off. *)
SameInstanceUnclamped(o, d) ==
    {i \in DOMAIN declared :
        /\ declared[i].symbol = FindOrCreate(d)
        /\ declared[i].object = o
        /\ declared[i].start = d.start
        /\ declared[i].end = d.end}

(* instanceIDByKey: the instance this call describes, if it exists. *)
SameInstance(o, d) ==
    {i \in DOMAIN declared :
        /\ declared[i].symbol = FindOrCreate(d)
        /\ declared[i].object = o
        /\ declared[i].start = ClampedStart(o, d)
        /\ declared[i].end = ClampedEnd(o, d)}

(* Mutant: counts only the instances AddSymbol made. *)
NextSlotDeclared(o) == Cardinality({i \in DOMAIN declared : declared[i].object = o}) + 1

NextSlot(o) == Len(objects[o].insts) + 1

(* A stated parent must be an earlier instance of the same object. *)
Acceptable(o, p) == declared[p].object = o /\ declared[p].slot < NextSlot(o)

(* Mutant: the id of the parent is taken for its slot. *)
StatedById(o, p) ==
    IF p # NoParent /\ Acceptable(o, p) THEN Put(stated, <<o, NextSlot(o)>>, p) ELSE stated

StatedWith(o, p) ==
    IF p # NoParent /\ Acceptable(o, p)
    THEN Put(stated, <<o, NextSlot(o)>>, declared[p].slot)
    ELSE stated

(* The ids a caller may pass as the parent of d: what it got for d.under. *)
ParentIds(d) ==
    IF d.under = NoName THEN {NoParent}
    ELSE {i \in DOMAIN declared : symbols[declared[i].symbol].name = d.under}

AddSymbol(o, d, p) ==
    /\ modules # <<>>
    /\ SameInstance(o, d) = {}
    /\ Len(declared) < MaxDeclared
    /\ symbols' = SymbolsWith(d)
    /\ byFileAndName' = Noted(o, d)
    /\ stated' = StatedWith(o, p)
    /\ declared' = Append(declared,
            [symbol |-> FindOrCreate(d), object |-> o, start |-> ClampedStart(o, d),
             end |-> ClampedEnd(o, d), slot |-> NextSlot(o), asked |-> p])
    /\ objects' = [objects EXCEPT ![o].insts = Append(@,
            [symbol |-> FindOrCreate(d), start |-> ClampedStart(o, d), end |-> ClampedEnd(o, d)])]
    /\ UNCHANGED <<modules, refLog, importLog, dirsDone, tree>>

(* Same symbol, same object, same extent: the instance that exists. *)
AddSymbolAgain(o, d) ==
    /\ modules # <<>>
    /\ SameInstance(o, d) # {}
    /\ symbols' = SymbolsWith(d)
    /\ byFileAndName' = Noted(o, d)
    /\ UNCHANGED <<modules, objects, declared, stated, refLog, importLog, dirsDone, tree>>

AddReference(o, r) ==
    /\ Len(refLog) < MaxLogged
    /\ Len(objects[o].refs) < MaxRefs
    /\ refLog' = Append(refLog,
            [from |-> o, to |-> r.to, name |-> r.name, start |-> r.start, end |-> r.end])
    /\ UNCHANGED <<modules, objects, symbols, byFileAndName, declared, stated,
                   importLog, dirsDone, tree>>

AddModuleImport(o, i) ==
    /\ Len(importLog) < MaxLogged
    /\ Len(objects[o].refs) < MaxRefs
    /\ importLog' = Append(importLog,
            [from |-> o, module |-> i.module, start |-> i.start, end |-> i.end])
    /\ UNCHANGED <<modules, objects, symbols, byFileAndName, declared, stated,
                   refLog, dirsDone, tree>>

-----------------------------------------------------------------------------
(* Resolving the references *)

Resolvable(r) == <<r.to, r.name>> \in DOMAIN byFileAndName

Unresolved == {k \in DOMAIN refLog : ~Resolvable(refLog[k]) /\ refLog[k].name \notin CNames}

(* Mutant: what was added is not remembered. *)
AddNewAlways(seq, x) == Append(seq, x)

AddNew(seq, x) == IF Contains(seq, x) THEN seq ELSE Append(seq, x)

(* Mutant: the key of what was added does not name the file it is in. *)
ResolvedAnywhere(log, o) ==
    FoldLeft(LAMBDA acc, k :
                IF /\ log[k].from = o /\ Resolvable(log[k])
                   /\ \A j \in 1..(k - 1) :
                        <<log[j].to, log[j].name, log[j].start, log[j].end>> #
                        <<log[k].to, log[k].name, log[k].start, log[k].end>>
                THEN Append(acc, [to |-> byFileAndName[<<log[k].to, log[k].name>>],
                                  start |-> log[k].start, end |-> log[k].end])
                ELSE acc,
             <<>>, [k \in DOMAIN log |-> k])

(* What the entries of log add to object o, each once: to is the symbol of *)
(* each entry, or NoSymbol.                                                *)
RefsAdded(log, to, o) ==
    LET added[k \in 0 .. Len(log)] ==
            IF k = 0 THEN <<>>
            ELSE IF log[k].from = o /\ to[k] # NoSymbol
                 THEN AddNew(added[k - 1],
                             [to |-> to[k], start |-> log[k].start, end |-> log[k].end])
                 ELSE added[k - 1]
    IN  added[Len(log)]

TargetOf(r) == IF Resolvable(r) THEN byFileAndName[<<r.to, r.name>>] ELSE NoSymbol

Resolved(log, o) == RefsAdded(log, [k \in DOMAIN log |-> TargetOf(log[k])], o)

WithRefs(log) ==
    [o \in DOMAIN objects |-> [objects[o] EXCEPT !.refs = @ \o Resolved(log, o)]]

ResolveReferences ==
    /\ Unresolved = {}
    /\ objects' = WithRefs(refLog)
    /\ refLog' = <<>>
    /\ UNCHANGED <<modules, symbols, byFileAndName, declared, stated, importLog,
                   dirsDone, tree>>

(* The first reference without a target stops the loop: what came before   *)
(* it has been added, and the log stays as it was.                         *)
ResolveReferencesFails ==
    /\ Unresolved # {}
    /\ \A o \in FileIds : Len(objects[o].refs) < MaxRefs
    /\ objects' = WithRefs(SubSeq(refLog, 1, Min(Unresolved) - 1))
    /\ UNCHANGED <<modules, symbols, byFileAndName, declared, stated, refLog,
                   importLog, dirsDone, tree>>

-----------------------------------------------------------------------------
(* Finishing the index *)

Orders(S) == SetToSeqs(S)
PositionIn(seq, x) == CHOOSE k \in DOMAIN seq : seq[k] = x

Pending == {m \in DOMAIN modules : modules[m].symbol = NoSymbol}

(* createModuleSymbols, the modules without a symbol taken in some order. *)
ModuleSymbolsMade(order) ==
    symbols \o [k \in DOMAIN order |->
        [name |-> modules[order[k]].name, scope |-> Unspecified, rank |-> RankModule]]

ModulesMade(order) ==
    [m \in DOMAIN modules |->
        IF m \in Pending
        THEN [modules[m] EXCEPT !.symbol = Len(symbols) + PositionIn(order, m)]
        ELSE modules[m]]

Targets(i, mods) == {m \in DOMAIN mods : mods[m].name = i.module}

ModuleSymbol(i, mods) ==
    IF Targets(i, mods) = {} THEN NoSymbol ELSE mods[CHOOSE m \in Targets(i, mods) : TRUE].symbol

(* resolveModuleImports: an import of a module that is not indexed is      *)
(* dropped, the same import is added once.                                 *)
ImportRefs(mods, o) ==
    RefsAdded(importLog, [k \in DOMAIN importLog |-> ModuleSymbol(importLog[k], mods)], o)

(* Mutant: the end is the offset of the last byte. *)
WholeFileShort(symbol, f) == [symbol |-> symbol, start |-> 0, end |-> f.len - 1]

WholeFile(symbol, f) == [symbol |-> symbol, start |-> 0, end |-> f.len]

ModuleObjectsMade(order) ==
    LET mods == ModulesMade(order)
    IN  [o \in DOMAIN objects |->
            [objects[o] EXCEPT
                !.insts = IF objects[o].module \in Pending
                          THEN Append(@, WholeFile(mods[objects[o].module].symbol, objects[o]))
                          ELSE @,
                !.refs = @ \o ImportRefs(mods, o)]]

(* GetAllReferencesNames makes the module symbols and then only reads. *)
GetAllReferencesNames ==
    \E order \in Orders(Pending) :
        /\ modules' = ModulesMade(order)
        /\ symbols' = ModuleSymbolsMade(order)
        /\ objects' = ModuleObjectsMade(order)
        /\ importLog' = <<>>
        /\ UNCHANGED <<byFileAndName, declared, stated, refLog, dirsDone, tree>>

(* All directories above the files: those in every set that holds the      *)
(* files' directories and the one above each directory it holds.           *)
ClosedUpwards(S) ==
    /\ \A o \in FileIds : ParentDir[objects[o].path] \in S
    /\ \A d \in S : ParentDir[d] \in S

DirSet == {d \in Dirs : \A S \in SUBSET Dirs : ClosedUpwards(S) => d \in S}

(* Mutant: the pass is not run once. *)
MakesDirectoriesAgain == FileIds # {}

MakesDirectories == ~dirsDone /\ FileIds # {}

(* createDirectorySymbols, given the symbols and objects so far and the    *)
(* directories in some order.                                              *)
DirectorySymbolsMade(syms, order) ==
    syms \o [k \in DOMAIN order |->
        [name |-> order[k], scope |-> Unspecified, rank |-> RankDirectory]]

DirectoryObjectsMade(syms, objs, order) ==
    LET symbolOf(d)  == Len(syms) + PositionIn(order, d)
        parent(o)    == ParentDir[objs[o].path]
        files        == [o \in DOMAIN objs |->
            IF objs[o].sentinel THEN objs[o]
            ELSE [objs[o] EXCEPT !.insts = Append(@, WholeFile(symbolOf(parent(o)), objs[o]))]]
        toChild(d)   == [to |-> symbolOf(d), start |-> 0, end |-> 0]
        children(d)  == SetToSeq({c \in Range(order) : c # d /\ ParentDir[c] = d})
        sentinel(d)  ==
            [path |-> d, sentinel |-> TRUE, hash |-> d, len |-> 0, module |-> NoModule,
             insts |-> <<[symbol |-> symbolOf(d), start |-> 0, end |-> 0]>>,
             refs |-> [k \in DOMAIN children(d) |-> toChild(children(d)[k])]]
    IN  files \o [k \in DOMAIN order |-> sentinel(order[k])]

(* Mutant: read from symbolByID, which has no directories. *)
RankedByMap(syms, insts) ==
    [k \in DOMAIN insts |-> [start |-> insts[k].start, end |-> insts[k].end,
        rank |-> IF syms[insts[k].symbol].rank = RankDirectory THEN RankOther
                 ELSE syms[insts[k].symbol].rank]]

(* numberObjectTrees: the kind of every symbol is read from the project. *)
Ranked(syms, insts) ==
    [k \in DOMAIN insts |-> [start |-> insts[k].start, end |-> insts[k].end,
                             rank |-> syms[insts[k].symbol].rank]]

StatedIn(o) ==
    [k \in {k \in DOMAIN objects[o].insts : <<o, k>> \in DOMAIN stated} |-> stated[<<o, k>>]]

TreeOf(syms, objs) ==
    [o \in DOMAIN objs |->
        Parents(Ranked(syms, objs[o].insts),
                IF o \in DOMAIN objects THEN StatedIn(o) ELSE <<>>)]

(* Marshal and Upload: modules, directories, numbers, in that order. *)
Publish ==
    \E mo \in Orders(Pending), do \in Orders(IF MakesDirectories THEN DirSet ELSE {}) :
        LET syms == ModuleSymbolsMade(mo)
            objs == ModuleObjectsMade(mo)
        IN  /\ modules' = ModulesMade(mo)
            /\ symbols' = DirectorySymbolsMade(syms, do)
            /\ objects' = IF MakesDirectories THEN DirectoryObjectsMade(syms, objs, do) ELSE objs
            /\ dirsDone' = (dirsDone \/ MakesDirectories)
            /\ importLog' = <<>>
            /\ tree' = TreeOf(symbols', objects')
            /\ UNCHANGED <<byFileAndName, declared, stated, refLog>>

-----------------------------------------------------------------------------
Fill ==
    \/ \E name \in ModuleNames : AddModule(name)
    \/ \E f \in Files :
          \/ \E m \in DOMAIN modules \cup {NoModule} : AddFile(m, f)
          \/ AddFileAgain(f)
    \/ \E d \in Declarations : \E o \in FileId(d.path) :
          \/ \E p \in ParentIds(d) : AddSymbol(o, d, p)
          \/ AddSymbolAgain(o, d)
    \/ \E r \in References : \E o \in FileId(r.from) : AddReference(o, r)
    \/ \E i \in Imports : \E o \in FileId(i.from) : AddModuleImport(o, i)

Next ==
    \/ Fill
    \/ ResolveReferences \/ ResolveReferencesFails
    \/ GetAllReferencesNames
    \/ Publish

Spec == Init /\ [][Next]_vars

-----------------------------------------------------------------------------
(* Properties *)

(* The slot remembered for an instance is where that instance is, whatever *)
(* FILE, MODULE and DIRECTORY instances were put between the declarations. *)
SlotsPointHome ==
    \A i \in DOMAIN declared :
        LET d == declared[i]
        IN  /\ d.slot \in DOMAIN objects[d.object].insts
            /\ objects[d.object].insts[d.slot] =
                    [symbol |-> d.symbol, start |-> d.start, end |-> d.end]

(* A stated parent is the instance the caller named, in the same object,   *)
(* before its child.                                                       *)
StatedParentsAreReal ==
    \A key \in DOMAIN stated :
        \E i, p \in DOMAIN declared :
            /\ <<declared[i].object, declared[i].slot>> = key
            /\ declared[i].asked = p
            /\ declared[p].object = declared[i].object
            /\ declared[p].slot = stated[key]
            /\ p < i

(* Two parsers that index one dependency, or two constructs that describe  *)
(* one declaration, leave one instance, one symbol and one object of it.   *)
NoDuplicates ==
    /\ \A o \in DOMAIN objects : IsInjective(objects[o].insts)
    /\ IsInjective(symbols)
    /\ \A o, q \in FileIds : objects[o].path = objects[q].path => o = q

(* Once directories exist, every file's directory can be reached from the  *)
(* root by the references of the sentinels, and each but the root from one *)
(* sentinel only.                                                          *)
DirId(d) == {s \in DOMAIN symbols : symbols[s].rank = RankDirectory /\ symbols[s].name = d}
Sentinels == DOMAIN objects \ FileIds
DirectoryTree ==
    LET into(q) == {o \in Sentinels :
                       \E k \in DOMAIN objects[o].refs :
                           objects[o].refs[k].to \in DirId(objects[q].path)}
    IN  \A q \in Sentinels :
            IF objects[q].path = Top THEN into(q) = {}
            ELSE \E o \in Sentinels : into(q) = {o} /\ objects[o].path = ParentDir[objects[q].path]

HasContainer(o, rank, name) ==
    \E k \in DOMAIN objects[o].insts :
        LET x == objects[o].insts[k]
        IN  /\ symbols[x.symbol].rank = rank /\ symbols[x.symbol].name = name
            /\ x.start = 0 /\ x.end = objects[o].len

(* Every file object of an index that has been numbered carries the        *)
(* instance of its directory and, if it is in a module, of its module.     *)
FilesCarryContainers ==
    \A o \in FileIds \cap DOMAIN tree :
        /\ HasContainer(o, RankDirectory, ParentDir[objects[o].path])
        /\ objects[o].module # NoModule =>
              HasContainer(o, RankModule, modules[objects[o].module].name)

(* In a numbered object, every declaration is below the FILE instance,     *)
(* FILE is in the directory, and the directory in the module.              *)
RankAt(o, k) == symbols[objects[o].insts[k].symbol].rank
Above(o, k) == {Climb(tree[o], k, n) : n \in 1..Len(tree[o])} \ {NoParent}
ContainerChain ==
    \A o \in FileIds \cap DOMAIN tree : \A k \in DOMAIN tree[o] :
        LET above == {RankAt(o, x) : x \in Above(o, k)}
        IN  IF RankAt(o, k) = RankOther THEN RankFile \in above
            ELSE above = {RankAt(o, x) : x \in
                             {x \in DOMAIN tree[o] : RankAt(o, x) < RankAt(o, k)}}
=============================================================================
