------------------------------ MODULE Pipeline ------------------------------
(***************************************************************************)
(* The command from its arguments to the file it writes: expand the paths, *)
(* find the project root, group the packages by the module they are in,    *)
(* parse one module root after the other, add what git tracks, write the   *)
(* index.  Loops are taken one iteration at a time; what happens inside    *)
(* the parse of a module root is in ParsingStage, DeferredRefs and         *)
(* ProtoIndex, and appears here as the files it adds, or as an error.      *)
(*                                                                         *)
(* An absolute path is the sequence of its names; the root is <<>>.        *)
(***************************************************************************)
EXTENDS Integers, SequencesExt

CONSTANTS
    Dirs,       \* the directories of the file system
    Files,      \* its Go files
    Cwd,
    RepoRoot,   \* root of the git worktree, all of whose files are tracked
    NameRest,   \* NameRest[<<m, n>>]: name n without its prefix m, where it has one
    Arguments,  \* records kind, path: a "path" or a "glob" for all in path
    MaxArguments,
    ModSets,    \* which directories may hold a go.mod
    Imported,   \* files of packages that the given ones may import
    RootFlags,  \* values of the flag root, or NoPath
    NoPath

(* Paths are cleaned, so no name of one is "..". *)
ASSUME FileSystem ==
    /\ IsFiniteSet(Dirs) /\ NoPath \notin Dirs
    /\ \A p \in Dirs \cup Files : p \in Seq(STRING) /\ \A k \in DOMAIN p : p[k] # ".."
    /\ Cwd \in Dirs /\ RepoRoot \in Dirs
    /\ Dirs \cap Files = {}
    /\ \A p \in Dirs \cup Files : p # <<>> => Front(p) \in Dirs
    /\ \A mods \in ModSets : mods \subseteq Dirs
    /\ Imported \subseteq Files

VARIABLES
    inputs, rootFlag, includeGit, gomods,   \* the command and its surroundings
    phase, i,                               \* where the run is
    resolved,                               \* the package paths
    root,
    order, byRoot,                          \* module roots, and the paths of each
    objects,                                \* module path of each file in the index
    disk,                                   \* "old", "new" or "damaged"
    error

given == <<inputs, rootFlag, includeGit, gomods>>
vars == <<given, phase, i, resolved, root, order, byRoot, objects, disk, error>>

Init ==
    /\ inputs \in SeqOf(Arguments, MaxArguments)
    /\ rootFlag \in RootFlags
    /\ includeGit \in BOOLEAN
    /\ gomods \in ModSets
    /\ phase = "start" /\ i = 1
    /\ resolved = <<>> /\ root = NoPath
    /\ order = <<>> /\ byRoot = <<>>
    /\ objects = <<>>
    /\ disk = "old" /\ error = "none"

Fail(why) ==
    /\ phase' = "failed"
    /\ error' = why
    /\ UNCHANGED <<given, i, resolved, root, order, byRoot, objects, disk>>

-----------------------------------------------------------------------------
(* Paths *)

Dir(p) == IF p = <<>> THEN p ELSE Front(p)
Abs(p) == SelectSeq(p, LAMBDA name : name # ".")
Children(p) == {q \in Dirs \cup Files : q # <<>> /\ Front(q) = p}

Rel(base, p) ==
    LET n == Len(LongestCommonPrefix({base, p}))
    IN  [k \in 1 .. Len(base) - n |-> ".."] \o SubSeq(p, n + 1, Len(p))

(* Mutant: the arguments of Rel are swapped. *)
IsWithinDirSwapped(candidate, dir) ==
    LET rel == Rel(candidate, dir) IN ~(rel # <<>> /\ Head(rel) = "..")

IsWithinDir(candidate, dir) ==
    LET rel == Rel(dir, candidate) IN ~(rel # <<>> /\ Head(rel) = "..")

(* Mutant: the search for go.mod starts at the parent. *)
FindGoModAbove(p) ==
    LET up[n \in 0 .. Len(p)] ==
            IF SubSeq(p, 1, n) \in gomods THEN SubSeq(p, 1, n)
            ELSE IF n = 0 THEN NoPath ELSE up[n - 1]
    IN  up[Len(Dir(p))]

(* The directory of the go.mod found by going up from p. *)
FindGoModPath(p) ==
    LET up[n \in 0 .. Len(p)] ==
            IF SubSeq(p, 1, n) \in gomods THEN SubSeq(p, 1, n)
            ELSE IF n = 0 THEN NoPath ELSE up[n - 1]
    IN  up[Len(p)]

(* AddFile cuts the base off as a prefix of the string, not of the path:   *)
(* what remains may lack its slash, or begin within a name.                *)
ModulePath(base, f) ==
    IF IsPrefix(base, f)
    THEN [slash |-> base # <<>>, names |-> SubSeq(f, Len(base) + 1, Len(f))]
    ELSE IF IsPrefix(Front(base), f) /\ <<Last(base), f[Len(base)]>> \in DOMAIN NameRest
         THEN [slash |-> FALSE,
               names |-> <<NameRest[Last(base), f[Len(base)]]>> \o SubSeq(f, Len(base) + 1, Len(f))]
         ELSE [slash |-> TRUE, names |-> f]

BaseDir == root

AddedByParser(files) ==
    [f \in DOMAIN objects \cup files |->
        IF f \in DOMAIN objects THEN objects[f] ELSE ModulePath(BaseDir, f)]

-----------------------------------------------------------------------------
(* ResolvePackagePaths *)

Start ==
    /\ phase = "start"
    /\ inputs' = IF inputs = <<>> THEN <<[kind |-> "path", path |-> Cwd]>> ELSE inputs
    /\ phase' = "expand"
    /\ UNCHANGED <<rootFlag, includeGit, gomods, i, resolved, root, order, byRoot, objects, disk, error>>

(* Mutant: a path that is given twice is kept twice. *)
AddPackageDirAgain(paths, p) == Append(paths, p)

AddPackageDir(paths, p) == IF Contains(paths, p) THEN paths ELSE Append(paths, p)

AddPackageDirs(paths, more) ==
    LET added[k \in 0 .. Len(more)] == IF k = 0 THEN paths ELSE AddPackageDir(added[k - 1], more[k])
    IN  added[Len(more)]

(* Mutant: the loop only moves on when it found something new. *)
ExpandedWhenNew(paths) ==
    /\ resolved' = paths
    /\ i' = IF paths = resolved THEN i ELSE i + 1
    /\ UNCHANGED <<given, phase, root, order, byRoot, objects, disk, error>>

Expanded(paths) ==
    /\ resolved' = paths
    /\ i' = i + 1
    /\ UNCHANGED <<given, phase, root, order, byRoot, objects, disk, error>>

ExpandPath ==
    /\ phase = "expand" /\ i <= Len(inputs) /\ inputs[i].kind = "path"
    /\ LET p == Abs(inputs[i].path)
       IN  IF p \in Dirs THEN Expanded(AddPackageDir(resolved, p)) ELSE Fail("path")

(* Matches are sorted; plain files among them are passed over. *)
ExpandGlob ==
    /\ phase = "expand" /\ i <= Len(inputs) /\ inputs[i].kind = "glob"
    /\ LET matches == Children(Abs(inputs[i].path)) \cap Dirs
       IN  IF matches = {} THEN Fail("glob")
           ELSE \E sorted \in SetToSeqs(matches) : Expanded(AddPackageDirs(resolved, sorted))

EndExpand ==
    /\ phase = "expand" /\ i > Len(inputs)
    /\ phase' = "root"
    /\ UNCHANGED <<given, i, resolved, root, order, byRoot, objects, disk, error>>

-----------------------------------------------------------------------------
(* ResolveRootPath *)

UseRootFlag ==
    /\ phase = "root" /\ rootFlag # NoPath
    /\ IF rootFlag \in Dirs
       THEN /\ root' = rootFlag
            /\ phase' = "group" /\ i' = 1
            /\ UNCHANGED <<given, resolved, order, byRoot, objects, disk, error>>
       ELSE Fail("root")

StartAncestor ==
    /\ phase = "root" /\ rootFlag = NoPath
    /\ root' = resolved[1]
    /\ phase' = "ancestor" /\ i' = 2
    /\ UNCHANGED <<given, resolved, order, byRoot, objects, disk, error>>

GoUp ==
    /\ phase = "ancestor" /\ i <= Len(resolved)
    /\ ~IsWithinDir(resolved[i], root)
    /\ IF Dir(root) = root THEN Fail("ancestor")
       ELSE /\ root' = Dir(root)
            /\ UNCHANGED <<given, phase, i, resolved, order, byRoot, objects, disk, error>>

NextCandidate ==
    /\ phase = "ancestor" /\ i <= Len(resolved)
    /\ IsWithinDir(resolved[i], root)
    /\ i' = i + 1
    /\ UNCHANGED <<given, phase, resolved, root, order, byRoot, objects, disk, error>>

EndAncestor ==
    /\ phase = "ancestor" /\ i > Len(resolved)
    /\ phase' = "group" /\ i' = 1
    /\ UNCHANGED <<given, resolved, root, order, byRoot, objects, disk, error>>

-----------------------------------------------------------------------------
(* ParseModules *)

Group ==
    /\ phase = "group" /\ i <= Len(resolved)
    /\ LET p == resolved[i]
           r == FindGoModPath(p)
       IN  IF r = NoPath THEN Fail("gomod")
           ELSE /\ order' = IF r \in DOMAIN byRoot THEN order ELSE Append(order, r)
                /\ byRoot' = [q \in DOMAIN byRoot \cup {r} |->
                                 (IF q \in DOMAIN byRoot THEN byRoot[q] ELSE <<>>)
                                 \o (IF q = r THEN <<p>> ELSE <<>>)]
                /\ i' = i + 1
                /\ UNCHANGED <<given, phase, resolved, root, objects, disk, error>>

EndGroup ==
    /\ phase = "group" /\ i > Len(resolved)
    /\ phase' = "modules" /\ i' = 1
    /\ UNCHANGED <<given, resolved, root, order, byRoot, objects, disk, error>>

FilesOf(paths) == {f \in Files : Contains(paths, Front(f))}

(* Load and AddPackages of the packages of one module root. *)
ParseModuleRoot ==
    /\ phase = "modules" /\ i <= Len(order)
    /\ \E more \in SUBSET Imported :
           objects' = AddedByParser(FilesOf(byRoot[order[i]]) \cup more)
    /\ i' = i + 1
    /\ UNCHANGED <<given, phase, resolved, root, order, byRoot, disk, error>>

(* go.mod unreadable, packages that do not load, a stage with an error.    *)
ModuleRootFails == phase = "modules" /\ i <= Len(order) /\ Fail("module")

(* Mutant: the run goes on before the last module root. *)
MoreModuleRootsShort == i < Len(order)

MoreModuleRoots == i <= Len(order)

EndModules ==
    /\ phase = "modules" /\ ~MoreModuleRoots
    /\ phase' = IF includeGit THEN "git" ELSE "finish"
    /\ UNCHANGED <<given, i, resolved, root, order, byRoot, objects, disk, error>>

(* Files the parsers added are known; the others are relative to the root  *)
(* of the worktree.                                                        *)
AddGitTrackedFiles ==
    /\ phase = "git"
    /\ objects' = [f \in DOMAIN objects \cup {g \in Files : IsPrefix(RepoRoot, g)} |->
                      IF f \in DOMAIN objects THEN objects[f] ELSE ModulePath(RepoRoot, f)]
    /\ phase' = "finish"
    /\ UNCHANGED <<given, i, resolved, root, order, byRoot, disk, error>>

GitFails == phase = "git" /\ Fail("git")

(* ResolveReferences, Wait and Marshal. *)
Finish ==
    /\ phase = "finish"
    /\ phase' = "write"
    /\ UNCHANGED <<given, i, resolved, root, order, byRoot, objects, disk, error>>

FinishFails == phase = "finish" /\ Fail("index")

WriteFile ==
    /\ phase = "write"
    /\ disk' = "new" /\ phase' = "written"
    /\ UNCHANGED <<given, i, resolved, root, order, byRoot, objects, error>>

(* The old file is truncated once it could be opened. *)
WriteFileFails ==
    /\ phase = "write"
    /\ disk' \in {"old", "damaged"}
    /\ phase' = "failed" /\ error' = "write"
    /\ UNCHANGED <<given, i, resolved, root, order, byRoot, objects>>

Over == phase \in {"written", "failed"} /\ UNCHANGED vars

Next ==
    \/ Start \/ ExpandPath \/ ExpandGlob \/ EndExpand
    \/ UseRootFlag \/ StartAncestor \/ GoUp \/ NextCandidate \/ EndAncestor
    \/ Group \/ EndGroup \/ ParseModuleRoot \/ ModuleRootFails \/ EndModules
    \/ AddGitTrackedFiles \/ GitFails \/ Finish \/ FinishFails
    \/ WriteFile \/ WriteFileFails
    \/ Over

Spec == Init /\ [][Next]_vars

(* One goroutine runs all of this. *)
FairSpec == Spec /\ WF_vars(Next)

-----------------------------------------------------------------------------
(* Properties *)

Named(argument) ==
    LET p == Abs(argument.path)
    IN  IF argument.kind = "path" THEN {p} ELSE {d \in Dirs : d # <<>> /\ Front(d) = p}

NamedFirst(p) == CHOOSE k \in DOMAIN inputs :
                    p \in Named(inputs[k]) /\ \A l \in 1 .. k - 1 : p \notin Named(inputs[l])

(* The package paths are the directories the arguments name, each once, in *)
(* the order of the arguments (ResolvePackagePaths).                       *)
ResolvedExactly ==
    phase \notin {"start", "expand", "failed"} =>
        /\ ToSet(resolved) = UNION {Named(inputs[k]) : k \in DOMAIN inputs}
        /\ IsInjective(resolved)
        /\ \A a, b \in DOMAIN resolved : a < b => NamedFirst(resolved[a]) <= NamedFirst(resolved[b])

(* Without the flag the root is the deepest directory that all package     *)
(* paths are in (commonAncestor), and there always is one.                 *)
RootIsDeepest ==
    /\ error # "ancestor"
    /\ rootFlag = NoPath /\ phase \notin {"start", "expand", "root", "ancestor", "failed"} =>
          /\ \A k \in DOMAIN resolved : IsPrefix(root, resolved[k])
          /\ \A d \in Dirs : (\A k \in DOMAIN resolved : IsPrefix(d, resolved[k])) => Len(d) <= Len(root)

(* t has its elements in the order of s. *)
InOrderOf(t, s) ==
    \A a, b \in DOMAIN t : a < b => \E k, l \in DOMAIN s : k < l /\ s[k] = t[a] /\ s[l] = t[b]

Nearest(p, r) == r \in gomods /\ IsPrefix(r, p) /\ \A q \in gomods : IsPrefix(q, p) => Len(q) <= Len(r)

(* Every package path is parsed with the innermost module it is in, once,  *)
(* and only with it (groupPackagePathsByModuleRoot).                       *)
GroupedByModule ==
    phase \in {"modules", "git", "finish", "write", "written"} =>
        /\ IsInjective(order)
        /\ \A k \in DOMAIN resolved : \E r \in ToSet(order) : Nearest(resolved[k], r)
        /\ \A r \in ToSet(order) :
              /\ ToSet(byRoot[r]) = {p \in ToSet(resolved) : Nearest(p, r)}
              /\ InOrderOf(byRoot[r], resolved)

(* The file is replaced by nothing less than the index of all package      *)
(* paths, and only an error of the write itself can damage it.             *)
OnlyWholeIndex ==
    /\ disk = "new" =>
          /\ \A k \in DOMAIN inputs : \A f \in Files :
                Front(f) \in Named(inputs[k]) => f \in DOMAIN objects
          /\ includeGit => \A f \in Files : IsPrefix(RepoRoot, f) => f \in DOMAIN objects
    /\ disk = "damaged" => error = "write"

(* "no two files should have the same ModulePath" (indexing_test.go).      *)
ModulePathsUnique ==
    \A f, g \in DOMAIN objects : f # g => objects[f] # objects[g]

(* The loops that climb the tree and those over paths and roots end.       *)
Terminates == <>(phase \in {"written", "failed"})
=============================================================================
