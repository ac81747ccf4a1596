----------------------------- MODULE IndexingRun ----------------------------
(***************************************************************************)
(* One run of the indexer, seen from the index: the parsers of all module  *)
(* roots fill it in any order, the files git tracks are added outside any  *)
(* module, the references are resolved once, and the index is marshalled.  *)
(* An error on the way ends the run and nothing is written.                *)
(***************************************************************************)
EXTENDS ProtoIndex

VARIABLES
    phase,   \* "parse", "git", "resolve", "marshal", "written", "failed"
    asked    \* history: every reference and import the parsers recorded

runVars == <<vars, phase, asked>>

RunInit == Init /\ phase = "parse" /\ asked = {}

(* A call of a worker of a stage; parsers add files in modules only. *)
Parse ==
    /\ phase = "parse"
    /\ \/ /\ \/ \E name \in ModuleNames : AddModule(name)
             \/ \E f \in Files, m \in DOMAIN modules : AddFile(m, f)
             \/ \E d \in Declarations : \E o \in FileId(d.path) :
                   (\E p \in ParentIds(d) : AddSymbol(o, d, p)) \/ AddSymbolAgain(o, d)
          /\ UNCHANGED asked
       \/ \E r \in References : \E o \in FileId(r.from) :
             AddReference(o, r) /\ asked' = asked \cup {r}
       \/ \E i \in Imports : \E o \in FileId(i.from) :
             AddModuleImport(o, i) /\ asked' = asked \cup {i}
    /\ UNCHANGED phase

(* A stage reports the contents that changed between two reads. *)
ParseFails ==
    /\ phase = "parse"
    /\ \E f \in Files : HashMismatch(f)
    /\ phase' = "failed"
    /\ UNCHANGED <<vars, asked>>

(* Every root is parsed; git files are included or not. *)
ParseEnds ==
    /\ phase = "parse"
    /\ phase' \in {"git", "resolve"}
    /\ UNCHANGED <<vars, asked>>

AddGitTrackedFile ==
    /\ phase = "git"
    /\ \E f \in Files : AddFile(NoModule, f) \/ AddFileAgain(f)
    /\ UNCHANGED <<phase, asked>>

GitFails ==
    /\ phase = "git"
    /\ \E f \in Files : HashMismatch(f)
    /\ phase' = "failed"
    /\ UNCHANGED <<vars, asked>>

GitEnds ==
    /\ phase = "git"
    /\ phase' = "resolve"
    /\ UNCHANGED <<vars, asked>>

Resolve ==
    /\ phase = "resolve"
    /\ \/ ResolveReferences /\ phase' = "marshal"
       \/ ResolveReferencesFails /\ phase' = "failed"
    /\ UNCHANGED asked

Marshal ==
    /\ phase = "marshal"
    /\ Publish
    /\ phase' = "written"
    /\ UNCHANGED asked

(* What was resolved can be asked for, before and after the index is made, *)
(* and the index itself again, as Upload does after Marshal.               *)
Upload ==
    /\ \/ phase = "written" /\ Publish
       \/ phase \in {"marshal", "written"} /\ GetAllReferencesNames
    /\ UNCHANGED <<phase, asked>>

RunNext ==
    \/ Parse \/ ParseFails \/ ParseEnds
    \/ AddGitTrackedFile \/ GitFails \/ GitEnds
    \/ Resolve \/ Marshal \/ Upload

RunSpec == RunInit /\ [][RunNext]_runVars

-----------------------------------------------------------------------------
(* Properties *)

Written == phase = "written"

(* In the index that is written every file has its directory, and its      *)
(* module if a parser added it, and every directory can be reached from    *)
(* the root.                                                               *)
ContainersComplete ==
    Written => DOMAIN tree = DOMAIN objects /\ FilesCarryContainers /\ DirectoryTree

(* In the index that is written module, directory, file and declarations   *)
(* are nested in that order.                                               *)
WrittenChain == Written => ContainerChain

(* However often parsers recorded a use or an import, it is there once.    *)
NoDuplicateRefs ==
    Written => \A o \in DOMAIN objects : IsInjective(objects[o].refs)

RefAt(r) ==
    UNION {{objects[o].refs[k].to : k \in {k \in DOMAIN objects[o].refs :
                /\ objects[o].refs[k].start = r.start
                /\ objects[o].refs[k].end = r.end}}
           : o \in FileId(r.from)}

(* Every use that was recorded, except one of a C name that has no         *)
(* declaration, is in the index, and points at a symbol of that name that  *)
(* is declared in the file the parser named; every import of a module that *)
(* is indexed points at its symbol, whichever of the two came first.       *)
DeclaredIn(s, path) ==
    \E i \in DOMAIN declared :
        declared[i].symbol = s /\ objects[declared[i].object].path = path
NothingDropped ==
    Written =>
        /\ \A r \in asked \cap References :
              \/ r.name \in CNames
              \/ \E s \in RefAt(r) : symbols[s].name = r.name /\ DeclaredIn(s, r.to)
        /\ \A i \in asked \cap Imports : \A m \in DOMAIN modules :
              modules[m].name = i.module => modules[m].symbol \in RefAt(i)

(* Asking for the index again changes nothing in it.                       *)
PublishIdempotent == [][Written => UNCHANGED vars]_runVars
=============================================================================
