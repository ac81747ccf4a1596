---------------------------- MODULE PackageGraph ----------------------------
(***************************************************************************)
(* What one stage of the parser walks: the packages that packages.Load     *)
(* returned, the Go files of each and the packages each imports.  A stage  *)
(* names a package by its ID and a file by its path (the two GetId         *)
(* methods), so both kinds of item are keys of one map.                    *)
(***************************************************************************)
EXTENDS SequencesExt

CONSTANTS
    Packages,    \* package IDs
    Files,       \* file paths
    FilesOf,     \* [Packages -> Seq(Files)]: CompiledGoFiles, or GoFiles of a manual package
    ImportsOf,   \* [Packages -> SUBSET Packages]: the Imports map
    Roots,       \* builtin packages, then uniquePackages(pkgs), in order
    Manual,      \* packages with GoFiles and no CompiledGoFiles ("unsafe")
    Unparsable,  \* files go/parser rejects
    MayFail      \* items whose Parse may return an error

Items == Packages \cup Files

ASSUME GraphAssumption ==
    /\ Packages \cap Files = {}
    /\ FilesOf \in [Packages -> Seq(Files)]
    /\ ImportsOf \in [Packages -> SUBSET Packages]
    /\ Roots \in Seq(Packages)
    /\ Manual \subseteq Packages
    /\ Unparsable \subseteq Files
    /\ MayFail \subseteq Items

FileList(x)   == IF x \in Packages THEN FilesOf[x] ELSE <<>>
ImportList(x) == IF x \in Packages THEN ImportsOf[x] ELSE {}

(* A file of a manually parsed package that does not parse is skipped with *)
(* a warning.                                                              *)
Skipped(x, f) == x \in Manual /\ f \in Unparsable

(* The items that x's Parse submits when it returns no error. *)
Children(x) ==
    {f \in ToSet(FileList(x)) : ~Skipped(x, f)} \cup ImportList(x)
=============================================================================
