---------------------------- MODULE DeferredRefs ----------------------------
(***************************************************************************)
(* References whose target may not be indexed yet.  While the files of the *)
(* first stage are parsed concurrently, a use of a named type asks whether *)
(* the file of the type is in the index, and is recorded or deferred; the  *)
(* reference of a receiver's type to its method is always deferred.  When  *)
(* the stage is over, the deferred ones whose file is in the index are     *)
(* recorded, the others dropped.  The look-up and what follows it are two  *)
(* steps: another worker can add the file in between.                      *)
(***************************************************************************)
EXTENDS Integers, Sequences, TLC

CONSTANTS
    Files,        \* source files
    StageFiles,   \* those of the packages this parser loads
    Refs,         \* uses of types, and receivers
    ReceiverRefs, \* the receivers among them
    RefsOf,       \* the references the parse of each file meets, in order
    Target,       \* the file each reference looks up
    Workers,
    NoFile

ASSUME RefAssumption ==
    /\ StageFiles \subseteq Files
    /\ ReceiverRefs \subseteq Refs
    /\ RefsOf \in [Files -> Seq(Refs)]
    /\ Target \in [Refs -> Files]
    /\ NoFile \notin Files

(* A reference is the use at one position of one file. *)
ASSUME PositionAssumption ==
    \A f, g \in Files : \A i \in DOMAIN RefsOf[f], j \in DOMAIN RefsOf[g] :
        RefsOf[f][i] = RefsOf[g][j] => f = g /\ i = j

VARIABLES
    indexed,      \* files in the index
    parsed,       \* files taken by a worker
    file,         \* file each worker parses, or NoFile
    pos,          \* the reference each worker is at
    found,        \* "ask", or what the look-up of that reference said
    typeRefs,     \* Parser.typeRefs: how often each reference is in it
    receiverRefs, \* Parser.receiverRefs, likewise
    log,          \* how often AddReference recorded each reference
    broken,       \* the parse of an item failed
    phase         \* "stage", "receivers", "types", "resolved", "failed"

vars == <<indexed, parsed, file, pos, found, typeRefs, receiverRefs, log, broken, phase>>

NoRefs == [r \in Refs |-> 0]
Plus(bag, r) == [bag EXCEPT ![r] = @ + 1]

(* Parsers of other module roots may have filled the index before. *)
Init ==
    /\ indexed \in SUBSET Files
    /\ parsed = {}
    /\ file = [w \in Workers |-> NoFile]
    /\ pos = [w \in Workers |-> 1]
    /\ found = [w \in Workers |-> "ask"]
    /\ typeRefs = NoRefs /\ receiverRefs = NoRefs /\ log = NoRefs
    /\ broken = FALSE
    /\ phase = "stage"

Ref(w) == RefsOf[file[w]][pos[w]]
AtRef(w) == phase = "stage" /\ file[w] # NoFile /\ pos[w] \in DOMAIN RefsOf[file[w]]
Advance(w) ==
    /\ pos' = [pos EXCEPT ![w] = @ + 1]
    /\ found' = [found EXCEPT ![w] = "ask"]

(* A package sets up the parser of a file, which adds it to the index. *)
NewFileParser(f) ==
    /\ phase = "stage"
    /\ f \in StageFiles \ indexed
    /\ indexed' = indexed \cup {f}
    /\ UNCHANGED <<parsed, file, pos, found, typeRefs, receiverRefs, log, broken, phase>>

(* The file cannot be read or added: the parse of its package fails.       *)
FailPackage(f) ==
    /\ phase = "stage"
    /\ f \in StageFiles \ parsed
    /\ broken' = TRUE
    /\ UNCHANGED <<indexed, parsed, file, pos, found, typeRefs, receiverRefs, log, phase>>

StartFile(w, f) ==
    /\ phase = "stage"
    /\ file[w] = NoFile
    /\ f \in (StageFiles \cap indexed) \ parsed
    /\ parsed' = parsed \cup {f}
    /\ file' = [file EXCEPT ![w] = f]
    /\ pos' = [pos EXCEPT ![w] = 1]
    /\ UNCHANGED <<indexed, found, typeRefs, receiverRefs, log, broken, phase>>

AddReceiverRef(w) ==
    /\ AtRef(w)
    /\ Ref(w) \in ReceiverRefs
    /\ receiverRefs' = Plus(receiverRefs, Ref(w))
    /\ Advance(w)
    /\ UNCHANGED <<indexed, parsed, file, typeRefs, log, broken, phase>>

FindTarget(w) ==
    /\ AtRef(w)
    /\ Ref(w) \notin ReceiverRefs
    /\ found[w] = "ask"
    /\ found' = [found EXCEPT ![w] = IF Target[Ref(w)] \in indexed THEN "yes" ELSE "no"]
    /\ UNCHANGED <<indexed, parsed, file, pos, typeRefs, receiverRefs, log, broken, phase>>

(* Mutant: a use whose file is not indexed is not kept for later. *)
DropTypeRef(w) ==
    /\ AtRef(w)
    /\ found[w] = "no"
    /\ Advance(w)
    /\ UNCHANGED <<indexed, parsed, file, typeRefs, receiverRefs, log, broken, phase>>

AddDeferredTypeRef(w) ==
    /\ AtRef(w)
    /\ found[w] = "no"
    /\ typeRefs' = Plus(typeRefs, Ref(w))
    /\ Advance(w)
    /\ UNCHANGED <<indexed, parsed, file, receiverRefs, log, broken, phase>>

(* Mutant: a use that is recorded at once is kept for later as well. *)
RecordAndDefer(w) ==
    /\ AtRef(w)
    /\ found[w] = "yes"
    /\ log' = Plus(log, Ref(w))
    /\ typeRefs' = Plus(typeRefs, Ref(w))
    /\ Advance(w)
    /\ UNCHANGED <<indexed, parsed, file, receiverRefs, broken, phase>>

AddTypeRef(w) ==
    /\ AtRef(w)
    /\ found[w] = "yes"
    /\ log' = Plus(log, Ref(w))
    /\ Advance(w)
    /\ UNCHANGED <<indexed, parsed, file, typeRefs, receiverRefs, broken, phase>>

EndFile(w) ==
    /\ phase = "stage"
    /\ file[w] # NoFile
    /\ pos[w] > Len(RefsOf[file[w]])
    /\ file' = [file EXCEPT ![w] = NoFile]
    /\ UNCHANGED <<indexed, parsed, pos, found, typeRefs, receiverRefs, log, broken, phase>>

(* An error elsewhere in the file ends its parse between two references. *)
FailFile(w) ==
    /\ phase = "stage"
    /\ file[w] # NoFile
    /\ found[w] = "ask"
    /\ file' = [file EXCEPT ![w] = NoFile]
    /\ broken' = TRUE
    /\ UNCHANGED <<indexed, parsed, pos, found, typeRefs, receiverRefs, log, phase>>

(* Wait returns when nothing is in flight; without an error that means     *)
(* every file of the stage was parsed (AllReachableParsed of the stage).   *)
WaitStage ==
    /\ phase = "stage"
    /\ \A w \in Workers : file[w] = NoFile
    /\ broken \/ parsed = StageFiles
    /\ phase' = IF broken THEN "failed" ELSE "receivers"
    /\ UNCHANGED <<indexed, parsed, file, pos, found, typeRefs, receiverRefs, log, broken>>

(* Mutant: deferred references are recorded without asking again. *)
RecordableAnyway(r) == TRUE

Recordable(r) == Target[r] \in indexed

(* resolveDeferredRefs: take the lists, record what has a file. *)
Recorded(bag) == [r \in Refs |-> log[r] + IF Recordable(r) THEN bag[r] ELSE 0]

ResolveReceivers ==
    /\ phase = "receivers"
    /\ log' = Recorded(receiverRefs)
    /\ receiverRefs' = NoRefs
    /\ phase' = "types"
    /\ UNCHANGED <<indexed, parsed, file, pos, found, typeRefs, broken>>

ResolveTypes ==
    /\ phase = "types"
    /\ log' = Recorded(typeRefs)
    /\ typeRefs' = NoRefs
    /\ phase' = "resolved"
    /\ UNCHANGED <<indexed, parsed, file, pos, found, receiverRefs, broken>>

Over == phase \in {"resolved", "failed"} /\ UNCHANGED vars

Next ==
    \/ \E f \in Files : NewFileParser(f) \/ FailPackage(f)
    \/ \E w \in Workers :
          \/ \E f \in Files : StartFile(w, f)
          \/ AddReceiverRef(w) \/ FindTarget(w)
          \/ AddDeferredTypeRef(w) \/ AddTypeRef(w)
          \/ EndFile(w) \/ FailFile(w)
    \/ WaitStage \/ ResolveReceivers \/ ResolveTypes
    \/ Over

Spec == Init /\ [][Next]_vars

-----------------------------------------------------------------------------
(* Properties *)

TypeOK ==
    /\ indexed \subseteq Files
    /\ parsed \subseteq StageFiles
    /\ file \in [Workers -> Files \cup {NoFile}]
    /\ pos \in [Workers -> Nat \ {0}]
    /\ found \in [Workers -> {"ask", "yes", "no"}]
    /\ typeRefs \in [Refs -> Nat] /\ receiverRefs \in [Refs -> Nat] /\ log \in [Refs -> Nat]
    /\ \A r \in Refs : receiverRefs[r] # 0 => r \in ReceiverRefs
    /\ broken \in BOOLEAN
    /\ phase \in {"stage", "receivers", "types", "resolved", "failed"}

(* Nothing is recorded that points into a file the index does not have:    *)
(* ResolveReferences would refuse the whole index over it.                 *)
TargetsIndexed == \A r \in Refs : log[r] # 0 => Target[r] \in indexed

Met == {r \in Refs : \E f \in StageFiles : \E k \in DOMAIN RefsOf[f] : r = RefsOf[f][k]}

(* Whatever the interleaving, the stage leaves the same references: every  *)
(* one whose target is in the index by then, and no other.                 *)
SameAsInOrder ==
    phase = "resolved" =>
        {r \in Refs : log[r] # 0} = {r \in Met : Target[r] \in indexed}

(* The worker that defers and the worker that records never do both.       *)
RecordedOnce == \A r \in Refs : log[r] <= 1

-----------------------------------------------------------------------------
(* The inductive invariant: where every reference is at every moment. *)

Count(r) == log[r] + typeRefs[r] + receiverRefs[r]
Ahead(w, f, k) == file[w] = f /\ k >= pos[w]

(* No two workers parse one file. *)
WorkersApart ==
    /\ \A w \in Workers : file[w] # NoFile => file[w] \in parsed
    /\ \A v, w \in Workers : file[v] # NoFile /\ file[v] = file[w] => v = w

(* What a look-up said is still true while its reference is dealt with. *)
Lookups ==
    \A w \in Workers : found[w] # "ask" =>
        /\ file[w] # NoFile /\ pos[w] \in DOMAIN RefsOf[file[w]]
        /\ found[w] = "yes" => Target[Ref(w)] \in indexed

CountedOnce == \A r \in Refs : Count(r) <= 1

OnlyMet == \A r \in Refs : Count(r) # 0 => r \in Met

NotYet ==
    \A f \in Files : \A k \in DOMAIN RefsOf[f] :
        (f \notin parsed \/ \E w \in Workers : Ahead(w, f, k)) => Count(RefsOf[f][k]) = 0

Dealt ==
    phase = "stage" /\ ~broken =>
        \A f \in parsed : \A k \in DOMAIN RefsOf[f] :
            (\E w \in Workers : Ahead(w, f, k)) \/ Count(RefsOf[f][k]) = 1

Settled ==
    /\ phase \in {"receivers", "types", "resolved"} =>
          \A r \in Met : Count(r) = 1 \/ Target[r] \notin indexed
    /\ phase \in {"types", "resolved"} => receiverRefs = NoRefs
    /\ phase = "resolved" => typeRefs = NoRefs

IInv ==
    /\ TypeOK /\ WorkersApart /\ Lookups /\ TargetsIndexed
    /\ CountedOnce /\ OnlyMet /\ NotYet /\ Dealt /\ Settled
=============================================================================
