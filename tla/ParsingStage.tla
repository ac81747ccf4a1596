---------------------------- MODULE ParsingStage ----------------------------
(***************************************************************************)
(* One ParsingStage of the parser: a bounded channel of items, a           *)
(* dispatcher goroutine (loop) that drops duplicates and hands the rest to *)
(* a pool of workers, and a WaitGroup that counts the items submitted and  *)
(* not yet done.  A worker that parses a package submits the package's     *)
(* files and imports to the same stage, so the workers are producers too;  *)
(* a submission that finds the channel full is left to a goroutine of its  *)
(* own.  The main goroutine submits the roots, waits and closes            *)
(* (Parser.AddPackages and Parser.Close).                                  *)
(*                                                                         *)
(* Granularity: one step per operation on state that goroutines share (a   *)
(* channel, the WaitGroup, the error list).                                *)
(***************************************************************************)
EXTENDS PackageGraph, Integers

CONSTANTS
    Workers,     \* the worker goroutines, GOMAXPROCS of them
    ChanCap,     \* capacity of the stage's channel (1000 in the code)
    None         \* no item

ASSUME StageAssumption ==
    /\ IsFiniteSet(Workers)
    /\ ChanCap \in Nat
    /\ None \notin Items

VARIABLES
    channel,         \* ParsingStage.channel
    closed,          \* channel has been closed
    overflow,        \* items of the goroutines blocked in a send to channel
    wg,              \* the WaitGroup's counter
    parsedPackaged,  \* IDs the dispatcher has let through
    held,            \* item the dispatcher has received and not dealt with
    dpc,             \* the dispatcher's control state
    workerCh,        \* the channel from the dispatcher to the workers
    pc,              \* control state of each worker
    item,            \* item each worker parses
    files,           \* files it has still to submit
    imports,         \* imports it has still to submit
    next,            \* submission it has counted and not yet sent
    errs,            \* ParsingStage.errs, by the item that failed
    parsed,          \* history: items whose Parse has returned
    mpc,             \* control state of the main goroutine
    todo,            \* roots it has still to submit
    reported         \* {} before Wait returns, then {the errors it returned}

chanVars  == <<channel, closed, overflow>>
dispVars  == <<parsedPackaged, held, dpc>>
workVars  == <<pc, item, files, imports, next>>
errVars   == <<errs, parsed>>
mainVars  == <<mpc, todo, reported>>
vars == <<chanVars, wg, dispVars, workerCh, workVars, errVars, mainVars>>

NumWorkers == Cardinality(Workers)

TypeOK ==
    /\ channel \in Seq(Items)
    /\ closed \in BOOLEAN
    /\ overflow \in Seq(Items)
    /\ wg \in Nat
    /\ parsedPackaged \in SUBSET Items
    /\ held \in Items \cup {None}
    /\ dpc \in {"loop", "drain", "done"}
    /\ workerCh \in Seq(Items)
    /\ pc \in [Workers -> {"idle", "parse", "send", "error", "done", "exited"}]
    /\ item \in [Workers -> Items \cup {None}]
    /\ files \in [Workers -> Seq(Files)]
    /\ imports \in [Workers -> SUBSET Packages]
    /\ next \in [Workers -> Items \cup {None}]
    /\ errs \in SUBSET Items
    /\ parsed \in SUBSET Items
    /\ mpc \in {"load", "submit", "send", "wait", "close", "closing", "closed"}
    /\ todo \in Seq(Packages)
    /\ reported \in SUBSET SUBSET Items

Init ==
    /\ channel = <<>>
    /\ closed = FALSE
    /\ overflow = <<>>
    /\ wg = 0
    /\ parsedPackaged = {}
    /\ held = None
    /\ dpc = "loop"
    /\ workerCh = <<>>
    /\ pc = [w \in Workers |-> "idle"]
    /\ item = [w \in Workers |-> None]
    /\ files = [w \in Workers |-> <<>>]
    /\ imports = [w \in Workers |-> {}]
    /\ next = [w \in Workers |-> None]
    /\ errs = {}
    /\ parsed = {}
    /\ mpc = "load"
    /\ todo = Roots
    /\ reported = {}

-----------------------------------------------------------------------------
(* ParsingStage.Parse: wg.Add(1), then a send that does not block: a full  *)
(* channel leaves the item to a new goroutine.                             *)

AddOne == wg' = wg + 1

(* Mutant: a send that blocks when the channel is full. *)
EnqueueBlocking(x) ==
    /\ Len(channel) < ChanCap
    /\ channel' = Append(channel, x)
    /\ UNCHANGED <<closed, overflow>>

Enqueue(x) ==
    \/ /\ Len(channel) < ChanCap
       /\ channel' = Append(channel, x)
       /\ UNCHANGED <<closed, overflow>>
    \/ /\ Len(channel) >= ChanCap
       /\ overflow' = Append(overflow, x)
       /\ UNCHANGED <<channel, closed>>

(* The goroutine of an overflowing item gets its send through. *)
OverflowSend(i) ==
    /\ Len(channel) < ChanCap
    /\ channel' = Append(channel, overflow[i])
    /\ overflow' = RemoveAt(overflow, i)
    /\ UNCHANGED <<closed, wg, dispVars, workerCh, workVars, errVars, mainVars>>

-----------------------------------------------------------------------------
(* loop, the dispatcher goroutine.  parsedPackaged is its own, so marking  *)
(* an item and handing it over are one step.                               *)

Receive ==
    /\ dpc = "loop"
    /\ held = None
    /\ channel # <<>>
    /\ held' = Head(channel)
    /\ channel' = Tail(channel)
    /\ UNCHANGED <<closed, overflow, wg, parsedPackaged, dpc, workerCh,
                   workVars, errVars, mainVars>>

(* Mutant: a duplicate is dropped without wg.Done(). *)
DropDuplicateNoDone ==
    /\ held # None
    /\ held \in parsedPackaged
    /\ held' = None
    /\ UNCHANGED <<chanVars, wg, parsedPackaged, dpc, workerCh, workVars, errVars,
                   mainVars>>

(* Mutant: the continue is missing, so a duplicate is done and dispatched. *)
DropDuplicateNoContinue ==
    /\ held # None
    /\ held \in parsedPackaged
    /\ Len(workerCh) < NumWorkers
    /\ wg' = wg - 1
    /\ workerCh' = Append(workerCh, held)
    /\ held' = None
    /\ UNCHANGED <<chanVars, parsedPackaged, dpc, workVars, errVars, mainVars>>

DropDuplicate ==
    /\ held # None
    /\ held \in parsedPackaged
    /\ wg' = wg - 1
    /\ held' = None
    /\ UNCHANGED <<chanVars, parsedPackaged, dpc, workerCh, workVars, errVars,
                   mainVars>>

(* Mutant: an item is dispatched without being marked. *)
DispatchUnmarked ==
    /\ held # None
    /\ held \notin parsedPackaged
    /\ Len(workerCh) < NumWorkers
    /\ workerCh' = Append(workerCh, held)
    /\ held' = None
    /\ UNCHANGED <<chanVars, wg, parsedPackaged, dpc, workVars, errVars, mainVars>>

Dispatch ==
    /\ held # None
    /\ held \notin parsedPackaged
    /\ Len(workerCh) < NumWorkers
    /\ parsedPackaged' = parsedPackaged \cup {held}
    /\ workerCh' = Append(workerCh, held)
    /\ held' = None
    /\ UNCHANGED <<chanVars, wg, dpc, workVars, errVars, mainVars>>

(* The channel is closed and drained: close(workerCh). *)
CloseWorkerCh ==
    /\ dpc = "loop"
    /\ held = None
    /\ closed
    /\ channel = <<>>
    /\ dpc' = "drain"
    /\ UNCHANGED <<chanVars, wg, parsedPackaged, held, workerCh, workVars,
                   errVars, mainVars>>

(* workerWg.Wait() returns: close(done). *)
LoopExit ==
    /\ dpc = "drain"
    /\ \A w \in Workers : pc[w] = "exited"
    /\ dpc' = "done"
    /\ UNCHANGED <<chanVars, wg, parsedPackaged, held, workerCh, workVars,
                   errVars, mainVars>>

-----------------------------------------------------------------------------
(* A worker goroutine. *)

Take(w) ==
    /\ pc[w] = "idle"
    /\ workerCh # <<>>
    /\ workerCh' = Tail(workerCh)
    /\ LET x == Head(workerCh)
       IN  /\ item' = [item EXCEPT ![w] = x]
           /\ files' = [files EXCEPT ![w] = FileList(x)]
           /\ imports' = [imports EXCEPT ![w] = ImportList(x)]
    /\ pc' = [pc EXCEPT ![w] = "parse"]
    /\ UNCHANGED <<chanVars, wg, dispVars, next, errVars, mainVars>>

(* go/parser rejects the next file of a manually parsed package. *)
SkipFile(w) ==
    /\ pc[w] = "parse"
    /\ files[w] # <<>>
    /\ Skipped(item[w], Head(files[w]))
    /\ files' = [files EXCEPT ![w] = Tail(@)]
    /\ UNCHANGED <<chanVars, wg, dispVars, workerCh, pc, item, imports, next,
                   errVars, mainVars>>

SubmitFile(w) ==
    /\ pc[w] = "parse"
    /\ files[w] # <<>>
    /\ ~Skipped(item[w], Head(files[w]))
    /\ AddOne
    /\ next' = [next EXCEPT ![w] = Head(files[w])]
    /\ files' = [files EXCEPT ![w] = Tail(@)]
    /\ pc' = [pc EXCEPT ![w] = "send"]
    /\ UNCHANGED <<chanVars, dispVars, workerCh, item, imports, errVars,
                   mainVars>>

(* Imports is a Go map: the order is the runtime's. *)
SubmitImport(w) ==
    /\ pc[w] = "parse"
    /\ files[w] = <<>>
    /\ \E p \in imports[w] :
          /\ next' = [next EXCEPT ![w] = p]
          /\ imports' = [imports EXCEPT ![w] = @ \ {p}]
    /\ AddOne
    /\ pc' = [pc EXCEPT ![w] = "send"]
    /\ UNCHANGED <<chanVars, dispVars, workerCh, item, files, errVars, mainVars>>

WorkerSend(w) ==
    /\ pc[w] = "send"
    /\ Enqueue(next[w])
    /\ next' = [next EXCEPT ![w] = None]
    /\ pc' = [pc EXCEPT ![w] = "parse"]
    /\ UNCHANGED <<wg, dispVars, workerCh, item, files, imports, errVars,
                   mainVars>>

(* Mutant: Parse returns after the files and forgets the imports. *)
ParseOkNoImports(w) ==
    /\ pc[w] = "parse"
    /\ files[w] = <<>>
    /\ parsed' = parsed \cup {item[w]}
    /\ imports' = [imports EXCEPT ![w] = {}]
    /\ pc' = [pc EXCEPT ![w] = "done"]
    /\ UNCHANGED <<chanVars, wg, dispVars, workerCh, item, files, next, errs,
                   mainVars>>

ParseOk(w) ==
    /\ pc[w] = "parse"
    /\ files[w] = <<>>
    /\ imports[w] = {}
    /\ parsed' = parsed \cup {item[w]}
    /\ pc' = [pc EXCEPT ![w] = "done"]
    /\ UNCHANGED <<chanVars, wg, dispVars, workerCh, item, files, imports, next,
                   errs, mainVars>>

(* A package's Parse returns early when it cannot set up the parser of its *)
(* next file; a file's Parse fails on its own account.  What a package has *)
(* not submitted by then is never submitted on its behalf.                 *)
ParseError(w) ==
    /\ pc[w] = "parse"
    /\ item[w] \in MayFail
    /\ files[w] # <<>> \/ item[w] \in Files
    /\ files' = [files EXCEPT ![w] = <<>>]
    /\ imports' = [imports EXCEPT ![w] = {}]
    /\ pc' = [pc EXCEPT ![w] = "error"]
    /\ UNCHANGED <<chanVars, wg, dispVars, workerCh, item, next, errVars,
                   mainVars>>

(* Mutant: the error path calls wg.Done() as well. *)
RecordErrorDone(w) ==
    /\ pc[w] = "error"
    /\ errs' = errs \cup {item[w]}
    /\ parsed' = parsed \cup {item[w]}
    /\ wg' = wg - 1
    /\ pc' = [pc EXCEPT ![w] = "done"]
    /\ UNCHANGED <<chanVars, dispVars, workerCh, item, files, imports, next,
                   mainVars>>

RecordError(w) ==
    /\ pc[w] = "error"
    /\ errs' = errs \cup {item[w]}
    /\ parsed' = parsed \cup {item[w]}
    /\ pc' = [pc EXCEPT ![w] = "done"]
    /\ UNCHANGED <<chanVars, wg, dispVars, workerCh, item, files, imports, next,
                   mainVars>>

DoneOne(w) ==
    /\ pc[w] = "done"
    /\ wg' = wg - 1
    /\ item' = [item EXCEPT ![w] = None]
    /\ pc' = [pc EXCEPT ![w] = "idle"]
    /\ UNCHANGED <<chanVars, dispVars, workerCh, files, imports, next, errVars,
                   mainVars>>

(* workerCh is closed and drained. *)
WorkerExit(w) ==
    /\ pc[w] = "idle"
    /\ workerCh = <<>>
    /\ dpc = "drain"
    /\ pc' = [pc EXCEPT ![w] = "exited"]
    /\ UNCHANGED <<chanVars, wg, dispVars, workerCh, item, files, imports, next,
                   errVars, mainVars>>

Worker(w) ==
    \/ Take(w) \/ SkipFile(w) \/ SubmitFile(w) \/ SubmitImport(w)
    \/ WorkerSend(w) \/ ParseOk(w) \/ ParseError(w) \/ RecordError(w)
    \/ DoneOne(w) \/ WorkerExit(w)

Dispatcher ==
    Receive \/ DropDuplicate \/ Dispatch \/ CloseWorkerCh \/ LoopExit

-----------------------------------------------------------------------------
(* The main goroutine: AddPackages on this stage, then Close. *)

(* packages.Load succeeded, and so did the stages before this one. *)
BeginStage ==
    /\ mpc = "load"
    /\ mpc' = "submit"
    /\ UNCHANGED <<chanVars, wg, dispVars, workerCh, workVars, errVars, todo,
                   reported>>

(* Load failed, or an earlier stage did: the stage is closed unused. *)
AbortBefore ==
    /\ mpc = "load"
    /\ mpc' = "close"
    /\ UNCHANGED <<chanVars, wg, dispVars, workerCh, workVars, errVars, todo,
                   reported>>

SubmitRoot ==
    /\ mpc = "submit"
    /\ todo # <<>>
    /\ AddOne
    /\ mpc' = "send"
    /\ UNCHANGED <<chanVars, dispVars, workerCh, workVars, errVars, todo,
                   reported>>

MainSend ==
    /\ mpc = "send"
    /\ Enqueue(Head(todo))
    /\ todo' = Tail(todo)
    /\ mpc' = "submit"
    /\ UNCHANGED <<wg, dispVars, workerCh, workVars, errVars, reported>>

(* Mutant: Wait returns when the channel is drained. *)
WaitDoneDrained ==
    /\ mpc = "submit"
    /\ todo = <<>>
    /\ channel = <<>>
    /\ mpc' = "wait"
    /\ UNCHANGED <<chanVars, wg, dispVars, workerCh, workVars, errVars, todo,
                   reported>>

(* Wait: wg.Wait() returns. *)
WaitDone ==
    /\ mpc = "submit"
    /\ todo = <<>>
    /\ wg = 0
    /\ mpc' = "wait"
    /\ UNCHANGED <<chanVars, wg, dispVars, workerCh, workVars, errVars, todo,
                   reported>>

(* Mutant: the list is not reset. *)
JoinErrorsKeep ==
    /\ mpc = "wait"
    /\ reported' = {errs}
    /\ mpc' = "close"
    /\ UNCHANGED <<chanVars, wg, dispVars, workerCh, workVars, errVars, todo>>

(* Wait: the errors are joined and the list is reset. *)
JoinErrors ==
    /\ mpc = "wait"
    /\ reported' = {errs}
    /\ errs' = {}
    /\ mpc' = "close"
    /\ UNCHANGED <<chanVars, wg, dispVars, workerCh, workVars, parsed, todo>>

Close ==
    /\ mpc = "close"
    /\ closed' = TRUE
    /\ mpc' = "closing"
    /\ UNCHANGED <<channel, overflow, wg, dispVars, workerCh, workVars, errVars,
                   todo, reported>>

(* Close: <-done. *)
CloseDone ==
    /\ mpc = "closing"
    /\ dpc = "done"
    /\ mpc' = "closed"
    /\ UNCHANGED <<chanVars, wg, dispVars, workerCh, workVars, errVars, todo,
                   reported>>

Main ==
    \/ BeginStage \/ AbortBefore \/ SubmitRoot \/ MainSend
    \/ WaitDone \/ JoinErrors \/ Close \/ CloseDone

(* The program has closed the stage and goes on. *)
Closed ==
    /\ mpc = "closed"
    /\ UNCHANGED vars

Next ==
    \/ Main
    \/ Dispatcher
    \/ \E w \in Workers : Worker(w)
    \/ \E i \in DOMAIN overflow : OverflowSend(i)
    \/ Closed

Spec == Init /\ [][Next]_vars

(* Go schedules every runnable goroutine eventually. *)
Fairness ==
    /\ WF_vars(Main)
    /\ WF_vars(Dispatcher)
    /\ \A w \in Workers : WF_vars(Worker(w))
    /\ WF_vars(\E i \in DOMAIN overflow : OverflowSend(i))

FairSpec == Spec /\ Fairness

-----------------------------------------------------------------------------
(* Properties *)

Submitted ==
    ToSet(channel) \cup ToSet(overflow) \cup parsedPackaged \cup ({held} \ {None})

(* The WaitGroup's counter is the number of items counted and not yet done: *)
(* those in a channel, with a blocked sender, with the dispatcher or with a *)
(* worker, and the submissions counted and not yet sent.                    *)
At(control, states) == {w \in Workers : control[w] \in states}
One(P) == IF P THEN 1 ELSE 0
BusyStates == {"parse", "send", "error", "done"}
Accounting ==
    wg = Len(channel) + Len(overflow) + Len(workerCh)
         + Cardinality(At(pc, BusyStates)) + Cardinality(At(pc, {"send"}))
         + One(held # None) + One(mpc = "send")

(* When wg.Wait returns, and ever after, nothing is in flight: no item in  *)
(* a channel, with a blocked sender, with the dispatcher or with a worker. *)
WaitSound ==
    mpc \in {"wait", "close", "closing", "closed"} =>
        /\ channel = <<>> /\ overflow = <<>> /\ workerCh = <<>>
        /\ held = None
        /\ \A w \in Workers : pc[w] \in {"idle", "exited"}

(* Nobody is about to send on a channel that has been closed (a panic):    *)
(* neither a worker, nor a blocked goroutine, nor the main goroutine.      *)
NoSendOnClosed ==
    closed =>
        /\ overflow = <<>>
        /\ mpc # "send"
        /\ \A w \in Workers : pc[w] # "send"

(* No item is parsed twice, nor by two workers at once: whatever is queued *)
(* for the workers or being parsed is there once and has not been parsed.  *)
ParsedOnce ==
    /\ \A i, j \in DOMAIN workerCh : workerCh[i] = workerCh[j] => i = j
    /\ \A v, w \in Workers : item[v] = item[w] /\ item[v] # None => v = w
    /\ \A w \in Workers : item[w] \notin ToSet(workerCh)
    /\ ToSet(workerCh) \cap parsed = {}
    /\ \A w \in Workers : pc[w] \in {"parse", "send", "error"} => item[w] \notin parsed

(* When Wait returns without an error, every item reachable from the roots *)
(* has been parsed, however many submissions overflowed or were dropped as *)
(* duplicates.                                                             *)
AllReachableParsed ==
    reported = {{}} =>
        /\ ToSet(Roots) \subseteq parsed
        /\ \A x \in parsed : Children(x) \subseteq parsed

(* Parse of a file or a package never blocks its worker, so a stage that   *)
(* has started always comes to the end of Wait and of Close: the comment   *)
(* on ParsingStage.Parse promises no deadlock on recursive submission.     *)
Terminates == <>(mpc = "closed")

-----------------------------------------------------------------------------
(* The inductive invariant: what the proofs need besides the properties. *)

(* What each worker holds in each control state. *)
Holding ==
    \A w \in Workers :
        /\ pc[w] \in BusyStates <=> item[w] # None
        /\ pc[w] = "send" <=> next[w] # None
        /\ pc[w] \notin {"parse", "send"} => files[w] = <<>> /\ imports[w] = {}
        /\ pc[w] = "exited" => dpc # "loop"

(* How far the main goroutine, the channel and the dispatcher are. *)
Phases ==
    /\ mpc = "load" => wg = 0
    /\ mpc \in {"wait", "close", "closing", "closed"} => wg = 0
    /\ mpc = "send" => todo # <<>>
    /\ closed <=> mpc \in {"closing", "closed"}
    /\ dpc # "loop" => closed

IInv == TypeOK /\ Holding /\ Accounting /\ Phases

(* What has been let through is with the workers or parsed. *)
HandedOver ==
    /\ parsedPackaged = ToSet(workerCh) \cup parsed
                         \cup {item[w] : w \in At(pc, BusyStates)}
    /\ \A w \in Workers : pc[w] = "done" => item[w] \in parsed
    /\ errs \subseteq parsed

(* Where the children of an item are, from the start of its Parse on. *)
Discovery ==
    /\ ToSet(Roots) \subseteq Submitted \cup ToSet(todo)
    /\ ToSet(todo) \subseteq ToSet(Roots)
    /\ \A x \in parsed \ (errs \cup UNION reported) : Children(x) \subseteq Submitted
    /\ \A w \in Workers : pc[w] \in {"parse", "send"} =>
          /\ Children(item[w]) \subseteq
                 Submitted \cup ToSet(files[w]) \cup imports[w] \cup {next[w]}
          /\ ToSet(files[w]) \subseteq ToSet(FileList(item[w]))
          /\ imports[w] \subseteq ImportList(item[w])
    /\ \A w \in Workers : pc[w] = "send" => next[w] \in Children(item[w])
    /\ \A w \in Workers : pc[w] = "error" => item[w] \in MayFail
    /\ mpc = "wait" \/ reported # {} => todo = <<>>
    /\ mpc \in {"load", "submit", "send", "wait"} => reported = {}
    /\ reported # {} => errs = {}

RInv == IInv /\ ParsedOnce /\ HandedOver /\ Discovery

(* The stage implements the traversal: submitted items are the known ones. *)
Abstract == INSTANCE Traversal
    WITH known <- Submitted, finished <- parsed, failed <- errs
ImplementsTraversal == Abstract!Spec
=============================================================================
