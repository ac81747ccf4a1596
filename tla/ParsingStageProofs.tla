------------------------- MODULE ParsingStageProofs -------------------------
(***************************************************************************)
(* Theorems about ParsingStage, for any package graph, any number of       *)
(* workers and any channel capacity: it counts what is in flight, waits    *)
(* for all of it, sends nothing on a closed channel, parses no item twice, *)
(* parses everything reachable unless an error is reported, and implements *)
(* Traversal step by step.                                                 *)
(***************************************************************************)
EXTENDS ParsingStage, Lemmas

-----------------------------------------------------------------------------
(* Lemmas about the graph and about counting workers. *)

(* The files and imports of an item have their types. *)
LEMMA ListTypes ==
    ASSUME NEW x \in Items
    PROVE  /\ FileList(x) \in Seq(Files)
           /\ ImportList(x) \in SUBSET Packages
  BY GraphAssumption DEF FileList, ImportList, Items

(* Two sets of workers that differ in one worker at most.                  *)
LEMMA CountMove ==
    ASSUME NEW S \in SUBSET Workers, NEW T \in SUBSET Workers, NEW w,
           T \ {w} = S \ {w}
    PROVE  /\ Cardinality(S) \in Nat /\ Cardinality(T) \in Nat
           /\ w \in T /\ w \notin S => Cardinality(T) = Cardinality(S) + 1
           /\ w \notin T /\ w \in S => Cardinality(T) = Cardinality(S) - 1
           /\ (w \in T <=> w \in S) => Cardinality(T) = Cardinality(S)
<1>1. IsFiniteSet(S) /\ IsFiniteSet(T)
  BY StageAssumption, FS_Subset
<1>2. Cardinality(S) \in Nat /\ Cardinality(T) \in Nat
  BY <1>1, FS_CardinalityType
<1>3. ASSUME w \in T, w \notin S
      PROVE  Cardinality(T) = Cardinality(S) + 1
  <2>1. T = S \cup {w}
    BY <1>3
  <2> QED
    BY <2>1, <1>3, <1>1, FS_AddElement
<1>4. ASSUME w \notin T, w \in S
      PROVE  Cardinality(T) = Cardinality(S) - 1
  <2>1. S = T \cup {w}
    BY <1>4
  <2>2. Cardinality(S) = Cardinality(T) + 1
    BY <2>1, <1>4, <1>1, FS_AddElement
  <2> QED
    BY <2>2, <1>2
<1>5. ASSUME w \in T <=> w \in S
      PROVE  Cardinality(T) = Cardinality(S)
  <2>1. T = S
    BY <1>5
  <2> QED
    BY <2>1
<1> QED
  BY <1>2, <1>3, <1>4, <1>5

(* If no worker is busy, the count is zero; and conversely. *)
LEMMA CountZero ==
    ASSUME NEW f, NEW A
    PROVE  /\ Cardinality(At(f, A)) \in Nat
           /\ Cardinality(At(f, A)) = 0 <=> \A w \in Workers : f[w] \notin A
<1>1. IsFiniteSet(At(f, A))
  BY StageAssumption, FS_Subset DEF At
<1>2. Cardinality(At(f, A)) = 0 <=> At(f, A) = {}
  BY <1>1, FS_EmptySet
<1> QED
  BY <1>1, <1>2, FS_CardinalityType DEF At

-----------------------------------------------------------------------------
(* The invariant holds initially. *)
LEMMA InitInv == Init => IInv
<1> SUFFICES ASSUME Init PROVE IInv
  OBVIOUS
<1>1. TypeOK
  <2>1. <<>> \in Seq(Items) /\ <<>> \in Seq(Files)
    OBVIOUS
  <2>2. Roots \in Seq(Packages)
    BY GraphAssumption
  <2>3. reported \in SUBSET SUBSET Items
    BY DEF Init
  <2> QED
    BY <2>1, <2>2, <2>3 DEF Init, TypeOK
<1>2. Holding
  BY DEF Init, Holding, BusyStates
<1>3. Accounting
  <2>1. /\ Cardinality(At(pc, BusyStates)) = 0
        /\ Cardinality(At(pc, {"send"})) = 0
    BY CountZero DEF Init, BusyStates
  <2> QED
    BY <2>1, EmptyLemma DEF Init, Accounting, One
<1>4. Phases
  BY DEF Init, Phases
<1> QED
  BY <1>1, <1>2, <1>3, <1>4 DEF IInv
-----------------------------------------------------------------------------
(* The counter is positive while anything is in flight. *)
LEMMA CounterPositive ==
    ASSUME IInv
    PROVE  /\ held # None => wg > 0
           /\ \A w \in Workers : pc[w] \in BusyStates => wg > 0
           /\ channel # <<>> \/ overflow # <<>> \/ workerCh # <<>> => wg > 0
           /\ mpc = "send" => wg > 0
<1>1. /\ Len(channel) \in Nat /\ Len(overflow) \in Nat /\ Len(workerCh) \in Nat
      /\ channel # <<>> => Len(channel) > 0
      /\ overflow # <<>> => Len(overflow) > 0
      /\ workerCh # <<>> => Len(workerCh) > 0
  BY HeadTailLemma DEF IInv, TypeOK
<1>2. /\ Cardinality(At(pc, BusyStates)) \in Nat
      /\ Cardinality(At(pc, {"send"})) \in Nat
      /\ \A w \in Workers : pc[w] \in BusyStates
            => Cardinality(At(pc, BusyStates)) > 0
  BY CountZero
<1> QED
  BY <1>1, <1>2 DEF IInv, Accounting, One

(* Parse puts an item in the channel or with a goroutine of its own.       *)
LEMMA EnqueueLemma ==
    ASSUME TypeOK, NEW x \in Items, Enqueue(x)
    PROVE  /\ channel' \in Seq(Items) /\ overflow' \in Seq(Items)
           /\ closed' = closed
           /\ Len(channel') + Len(overflow') = Len(channel) + Len(overflow) + 1
           /\ ToSet(channel') \cup ToSet(overflow')
                 = ToSet(channel) \cup ToSet(overflow) \cup {x}
<1>1. CASE Len(channel) < ChanCap /\ channel' = Append(channel, x)
           /\ UNCHANGED <<closed, overflow>>
  BY <1>1, AppendLemma DEF TypeOK
<1>2. CASE overflow' = Append(overflow, x) /\ UNCHANGED <<channel, closed>>
  BY <1>2, AppendLemma DEF TypeOK
<1> QED
  BY <1>1, <1>2 DEF Enqueue

-----------------------------------------------------------------------------
(* Every step preserves the types.                                         *)
LEMMA TypeStep == IInv /\ [Next]_vars => TypeOK'
<1> SUFFICES ASSUME IInv, [Next]_vars PROVE TypeOK'
  OBVIOUS
<1> USE DEF TypeOK, chanVars, dispVars, workVars, errVars, mainVars
<1>a. TypeOK
  BY DEF IInv
<1>b. \A w \in Workers : pc[w] \in BusyStates => item[w] \in Items
  BY <1>a DEF IInv, Holding
<1>c. Packages \subseteq Items /\ Files \subseteq Items
  BY DEF Items
<1>1. CASE BeginStage
  BY <1>1, <1>a, <1>c DEF BeginStage
<1>2. CASE AbortBefore
  BY <1>2, <1>a, <1>c DEF AbortBefore
<1>3. CASE SubmitRoot
  BY <1>3, <1>a, <1>c DEF SubmitRoot, AddOne
<1>4. CASE MainSend
  BY <1>4, <1>a, <1>c, HeadTailLemma, EnqueueLemma DEF MainSend, IInv, Phases
<1>5. CASE WaitDone
  BY <1>5, <1>a, <1>c DEF WaitDone
<1>6. CASE JoinErrors
  BY <1>6, <1>a, <1>c DEF JoinErrors
<1>7. CASE Close
  BY <1>7, <1>a, <1>c DEF Close
<1>8. CASE CloseDone
  BY <1>8, <1>a, <1>c DEF CloseDone
<1>9. CASE Receive
  BY <1>9, <1>a, <1>c, HeadTailLemma DEF Receive
<1>10. CASE DropDuplicate
  BY <1>10, <1>a, <1>c, CounterPositive DEF DropDuplicate
<1>11. CASE Dispatch
  BY <1>11, <1>a, <1>c, AppendLemma DEF Dispatch
<1>12. CASE CloseWorkerCh
  BY <1>12, <1>a, <1>c DEF CloseWorkerCh
<1>13. CASE LoopExit
  BY <1>13, <1>a, <1>c DEF LoopExit
<1>14. ASSUME NEW w \in Workers, Take(w) PROVE TypeOK'
  BY <1>14, <1>a, <1>b, <1>c, HeadTailLemma, ListTypes DEF Take
<1>15. ASSUME NEW w \in Workers, SkipFile(w) PROVE TypeOK'
  BY <1>15, <1>a, <1>b, <1>c, HeadTailLemma DEF SkipFile
<1>16. ASSUME NEW w \in Workers, SubmitFile(w) PROVE TypeOK'
  BY <1>16, <1>a, <1>b, <1>c, HeadTailLemma DEF SubmitFile, AddOne
<1>17. ASSUME NEW w \in Workers, SubmitImport(w) PROVE TypeOK'
  BY <1>17, <1>a, <1>b, <1>c DEF SubmitImport, AddOne
<1>18. ASSUME NEW w \in Workers, WorkerSend(w) PROVE TypeOK'
  BY <1>18, <1>a, <1>b, <1>c, EnqueueLemma DEF WorkerSend, IInv, Holding
<1>19. ASSUME NEW w \in Workers, ParseOk(w) PROVE TypeOK'
  BY <1>19, <1>a, <1>b, <1>c DEF ParseOk, BusyStates
<1>20. ASSUME NEW w \in Workers, ParseError(w) PROVE TypeOK'
  BY <1>20, <1>a, <1>b, <1>c DEF ParseError
<1>21. ASSUME NEW w \in Workers, RecordError(w) PROVE TypeOK'
  BY <1>21, <1>a, <1>b, <1>c DEF RecordError, BusyStates
<1>22. ASSUME NEW w \in Workers, DoneOne(w) PROVE TypeOK'
  BY <1>22, <1>a, <1>b, <1>c, CounterPositive DEF DoneOne, BusyStates
<1>23. ASSUME NEW w \in Workers, WorkerExit(w) PROVE TypeOK'
  BY <1>23, <1>a, <1>b, <1>c DEF WorkerExit
<1>24. ASSUME NEW i \in DOMAIN overflow, OverflowSend(i) PROVE TypeOK'
  BY <1>24, <1>a, RemoveAtLemma, AppendLemma DEF OverflowSend
<1>25. CASE UNCHANGED vars
  BY <1>25, <1>a DEF vars
<1> QED
  BY <1>1, <1>2, <1>3, <1>4, <1>5, <1>6, <1>7, <1>8, <1>9, <1>10, <1>11, <1>12, <1>13, <1>14, <1>15, <1>16, <1>17, <1>18, <1>19, <1>20, <1>21, <1>22, <1>23, <1>24, <1>25
  DEF Next, Main, Dispatcher, Worker, Closed

(* Every step keeps what the workers hold in line with their control state. *)
LEMMA HoldingStep == IInv /\ [Next]_vars => Holding'
<1> SUFFICES ASSUME IInv, [Next]_vars PROVE Holding'
  OBVIOUS
<1> USE DEF chanVars, dispVars, workVars, errVars, mainVars
<1>a. TypeOK /\ Holding
  BY DEF IInv
<1>1. CASE BeginStage
  BY <1>1, <1>a DEF Holding, BeginStage
<1>2. CASE AbortBefore
  BY <1>2, <1>a DEF Holding, AbortBefore
<1>3. CASE SubmitRoot
  BY <1>3, <1>a DEF Holding, SubmitRoot
<1>4. CASE MainSend
  BY <1>4, <1>a DEF Holding, MainSend
<1>5. CASE WaitDone
  BY <1>5, <1>a DEF Holding, WaitDone
<1>6. CASE JoinErrors
  BY <1>6, <1>a DEF Holding, JoinErrors
<1>7. CASE Close
  BY <1>7, <1>a DEF Holding, Close
<1>8. CASE CloseDone
  BY <1>8, <1>a DEF Holding, CloseDone
<1>9. CASE Receive
  BY <1>9, <1>a DEF Holding, Receive
<1>10. CASE DropDuplicate
  BY <1>10, <1>a DEF Holding, DropDuplicate
<1>11. CASE Dispatch
  BY <1>11, <1>a DEF Holding, Dispatch
<1>12. CASE CloseWorkerCh
  BY <1>12, <1>a DEF Holding, CloseWorkerCh
<1>13. CASE LoopExit
  BY <1>13, <1>a DEF Holding, LoopExit
<1>14. ASSUME NEW w \in Workers, Take(w) PROVE Holding'
  BY <1>14, <1>a, EnqueueLemma, HeadTailLemma, StageAssumption DEF Holding, Take, TypeOK, BusyStates, Items
<1>15. ASSUME NEW w \in Workers, SkipFile(w) PROVE Holding'
  BY <1>15, <1>a DEF Holding, SkipFile, TypeOK, BusyStates, Items
<1>16. ASSUME NEW w \in Workers, SubmitFile(w) PROVE Holding'
  BY <1>16, <1>a, StageAssumption, HeadTailLemma DEF Holding, SubmitFile, TypeOK, BusyStates, Items
<1>17. ASSUME NEW w \in Workers, SubmitImport(w) PROVE Holding'
  BY <1>17, <1>a, StageAssumption DEF Holding, SubmitImport, TypeOK, BusyStates, Items
<1>18. ASSUME NEW w \in Workers, WorkerSend(w) PROVE Holding'
  BY <1>18, <1>a DEF Holding, WorkerSend, TypeOK, BusyStates, Items
<1>19. ASSUME NEW w \in Workers, ParseOk(w) PROVE Holding'
  BY <1>19, <1>a DEF Holding, ParseOk, TypeOK, BusyStates, Items
<1>20. ASSUME NEW w \in Workers, ParseError(w) PROVE Holding'
  BY <1>20, <1>a DEF Holding, ParseError, TypeOK, BusyStates, Items
<1>21. ASSUME NEW w \in Workers, RecordError(w) PROVE Holding'
  BY <1>21, <1>a DEF Holding, RecordError, TypeOK, BusyStates, Items
<1>22. ASSUME NEW w \in Workers, DoneOne(w) PROVE Holding'
  BY <1>22, <1>a DEF Holding, DoneOne, TypeOK, BusyStates, Items
<1>23. ASSUME NEW w \in Workers, WorkerExit(w) PROVE Holding'
  BY <1>23, <1>a DEF Holding, WorkerExit, TypeOK, BusyStates, Items
<1>24. ASSUME NEW i \in DOMAIN overflow, OverflowSend(i) PROVE Holding'
  BY <1>24, <1>a DEF Holding, OverflowSend
<1>25. CASE UNCHANGED vars
  BY <1>25, <1>a DEF Holding, vars
<1> QED
  BY <1>1, <1>2, <1>3, <1>4, <1>5, <1>6, <1>7, <1>8, <1>9, <1>10, <1>11, <1>12, <1>13, <1>14, <1>15, <1>16, <1>17, <1>18, <1>19, <1>20, <1>21, <1>22, <1>23, <1>24, <1>25
  DEF Next, Main, Dispatcher, Worker, Closed

(* Every step keeps the phases of a stage in order. *)
LEMMA PhasesStep == IInv /\ [Next]_vars => Phases'
<1> SUFFICES ASSUME IInv, [Next]_vars PROVE Phases'
  OBVIOUS
<1> USE DEF chanVars, dispVars, workVars, errVars, mainVars
<1>a. TypeOK /\ Holding /\ Phases
  BY DEF IInv
<1>1. CASE BeginStage
  BY <1>1, <1>a DEF Phases, TypeOK, BeginStage
<1>2. CASE AbortBefore
  BY <1>2, <1>a DEF Phases, TypeOK, AbortBefore
<1>3. CASE SubmitRoot
  BY <1>3, <1>a, CounterPositive DEF Phases, TypeOK, SubmitRoot, AddOne
<1>4. CASE MainSend
  BY <1>4, <1>a DEF Phases, TypeOK, MainSend, Enqueue
<1>5. CASE WaitDone
  BY <1>5, <1>a DEF Phases, TypeOK, WaitDone
<1>6. CASE JoinErrors
  BY <1>6, <1>a DEF Phases, TypeOK, JoinErrors
<1>7. CASE Close
  BY <1>7, <1>a DEF Phases, TypeOK, Close
<1>8. CASE CloseDone
  BY <1>8, <1>a DEF Phases, TypeOK, CloseDone
<1>9. CASE Receive
  BY <1>9, <1>a, CounterPositive DEF Phases, TypeOK, Receive
<1>10. CASE DropDuplicate
  BY <1>10, <1>a, CounterPositive DEF Phases, TypeOK, DropDuplicate
<1>11. CASE Dispatch
  BY <1>11, <1>a DEF Phases, TypeOK, Dispatch
<1>12. CASE CloseWorkerCh
  BY <1>12, <1>a DEF Phases, TypeOK, CloseWorkerCh
<1>13. CASE LoopExit
  BY <1>13, <1>a DEF Phases, TypeOK, LoopExit
<1>14. ASSUME NEW w \in Workers, Take(w) PROVE Phases'
  BY <1>14, <1>a DEF Phases, TypeOK, Take, BusyStates
<1>15. ASSUME NEW w \in Workers, SkipFile(w) PROVE Phases'
  BY <1>15, <1>a DEF Phases, TypeOK, SkipFile, BusyStates
<1>16. ASSUME NEW w \in Workers, SubmitFile(w) PROVE Phases'
  BY <1>16, <1>a, CounterPositive DEF Phases, TypeOK, SubmitFile, AddOne, BusyStates
<1>17. ASSUME NEW w \in Workers, SubmitImport(w) PROVE Phases'
  BY <1>17, <1>a, CounterPositive DEF Phases, TypeOK, SubmitImport, AddOne, BusyStates
<1>18. ASSUME NEW w \in Workers, WorkerSend(w) PROVE Phases'
  BY <1>18, <1>a DEF Phases, TypeOK, WorkerSend, Enqueue, BusyStates
<1>19. ASSUME NEW w \in Workers, ParseOk(w) PROVE Phases'
  BY <1>19, <1>a DEF Phases, TypeOK, ParseOk, BusyStates
<1>20. ASSUME NEW w \in Workers, ParseError(w) PROVE Phases'
  BY <1>20, <1>a DEF Phases, TypeOK, ParseError, BusyStates
<1>21. ASSUME NEW w \in Workers, RecordError(w) PROVE Phases'
  BY <1>21, <1>a DEF Phases, TypeOK, RecordError, BusyStates
<1>22. ASSUME NEW w \in Workers, DoneOne(w) PROVE Phases'
  BY <1>22, <1>a, CounterPositive DEF Phases, TypeOK, DoneOne, BusyStates
<1>23. ASSUME NEW w \in Workers, WorkerExit(w) PROVE Phases'
  BY <1>23, <1>a DEF Phases, TypeOK, WorkerExit, BusyStates
<1>24. ASSUME NEW i \in DOMAIN overflow, OverflowSend(i) PROVE Phases'
  BY <1>24, <1>a DEF Phases, TypeOK, OverflowSend, Enqueue
<1>25. CASE UNCHANGED vars
  BY <1>25, <1>a DEF Phases, TypeOK, vars
<1> QED
  BY <1>1, <1>2, <1>3, <1>4, <1>5, <1>6, <1>7, <1>8, <1>9, <1>10, <1>11, <1>12, <1>13, <1>14, <1>15, <1>16, <1>17, <1>18, <1>19, <1>20, <1>21, <1>22, <1>23, <1>24, <1>25
  DEF Next, Main, Dispatcher, Worker, Closed

(* The number of workers that are busy, and of those in a send.            *)
busy    == Cardinality(At(pc, BusyStates))
sending == Cardinality(At(pc, {"send"}))

(* What one worker's move from a control state to another does to the      *)
(* number of busy workers and of those in a send.                          *)
LEMMA WorkerMove ==
    ASSUME TypeOK, NEW w \in Workers, pc' = [pc EXCEPT ![w] = pc'[w]]
    PROVE  /\ busy \in Nat /\ sending \in Nat
           /\ busy' \in Nat /\ sending' \in Nat
           /\ pc'[w] \in BusyStates /\ pc[w] \notin BusyStates => busy' = busy + 1
           /\ pc'[w] \notin BusyStates /\ pc[w] \in BusyStates => busy' = busy - 1
           /\ pc'[w] \in BusyStates /\ pc[w] \in BusyStates => busy' = busy
           /\ pc'[w] \notin BusyStates /\ pc[w] \notin BusyStates => busy' = busy
           /\ pc'[w] = "send" /\ pc[w] # "send" => sending' = sending + 1
           /\ pc'[w] # "send" /\ pc[w] = "send" => sending' = sending - 1
           /\ pc'[w] # "send" /\ pc[w] # "send" => sending' = sending
<1> DEFINE B  == At(pc, BusyStates)
           B2 == At(pc', BusyStates)
           S  == At(pc, {"send"})
           S2 == At(pc', {"send"})
<1>1. /\ busy = Cardinality(B) /\ busy' = Cardinality(B2)
      /\ sending = Cardinality(S) /\ sending' = Cardinality(S2)
  BY DEF busy, sending, At
<1>2. /\ B \in SUBSET Workers /\ B2 \in SUBSET Workers
      /\ B2 \ {w} = B \ {w}
      /\ w \in B <=> pc[w] \in BusyStates
      /\ w \in B2 <=> pc'[w] \in BusyStates
  BY DEF At, TypeOK
<1>3. /\ S \in SUBSET Workers /\ S2 \in SUBSET Workers
      /\ S2 \ {w} = S \ {w}
      /\ w \in S <=> pc[w] = "send"
      /\ w \in S2 <=> pc'[w] = "send"
  BY DEF At, TypeOK
<1> HIDE DEF B, B2, S, S2
<1>4. /\ busy \in Nat /\ busy' \in Nat
      /\ pc'[w] \in BusyStates /\ pc[w] \notin BusyStates => busy' = busy + 1
      /\ pc'[w] \notin BusyStates /\ pc[w] \in BusyStates => busy' = busy - 1
      /\ pc'[w] \in BusyStates /\ pc[w] \in BusyStates => busy' = busy
      /\ pc'[w] \notin BusyStates /\ pc[w] \notin BusyStates => busy' = busy
  BY <1>1, <1>2, CountMove
<1>5. /\ sending \in Nat /\ sending' \in Nat
      /\ pc'[w] = "send" /\ pc[w] # "send" => sending' = sending + 1
      /\ pc'[w] # "send" /\ pc[w] = "send" => sending' = sending - 1
      /\ pc'[w] # "send" /\ pc[w] # "send" => sending' = sending
  BY <1>1, <1>3, CountMove
<1> QED
  BY <1>4, <1>5

(* Every step keeps the counter equal to what is in flight: one that adds  *)
(* to the counter starts a send, one that moves an item keeps the sum, and *)
(* one that subtracts lets go of an item.                                  *)
LEMMA AccountingStep == IInv /\ [Next]_vars => Accounting'
<1> SUFFICES ASSUME IInv, [Next]_vars PROVE Accounting'
  OBVIOUS
<1> USE DEF chanVars, dispVars, workVars, errVars, mainVars
<1> DEFINE lens == Len(channel) + Len(overflow) + Len(workerCh)
<1>a. TypeOK /\ Holding /\ Phases
  BY DEF IInv
<1>b. /\ Len(channel) \in Nat /\ Len(overflow) \in Nat /\ Len(workerCh) \in Nat
      /\ busy \in Nat /\ sending \in Nat /\ wg \in Nat
  BY <1>a, CountZero DEF TypeOK, busy, sending
<1>c. wg = lens + busy + sending + One(held # None) + One(mpc = "send")
  BY DEF IInv, Accounting, busy, sending
<1>d. ASSUME wg' = lens' + busy' + sending' + One((held # None)') + One((mpc = "send")')
      PROVE  Accounting'
  BY <1>d DEF Accounting, busy, sending
<1>e. pc' = pc => busy' = busy /\ sending' = sending
  BY DEF busy, sending
<1>f. \A x \in Items : x # None
  BY StageAssumption
<1>1. CASE BeginStage
  BY <1>1, <1>b, <1>c, <1>d, <1>e DEF BeginStage, One
<1>2. CASE AbortBefore
  BY <1>2, <1>b, <1>c, <1>d, <1>e DEF AbortBefore, One
<1>3. CASE SubmitRoot
  BY <1>3, <1>b, <1>c, <1>d, <1>e DEF SubmitRoot, One, AddOne
<1>4. CASE MainSend
  <2>1. todo # <<>> /\ Head(todo) \in Items
    BY <1>4, <1>a, HeadTailLemma DEF MainSend, TypeOK, Phases, Items
  <2>2. Len(channel') + Len(overflow') = Len(channel) + Len(overflow) + 1
    BY <1>4, <2>1, <1>a, EnqueueLemma DEF MainSend
  <2> QED
    BY <2>1, <2>2, <1>4, <1>b, <1>c, <1>d, <1>e DEF MainSend, One
<1>5. CASE WaitDone
  BY <1>5, <1>b, <1>c, <1>d, <1>e DEF WaitDone, One
<1>6. CASE JoinErrors
  BY <1>6, <1>b, <1>c, <1>d, <1>e DEF JoinErrors, One
<1>7. CASE Close
  BY <1>7, <1>b, <1>c, <1>d, <1>e DEF Close, One
<1>8. CASE CloseDone
  BY <1>8, <1>b, <1>c, <1>d, <1>e DEF CloseDone, One
<1>9. CASE Receive
  <2>1. Head(channel) \in Items /\ Len(channel') = Len(channel) - 1
    BY <1>9, <1>a, HeadTailLemma DEF Receive, TypeOK
  <2> QED
    BY <2>1, <1>9, <1>b, <1>c, <1>d, <1>e, <1>f DEF Receive, One
<1>10. CASE DropDuplicate
  BY <1>10, <1>b, <1>c, <1>d, <1>e DEF DropDuplicate, One
<1>11. CASE Dispatch
  <2>1. Len(workerCh') = Len(workerCh) + 1
    BY <1>11, <1>a, AppendLemma DEF Dispatch, TypeOK
  <2> QED
    BY <2>1, <1>11, <1>b, <1>c, <1>d, <1>e DEF Dispatch, One
<1>12. CASE CloseWorkerCh
  BY <1>12, <1>b, <1>c, <1>d, <1>e DEF CloseWorkerCh, One
<1>13. CASE LoopExit
  BY <1>13, <1>b, <1>c, <1>d, <1>e DEF LoopExit, One
<1>14. ASSUME NEW w \in Workers, Take(w) PROVE Accounting'
  <2>1. busy' = busy + 1 /\ sending' = sending
    <3>1. pc[w] = "idle" /\ pc' = [pc EXCEPT ![w] = "parse"]
      BY <1>14 DEF Take
    <3>2. pc[w] = "idle" /\ pc'[w] = "parse" /\ pc' = [pc EXCEPT ![w] = pc'[w]]
      BY <3>1, <1>a DEF TypeOK
    <3> QED
      BY <3>2, <1>a, WorkerMove DEF BusyStates
  <2>2. Len(workerCh') = Len(workerCh) - 1
    BY <1>14, <1>a, HeadTailLemma DEF Take, TypeOK
  <2> QED
    BY <2>1, <2>2, <1>14, <1>b, <1>c, <1>d DEF Take, One
<1>15. ASSUME NEW w \in Workers, SkipFile(w) PROVE Accounting'
  BY <1>15, <1>c, <1>d, <1>e DEF SkipFile
<1>16. ASSUME NEW w \in Workers, SubmitFile(w) PROVE Accounting'
  <2>1. busy' = busy /\ sending' = sending + 1
    <3>1. pc[w] = "parse" /\ pc' = [pc EXCEPT ![w] = "send"]
      BY <1>16 DEF SubmitFile
    <3>2. pc[w] = "parse" /\ pc'[w] = "send" /\ pc' = [pc EXCEPT ![w] = pc'[w]]
      BY <3>1, <1>a DEF TypeOK
    <3> QED
      BY <3>2, <1>a, WorkerMove DEF BusyStates
  <2> QED
    BY <2>1, <1>16, <1>b, <1>c, <1>d DEF SubmitFile, AddOne, One
<1>17. ASSUME NEW w \in Workers, SubmitImport(w) PROVE Accounting'
  <2>1. busy' = busy /\ sending' = sending + 1
    <3>1. pc[w] = "parse" /\ pc' = [pc EXCEPT ![w] = "send"]
      BY <1>17 DEF SubmitImport
    <3>2. pc[w] = "parse" /\ pc'[w] = "send" /\ pc' = [pc EXCEPT ![w] = pc'[w]]
      BY <3>1, <1>a DEF TypeOK
    <3> QED
      BY <3>2, <1>a, WorkerMove DEF BusyStates
  <2> QED
    BY <2>1, <1>17, <1>b, <1>c, <1>d DEF SubmitImport, AddOne, One
<1>18. ASSUME NEW w \in Workers, WorkerSend(w) PROVE Accounting'
  <2>1. busy' = busy /\ sending' = sending - 1
    <3>1. pc[w] = "send" /\ pc' = [pc EXCEPT ![w] = "parse"]
      BY <1>18 DEF WorkerSend
    <3>2. pc[w] = "send" /\ pc'[w] = "parse" /\ pc' = [pc EXCEPT ![w] = pc'[w]]
      BY <3>1, <1>a DEF TypeOK
    <3> QED
      BY <3>2, <1>a, WorkerMove DEF BusyStates
  <2>2. Len(channel') + Len(overflow') = Len(channel) + Len(overflow) + 1
    <3>1. next[w] \in Items
      BY <1>18, <1>a DEF WorkerSend, Holding, TypeOK
    <3> QED
      BY <3>1, <1>18, <1>a, EnqueueLemma DEF WorkerSend
  <2> QED
    BY <2>1, <2>2, <1>18, <1>b, <1>c, <1>d DEF WorkerSend, One
<1>19. ASSUME NEW w \in Workers, ParseOk(w) PROVE Accounting'
  <2>1. busy' = busy /\ sending' = sending
    <3>1. pc[w] = "parse" /\ pc' = [pc EXCEPT ![w] = "done"]
      BY <1>19 DEF ParseOk
    <3>2. pc[w] = "parse" /\ pc'[w] = "done" /\ pc' = [pc EXCEPT ![w] = pc'[w]]
      BY <3>1, <1>a DEF TypeOK
    <3> QED
      BY <3>2, <1>a, WorkerMove DEF BusyStates
  <2> QED
    BY <2>1, <1>19, <1>b, <1>c, <1>d DEF ParseOk, One
<1>20. ASSUME NEW w \in Workers, ParseError(w) PROVE Accounting'
  <2>1. busy' = busy /\ sending' = sending
    <3>1. pc[w] = "parse" /\ pc' = [pc EXCEPT ![w] = "error"]
      BY <1>20 DEF ParseError
    <3>2. pc[w] = "parse" /\ pc'[w] = "error" /\ pc' = [pc EXCEPT ![w] = pc'[w]]
      BY <3>1, <1>a DEF TypeOK
    <3> QED
      BY <3>2, <1>a, WorkerMove DEF BusyStates
  <2> QED
    BY <2>1, <1>20, <1>b, <1>c, <1>d DEF ParseError, One
<1>21. ASSUME NEW w \in Workers, RecordError(w) PROVE Accounting'
  <2>1. busy' = busy /\ sending' = sending
    <3>1. pc[w] = "error" /\ pc' = [pc EXCEPT ![w] = "done"]
      BY <1>21 DEF RecordError
    <3>2. pc[w] = "error" /\ pc'[w] = "done" /\ pc' = [pc EXCEPT ![w] = pc'[w]]
      BY <3>1, <1>a DEF TypeOK
    <3> QED
      BY <3>2, <1>a, WorkerMove DEF BusyStates
  <2> QED
    BY <2>1, <1>21, <1>b, <1>c, <1>d DEF RecordError, One
<1>22. ASSUME NEW w \in Workers, DoneOne(w) PROVE Accounting'
  <2>1. busy' = busy - 1 /\ sending' = sending
    <3>1. pc[w] = "done" /\ pc' = [pc EXCEPT ![w] = "idle"]
      BY <1>22 DEF DoneOne
    <3>2. pc[w] = "done" /\ pc'[w] = "idle" /\ pc' = [pc EXCEPT ![w] = pc'[w]]
      BY <3>1, <1>a DEF TypeOK
    <3> QED
      BY <3>2, <1>a, WorkerMove DEF BusyStates
  <2> QED
    BY <2>1, <1>22, <1>b, <1>c, <1>d DEF DoneOne, One
<1>23. ASSUME NEW w \in Workers, WorkerExit(w) PROVE Accounting'
  <2>1. busy' = busy /\ sending' = sending
    <3>1. pc[w] = "idle" /\ pc' = [pc EXCEPT ![w] = "exited"]
      BY <1>23 DEF WorkerExit
    <3>2. pc[w] = "idle" /\ pc'[w] = "exited" /\ pc' = [pc EXCEPT ![w] = pc'[w]]
      BY <3>1, <1>a DEF TypeOK
    <3> QED
      BY <3>2, <1>a, WorkerMove DEF BusyStates
  <2> QED
    BY <2>1, <1>23, <1>b, <1>c, <1>d DEF WorkerExit, One
<1>24. ASSUME NEW i \in DOMAIN overflow, OverflowSend(i) PROVE Accounting'
  <2>1. Len(channel') = Len(channel) + 1 /\ Len(overflow') = Len(overflow) - 1
    BY <1>24, <1>a, RemoveAtLemma, AppendLemma DEF OverflowSend, TypeOK
  <2> QED
    BY <2>1, <1>24, <1>b, <1>c, <1>d, <1>e DEF OverflowSend, One
<1>25. CASE UNCHANGED vars
  BY <1>25, <1>c, <1>d, <1>e DEF vars
<1> QED
  BY <1>1, <1>2, <1>3, <1>4, <1>5, <1>6, <1>7, <1>8, <1>9, <1>10, <1>11, <1>12, <1>13, <1>14, <1>15, <1>16, <1>17, <1>18, <1>19, <1>20, <1>21, <1>22, <1>23, <1>24, <1>25
  DEF Next, Main, Dispatcher, Worker, Closed

-----------------------------------------------------------------------------
(* The invariant is inductive.                                             *)
LEMMA Inductive == Spec => []IInv
<1>1. IInv /\ [Next]_vars => IInv'
  BY TypeStep, HoldingStep, AccountingStep, PhasesStep DEF IInv
<1> QED
  BY InitInv, <1>1, PTL DEF Spec

(* The counter of every reachable state is zero only when nothing is in    *)
(* flight.                                                                 *)
LEMMA NothingInFlight ==
    ASSUME IInv, wg = 0
    PROVE  /\ channel = <<>> /\ overflow = <<>> /\ workerCh = <<>>
           /\ held = None /\ mpc # "send"
           /\ \A w \in Workers : pc[w] \in {"idle", "exited"}
<1>1. /\ channel = <<>> /\ overflow = <<>> /\ workerCh = <<>>
      /\ held = None /\ mpc # "send"
      /\ \A w \in Workers : pc[w] \notin BusyStates
  BY CounterPositive
<1> QED
  BY <1>1 DEF IInv, TypeOK, BusyStates

(* Every variable of a stage always has its type; in particular the        *)
(* WaitGroup's counter is never negative, which would be a panic.          *)
THEOREM StageTypes == Spec => []TypeOK
  BY Inductive, PTL DEF IInv

(* The counter always equals the number of items in flight.                *)
THEOREM StageAccounting == Spec => []Accounting
  BY Inductive, PTL DEF IInv

(* From the moment wg.Wait returns nothing is in flight, for any graph,    *)
(* any number of workers and any channel capacity.                         *)
THEOREM StageWaitSound == Spec => []WaitSound
<1>1. IInv => WaitSound
  BY NothingInFlight DEF IInv, Phases, WaitSound
<1> QED
  BY Inductive, <1>1, PTL

(* No goroutine ever sends on the stage's channel after Close.             *)
THEOREM StageNoSendOnClosed == Spec => []NoSendOnClosed
<1>1. IInv => NoSendOnClosed
  <2> SUFFICES ASSUME IInv, closed PROVE NoSendOnClosed
    BY DEF NoSendOnClosed
  <2>1. wg = 0
    BY DEF IInv, Phases
  <2> QED
    BY <2>1, NothingInFlight DEF NoSendOnClosed
<1> QED
  BY Inductive, <1>1, PTL

-----------------------------------------------------------------------------
(* What was submitted, and the refinement *)

(* What has been submitted only grows, by the item a send delivers.        *)
LEMMA SubmittedStep ==
    ASSUME IInv, [Next]_vars
    PROVE  \/ Submitted' = Submitted
           \/ /\ MainSend
              /\ Head(todo) \in Items
              /\ Submitted' = Submitted \cup {Head(todo)}
           \/ \E w \in Workers :
                 /\ WorkerSend(w)
                 /\ next[w] \in Items
                 /\ Submitted' = Submitted \cup {next[w]}
<1> USE DEF chanVars, dispVars, workVars, errVars, mainVars
<1>a. TypeOK /\ Holding /\ Phases
  BY DEF IInv
<1>b. UNCHANGED <<channel, overflow, parsedPackaged, held>> => Submitted' = Submitted
  BY DEF Submitted
<1>1. CASE MainSend
  <2>1. todo # <<>> /\ Head(todo) \in Items
    BY <1>1, <1>a, HeadTailLemma DEF MainSend, TypeOK, Phases, Items
  <2>2. ToSet(channel') \cup ToSet(overflow')
           = ToSet(channel) \cup ToSet(overflow) \cup {Head(todo)}
    BY <2>1, <1>1, <1>a, EnqueueLemma DEF MainSend
  <2> QED
    BY <2>1, <2>2, <1>1 DEF MainSend, Submitted
<1>2. ASSUME NEW w \in Workers, WorkerSend(w)
      PROVE  next[w] \in Items /\ Submitted' = Submitted \cup {next[w]}
  <2>1. next[w] \in Items
    BY <1>2, <1>a DEF WorkerSend, Holding, TypeOK
  <2>2. ToSet(channel') \cup ToSet(overflow')
           = ToSet(channel) \cup ToSet(overflow) \cup {next[w]}
    BY <2>1, <1>2, <1>a, EnqueueLemma DEF WorkerSend
  <2> QED
    BY <2>1, <2>2, <1>2 DEF WorkerSend, Submitted
<1>3. CASE Receive
  <2>1. ToSet(channel) = {held'} \cup ToSet(channel') /\ held' # None
    BY <1>3, <1>a, HeadTailLemma, StageAssumption DEF Receive, TypeOK
  <2> QED
    BY <2>1, <1>3 DEF Receive, Submitted
<1>4. CASE DropDuplicate
  BY <1>4 DEF DropDuplicate, Submitted
<1>5. CASE Dispatch
  BY <1>5 DEF Dispatch, Submitted
<1>6. ASSUME NEW i \in DOMAIN overflow, OverflowSend(i) PROVE Submitted' = Submitted
  <2>1. /\ overflow[i] \in Items
        /\ ToSet(overflow) = {overflow[i]} \cup ToSet(overflow')
        /\ ToSet(channel') = ToSet(channel) \cup {overflow[i]}
    BY <1>6, <1>a, RemoveAtLemma, AppendLemma DEF OverflowSend, TypeOK
  <2> QED
    BY <2>1, <1>6 DEF OverflowSend, Submitted
<1>7. CASE BeginStage
  BY <1>7, <1>b DEF BeginStage
<1>8. CASE AbortBefore
  BY <1>8, <1>b DEF AbortBefore
<1>9. CASE SubmitRoot
  BY <1>9, <1>b DEF SubmitRoot
<1>10. CASE WaitDone
  BY <1>10, <1>b DEF WaitDone
<1>11. CASE JoinErrors
  BY <1>11, <1>b DEF JoinErrors
<1>12. CASE Close
  BY <1>12, <1>b DEF Close
<1>13. CASE CloseDone
  BY <1>13, <1>b DEF CloseDone
<1>14. CASE CloseWorkerCh
  BY <1>14, <1>b DEF CloseWorkerCh
<1>15. CASE LoopExit
  BY <1>15, <1>b DEF LoopExit
<1>16. ASSUME NEW w \in Workers, Take(w) PROVE Submitted' = Submitted
  BY <1>16, <1>b DEF Take
<1>17. ASSUME NEW w \in Workers, SkipFile(w) PROVE Submitted' = Submitted
  BY <1>17, <1>b DEF SkipFile
<1>18. ASSUME NEW w \in Workers, SubmitFile(w) PROVE Submitted' = Submitted
  BY <1>18, <1>b DEF SubmitFile
<1>19. ASSUME NEW w \in Workers, SubmitImport(w) PROVE Submitted' = Submitted
  BY <1>19, <1>b DEF SubmitImport
<1>20. ASSUME NEW w \in Workers, ParseOk(w) PROVE Submitted' = Submitted
  BY <1>20, <1>b DEF ParseOk
<1>21. ASSUME NEW w \in Workers, ParseError(w) PROVE Submitted' = Submitted
  BY <1>21, <1>b DEF ParseError
<1>22. ASSUME NEW w \in Workers, RecordError(w) PROVE Submitted' = Submitted
  BY <1>22, <1>b DEF RecordError
<1>23. ASSUME NEW w \in Workers, DoneOne(w) PROVE Submitted' = Submitted
  BY <1>23, <1>b DEF DoneOne
<1>24. ASSUME NEW w \in Workers, WorkerExit(w) PROVE Submitted' = Submitted
  BY <1>24, <1>b DEF WorkerExit
<1>25. CASE UNCHANGED vars
  BY <1>25, <1>b DEF vars
<1> QED
  BY <1>1, <1>2, <1>3, <1>4, <1>5, <1>6, <1>7, <1>8, <1>9, <1>10, <1>11, <1>12, <1>13, <1>14, <1>15, <1>16, <1>17, <1>18, <1>19, <1>20, <1>21, <1>22, <1>23, <1>24, <1>25
  DEF Next, Main, Dispatcher, Worker, Closed

LEMMA SubmittedGrows ==
    ASSUME IInv, [Next]_vars
    PROVE  Submitted \subseteq Submitted'
  BY SubmittedStep

(* Every step keeps an item with at most one holder: the dispatcher lets   *)
(* an ID through once, and each hand-over takes it from the one before.    *)
LEMMA OnceStep ==
    ASSUME IInv, ParsedOnce, HandedOver, [Next]_vars
    PROVE  ParsedOnce' /\ HandedOver'
<1> USE DEF chanVars, dispVars, workVars, errVars, mainVars
<1>a. TypeOK /\ Holding /\ Phases
  BY DEF IInv
<1>b. ASSUME UNCHANGED <<workerCh, item, parsed, parsedPackaged>>,
             errs' \subseteq parsed,
             \A w \in Workers :
                /\ pc'[w] \in BusyStates <=> pc[w] \in BusyStates
                /\ pc'[w] \in {"parse", "send", "error"}
                      => pc[w] \in {"parse", "send", "error"}
                /\ pc'[w] = "done" => pc[w] = "done"
      PROVE  ParsedOnce' /\ HandedOver'
  BY <1>b DEF ParsedOnce, HandedOver, At
<1>1. CASE BeginStage
  BY <1>1, <1>b DEF BeginStage, HandedOver
<1>2. CASE AbortBefore
  BY <1>2, <1>b DEF AbortBefore, HandedOver
<1>3. CASE SubmitRoot
  BY <1>3, <1>b DEF SubmitRoot, HandedOver
<1>4. CASE MainSend
  BY <1>4, <1>b DEF MainSend, HandedOver
<1>5. CASE WaitDone
  BY <1>5, <1>b DEF WaitDone, HandedOver
<1>6. CASE JoinErrors
  BY <1>6, <1>b DEF JoinErrors, HandedOver
<1>7. CASE Close
  BY <1>7, <1>b DEF Close, HandedOver
<1>8. CASE CloseDone
  BY <1>8, <1>b DEF CloseDone, HandedOver
<1>9. CASE Receive
  BY <1>9, <1>b DEF Receive, HandedOver
<1>10. CASE DropDuplicate
  BY <1>10, <1>b DEF DropDuplicate, HandedOver
<1>11. CASE CloseWorkerCh
  BY <1>11, <1>b DEF CloseWorkerCh, HandedOver
<1>12. CASE LoopExit
  BY <1>12, <1>b DEF LoopExit, HandedOver
<1>13. CASE Dispatch
  <2>1. /\ Len(workerCh') = Len(workerCh) + 1
        /\ DOMAIN workerCh = 1..Len(workerCh) /\ DOMAIN workerCh' = 1..(Len(workerCh) + 1)
        /\ \A i \in 1..Len(workerCh) : workerCh'[i] = workerCh[i]
        /\ workerCh'[Len(workerCh) + 1] = held
        /\ ToSet(workerCh') = ToSet(workerCh) \cup {held}
    BY <1>13, <1>a, AppendLemma DEF Dispatch, TypeOK
  <2>a. \A i \in 1..Len(workerCh) : workerCh[i] \in ToSet(workerCh)
    BY <2>1 DEF ToSet
  <2>2. /\ held \notin ToSet(workerCh) /\ held \notin parsed
        /\ \A w \in Workers : item[w] # held
    BY <1>13, <1>a DEF Dispatch, HandedOver, At, Holding
  <2>3. ParsedOnce'
    <3>1. \A i, j \in DOMAIN workerCh' : workerCh'[i] = workerCh'[j] => i = j
      BY <2>1, <2>a, <2>2 DEF ParsedOnce
    <3> QED
      BY <3>1, <2>1, <2>2, <1>13 DEF ParsedOnce, Dispatch
  <2>4. HandedOver'
    BY <2>1, <1>13 DEF HandedOver, Dispatch, At
  <2> QED
    BY <2>3, <2>4
<1>14. ASSUME NEW w \in Workers, Take(w) PROVE ParsedOnce' /\ HandedOver'
  <2> DEFINE x == Head(workerCh)
  <2>1. /\ x \in Items /\ x # None
        /\ Len(workerCh) \in Nat /\ Len(workerCh) > 0
        /\ DOMAIN workerCh = 1..Len(workerCh) /\ DOMAIN workerCh' = 1..(Len(workerCh) - 1)
        /\ \A i \in 1..(Len(workerCh) - 1) : workerCh'[i] = workerCh[i + 1]
        /\ x = workerCh[1]
        /\ ToSet(workerCh) = {x} \cup ToSet(workerCh')
    BY <1>14, <1>a, HeadTailLemma, StageAssumption DEF Take, TypeOK
  <2>2. /\ item' = [item EXCEPT ![w] = x] /\ pc' = [pc EXCEPT ![w] = "parse"]
        /\ pc[w] = "idle" /\ item[w] = None
        /\ UNCHANGED <<parsed, parsedPackaged, errs>>
    BY <1>14, <1>a DEF Take, Holding, BusyStates
  <2> HIDE DEF x
  <2>3. /\ x \notin ToSet(workerCh')
        /\ x \notin parsed
        /\ \A v \in Workers : item[v] # x
    <3>1. ASSUME x \in ToSet(workerCh') PROVE FALSE
      <4>1. PICK i \in 1..(Len(workerCh) - 1) : workerCh'[i] = x
        BY <3>1, <2>1 DEF ToSet
      <4>2. workerCh[i + 1] = workerCh[1] /\ i + 1 \in DOMAIN workerCh /\ 1 \in DOMAIN workerCh
        BY <4>1, <2>1
      <4> QED
        BY <4>1, <4>2, <2>1 DEF ParsedOnce
    <3> QED
      BY <3>1, <2>1 DEF ParsedOnce
  <2>4. \A i, j \in DOMAIN workerCh' : workerCh'[i] = workerCh'[j] => i = j
    <3> SUFFICES ASSUME NEW i \in 1..(Len(workerCh) - 1), NEW j \in 1..(Len(workerCh) - 1),
                        workerCh'[i] = workerCh'[j]
                 PROVE  i = j
      BY <2>1
    <3>1. i + 1 \in DOMAIN workerCh /\ j + 1 \in DOMAIN workerCh
          /\ workerCh[i + 1] = workerCh[j + 1]
      BY <2>1
    <3>2. i + 1 = j + 1
      BY <3>1 DEF ParsedOnce
    <3> QED
      BY <3>2
  <2>5. ParsedOnce'
    <3>1. \A v \in Workers : item'[v] = IF v = w THEN x ELSE item[v]
      BY <2>2, <1>a DEF TypeOK
    <3>2. \A v \in Workers : pc'[v] = IF v = w THEN "parse" ELSE pc[v]
      BY <2>2, <1>a DEF TypeOK
    <3>3. \A u, v \in Workers : item'[u] = item'[v] /\ item'[u] # None => u = v
      BY <3>1, <2>3 DEF ParsedOnce
    <3>4. \A v \in Workers : item'[v] \notin ToSet(workerCh')
      BY <3>1, <2>1, <2>3 DEF ParsedOnce
    <3>5. ToSet(workerCh') \cap parsed' = {}
      BY <2>1, <2>2 DEF ParsedOnce
    <3>6. \A v \in Workers : pc'[v] \in {"parse", "send", "error"} => item'[v] \notin parsed'
      BY <3>1, <3>2, <2>2, <2>3 DEF ParsedOnce
    <3> QED
      BY <2>4, <3>3, <3>4, <3>5, <3>6 DEF ParsedOnce
  <2>6. HandedOver'
    <3>1. {item'[v] : v \in At(pc', BusyStates)} = {x} \cup {item[v] : v \in At(pc, BusyStates)}
      BY <2>2, <1>a DEF At, BusyStates, TypeOK
    <3>2. \A v \in Workers : pc'[v] = "done" => pc[v] = "done" /\ item'[v] = item[v]
      BY <2>2, <1>a DEF TypeOK
    <3>3. parsedPackaged' = ToSet(workerCh') \cup parsed' \cup {item'[v] : v \in At(pc', BusyStates)}
      BY <3>1, <2>1, <2>2 DEF HandedOver
    <3>4. {item'[v] : v \in At(pc', BusyStates)} = {item[v] : v \in At(pc, BusyStates)}'
      BY DEF At
    <3> QED
      BY <3>2, <3>3, <3>4, <2>2 DEF HandedOver
  <2> QED
    BY <2>5, <2>6
<1>15. ASSUME NEW w \in Workers, SkipFile(w) PROVE ParsedOnce' /\ HandedOver'
  BY <1>15, <1>a, <1>b DEF SkipFile, HandedOver, TypeOK, BusyStates
<1>16. ASSUME NEW w \in Workers, SubmitFile(w) PROVE ParsedOnce' /\ HandedOver'
  BY <1>16, <1>a, <1>b DEF SubmitFile, HandedOver, TypeOK, BusyStates
<1>17. ASSUME NEW w \in Workers, SubmitImport(w) PROVE ParsedOnce' /\ HandedOver'
  BY <1>17, <1>a, <1>b DEF SubmitImport, HandedOver, TypeOK, BusyStates
<1>18. ASSUME NEW w \in Workers, WorkerSend(w) PROVE ParsedOnce' /\ HandedOver'
  BY <1>18, <1>a, <1>b DEF WorkerSend, HandedOver, TypeOK, BusyStates
<1>19. ASSUME NEW w \in Workers, ParseError(w) PROVE ParsedOnce' /\ HandedOver'
  BY <1>19, <1>a, <1>b DEF ParseError, HandedOver, TypeOK, BusyStates
<1>20. ASSUME NEW w \in Workers, WorkerExit(w) PROVE ParsedOnce' /\ HandedOver'
  BY <1>20, <1>a, <1>b DEF WorkerExit, HandedOver, TypeOK, BusyStates
<1>21. ASSUME NEW w \in Workers, ParseOk(w) PROVE ParsedOnce' /\ HandedOver'
  <2>1. /\ pc[w] \in BusyStates /\ pc'[w] = "done" /\ item[w] # None
        /\ parsed' = parsed \cup {item[w]}
        /\ errs' \subseteq errs \cup {item[w]}
        /\ UNCHANGED <<workerCh, item, parsedPackaged>>
        /\ \A v \in Workers \ {w} : pc'[v] = pc[v]
    BY <1>21, <1>a DEF ParseOk, TypeOK, Holding, BusyStates
  <2>2. At(pc', BusyStates) = At(pc, BusyStates)
    BY <2>1 DEF At, BusyStates
  <2>3. ParsedOnce'
    BY <2>1 DEF ParsedOnce, BusyStates
  <2>4. HandedOver'
    <3>1. (At(pc, BusyStates))' = At(pc, BusyStates)
      BY <2>2 DEF At
    <3>2. item[w] \in parsedPackaged
      BY <2>1 DEF HandedOver, At
    <3>3. item[w] \in {item[v] : v \in At(pc, BusyStates)}
      BY <2>1 DEF At
    <3>4. \A v \in Workers : pc'[v] = "done" => item'[v] \in parsed'
      BY <2>1 DEF HandedOver
    <3>5. parsedPackaged' = ToSet(workerCh') \cup parsed'
             \cup {item'[v] : v \in (At(pc, BusyStates))'}
      BY <2>1, <3>1, <3>3 DEF HandedOver
    <3> QED
      BY <2>1, <3>4, <3>5 DEF HandedOver
  <2> QED
    BY <2>3, <2>4
<1>22. ASSUME NEW w \in Workers, RecordError(w) PROVE ParsedOnce' /\ HandedOver'
  <2>1. /\ pc[w] \in BusyStates /\ pc'[w] = "done" /\ item[w] # None
        /\ parsed' = parsed \cup {item[w]}
        /\ errs' \subseteq errs \cup {item[w]}
        /\ UNCHANGED <<workerCh, item, parsedPackaged>>
        /\ \A v \in Workers \ {w} : pc'[v] = pc[v]
    BY <1>22, <1>a DEF RecordError, TypeOK, Holding, BusyStates
  <2>2. At(pc', BusyStates) = At(pc, BusyStates)
    BY <2>1 DEF At, BusyStates
  <2>3. ParsedOnce'
    BY <2>1 DEF ParsedOnce, BusyStates
  <2>4. HandedOver'
    <3>1. (At(pc, BusyStates))' = At(pc, BusyStates)
      BY <2>2 DEF At
    <3>2. item[w] \in parsedPackaged
      BY <2>1 DEF HandedOver, At
    <3>3. item[w] \in {item[v] : v \in At(pc, BusyStates)}
      BY <2>1 DEF At
    <3>4. \A v \in Workers : pc'[v] = "done" => item'[v] \in parsed'
      BY <2>1 DEF HandedOver
    <3>5. parsedPackaged' = ToSet(workerCh') \cup parsed'
             \cup {item'[v] : v \in (At(pc, BusyStates))'}
      BY <2>1, <3>1, <3>3 DEF HandedOver
    <3> QED
      BY <2>1, <3>4, <3>5 DEF HandedOver
  <2> QED
    BY <2>3, <2>4
<1>23. ASSUME NEW w \in Workers, DoneOne(w) PROVE ParsedOnce' /\ HandedOver'
  <2>1. /\ pc[w] = "done" /\ item[w] \in parsed
        /\ \A v \in Workers : pc'[v] = IF v = w THEN "idle" ELSE pc[v]
        /\ \A v \in Workers : item'[v] = IF v = w THEN None ELSE item[v]
        /\ UNCHANGED <<workerCh, parsed, errs, parsedPackaged>>
    BY <1>23, <1>a DEF DoneOne, TypeOK, HandedOver
  <2>2. None \notin ToSet(workerCh)
    BY <1>a, StageAssumption DEF TypeOK, ToSet
  <2>3. ParsedOnce'
    BY <2>1, <2>2 DEF ParsedOnce
  <2>4. HandedOver'
    <3>1. {item[v] : v \in At(pc, BusyStates)}'
            = {item[v] : v \in At(pc, BusyStates) \ {w}}
      BY <2>1 DEF At, BusyStates
    <3>2. parsedPackaged = ToSet(workerCh) \cup parsed
             \cup {item[v] : v \in At(pc, BusyStates) \ {w}}
      BY <2>1 DEF HandedOver
    <3> QED
      BY <2>1, <3>1, <3>2 DEF HandedOver
  <2> QED
    BY <2>3, <2>4
<1>24. ASSUME NEW i \in DOMAIN overflow, OverflowSend(i) PROVE ParsedOnce' /\ HandedOver'
  BY <1>24, <1>b DEF OverflowSend, HandedOver
<1>25. CASE UNCHANGED vars
  BY <1>25, <1>b DEF vars, HandedOver
<1> QED
  BY <1>1, <1>2, <1>3, <1>4, <1>5, <1>6, <1>7, <1>8, <1>9, <1>10, <1>11, <1>12, <1>13, <1>14, <1>15, <1>16, <1>17, <1>18, <1>19, <1>20, <1>21, <1>22, <1>23, <1>24, <1>25
  DEF Next, Main, Dispatcher, Worker, Closed

-----------------------------------------------------------------------------
(* Discovery, conjunct by conjunct. *)
RootsFound == /\ ToSet(Roots) \subseteq Submitted \cup ToSet(todo)
              /\ ToSet(todo) \subseteq ToSet(Roots)
ParsedFound == \A x \in parsed \ (errs \cup UNION reported) : Children(x) \subseteq Submitted
Finding(w) ==
    pc[w] \in {"parse", "send"} =>
        /\ Children(item[w]) \subseteq
               Submitted \cup ToSet(files[w]) \cup imports[w] \cup {next[w]}
        /\ ToSet(files[w]) \subseteq ToSet(FileList(item[w]))
        /\ imports[w] \subseteq ImportList(item[w])
Sending(w) == /\ pc[w] = "send" => next[w] \in Children(item[w])
              /\ pc[w] = "error" => item[w] \in MayFail
Reporting == /\ mpc = "wait" \/ reported # {} => todo = <<>>
             /\ mpc \in {"load", "submit", "send", "wait"} => reported = {}
             /\ reported # {} => errs = {}

LEMMA DiscoveryParts ==
    Discovery <=> /\ RootsFound /\ ParsedFound /\ Reporting
                  /\ \A w \in Workers : Finding(w) /\ Sending(w)
  BY DEF Discovery, RootsFound, ParsedFound, Reporting, Finding, Sending

(* The children of an item are items. *)
LEMMA ChildrenItems ==
    ASSUME NEW x \in Items
    PROVE  Children(x) \subseteq Items
<1>1. ToSet(FileList(x)) \subseteq Files
  BY ListTypes DEF ToSet
<1> QED
  BY <1>1, ListTypes DEF Children, Items

(* A root that has left todo has been submitted.                           *)
LEMMA RootsStep == RInv /\ [Next]_vars => RootsFound'
<1> SUFFICES ASSUME RInv, [Next]_vars PROVE RootsFound'
  OBVIOUS
<1> USE DEF chanVars, dispVars, workVars, errVars, mainVars
<1>a. RootsFound /\ TypeOK /\ Phases
  BY DiscoveryParts DEF RInv, IInv
<1>b. Submitted \subseteq Submitted'
  BY SubmittedGrows DEF RInv
<1>1. CASE MainSend
  <2>1. ToSet(todo) = {Head(todo)} \cup ToSet(todo')
    BY <1>1, <1>a, HeadTailLemma DEF MainSend, TypeOK, Phases
  <2>2. Head(todo) \in Items
    BY <1>1, <1>a, HeadTailLemma DEF MainSend, TypeOK, Phases, Items
  <2>3. ToSet(channel') \cup ToSet(overflow')
           = ToSet(channel) \cup ToSet(overflow) \cup {Head(todo)}
    BY <2>2, <1>1, <1>a, EnqueueLemma DEF MainSend
  <2>4. Head(todo) \in Submitted'
    BY <2>3 DEF Submitted
  <2> QED
    BY <2>1, <2>4, <1>a, <1>b DEF RootsFound
<1>2. CASE UNCHANGED todo
  BY <1>2, <1>a, <1>b DEF RootsFound
<1>3. CASE Main /\ ~MainSend
  BY <1>2, <1>3 DEF Main, BeginStage, AbortBefore, SubmitRoot, WaitDone, JoinErrors, Close, CloseDone
<1>4. CASE Dispatcher
  BY <1>2, <1>4 DEF Dispatcher, Receive, DropDuplicate, Dispatch, CloseWorkerCh, LoopExit
<1>5. ASSUME NEW w \in Workers, Worker(w) PROVE UNCHANGED todo
  BY <1>5 DEF Worker, Take, SkipFile, SubmitFile, SubmitImport, WorkerSend,
              ParseOk, ParseError, RecordError, DoneOne, WorkerExit
<1>6. ASSUME NEW i \in DOMAIN overflow, OverflowSend(i) PROVE UNCHANGED todo
  BY <1>6 DEF OverflowSend
<1> QED
  BY <1>1, <1>2, <1>3, <1>4, <1>5, <1>6 DEF Next, Closed, vars

(* The report is made once, when nothing is left to submit.                *)
LEMMA ReportingStep == RInv /\ [Next]_vars => Reporting'
<1> SUFFICES ASSUME RInv, [Next]_vars PROVE Reporting'
  OBVIOUS
<1> USE DEF chanVars, dispVars, workVars, errVars, mainVars
<1>a. Reporting /\ IInv
  BY DiscoveryParts DEF RInv
<1>b. reported # {} => mpc \in {"close", "closing", "closed"}
  BY <1>a DEF Reporting, IInv, TypeOK
<1>c. \A w \in Workers : reported # {} => pc[w] \notin BusyStates
  BY <1>a, <1>b, CounterPositive DEF IInv, Phases
<1>1. CASE BeginStage
  BY <1>1, <1>a, <1>b DEF BeginStage, Reporting
<1>2. CASE AbortBefore
  BY <1>2, <1>a, <1>b DEF AbortBefore, Reporting
<1>3. CASE SubmitRoot
  BY <1>3, <1>a, <1>b DEF SubmitRoot, Reporting
<1>4. CASE MainSend
  BY <1>4, <1>a, <1>b DEF MainSend, Reporting
<1>5. CASE WaitDone
  BY <1>5, <1>a, <1>b DEF WaitDone, Reporting
<1>6. CASE JoinErrors
  BY <1>6, <1>a, <1>b DEF JoinErrors, Reporting
<1>7. CASE Close
  BY <1>7, <1>a, <1>b DEF Close, Reporting
<1>8. CASE CloseDone
  BY <1>8, <1>a, <1>b DEF CloseDone, Reporting
<1>9. CASE Receive
  BY <1>9, <1>a, <1>b DEF Receive, Reporting
<1>10. CASE DropDuplicate
  BY <1>10, <1>a, <1>b DEF DropDuplicate, Reporting
<1>11. CASE Dispatch
  BY <1>11, <1>a, <1>b DEF Dispatch, Reporting
<1>12. CASE CloseWorkerCh
  BY <1>12, <1>a, <1>b DEF CloseWorkerCh, Reporting
<1>13. CASE LoopExit
  BY <1>13, <1>a, <1>b DEF LoopExit, Reporting
<1>14. ASSUME NEW w \in Workers, Take(w) PROVE Reporting'
  BY <1>14, <1>a, <1>c DEF Take, Reporting, BusyStates
<1>15. ASSUME NEW w \in Workers, SkipFile(w) PROVE Reporting'
  BY <1>15, <1>a, <1>c DEF SkipFile, Reporting, BusyStates
<1>16. ASSUME NEW w \in Workers, SubmitFile(w) PROVE Reporting'
  BY <1>16, <1>a, <1>c DEF SubmitFile, Reporting, BusyStates
<1>17. ASSUME NEW w \in Workers, SubmitImport(w) PROVE Reporting'
  BY <1>17, <1>a, <1>c DEF SubmitImport, Reporting, BusyStates
<1>18. ASSUME NEW w \in Workers, WorkerSend(w) PROVE Reporting'
  BY <1>18, <1>a, <1>c DEF WorkerSend, Reporting, BusyStates
<1>19. ASSUME NEW w \in Workers, ParseOk(w) PROVE Reporting'
  BY <1>19, <1>a, <1>c DEF ParseOk, Reporting, BusyStates
<1>20. ASSUME NEW w \in Workers, ParseError(w) PROVE Reporting'
  BY <1>20, <1>a, <1>c DEF ParseError, Reporting, BusyStates
<1>21. ASSUME NEW w \in Workers, RecordError(w) PROVE Reporting'
  BY <1>21, <1>a, <1>c DEF RecordError, Reporting, BusyStates
<1>22. ASSUME NEW w \in Workers, DoneOne(w) PROVE Reporting'
  BY <1>22, <1>a, <1>c DEF DoneOne, Reporting, BusyStates
<1>23. ASSUME NEW w \in Workers, WorkerExit(w) PROVE Reporting'
  BY <1>23, <1>a, <1>c DEF WorkerExit, Reporting, BusyStates
<1>24. ASSUME NEW i \in DOMAIN overflow, OverflowSend(i) PROVE Reporting'
  BY <1>24, <1>a DEF OverflowSend, Reporting
<1>25. CASE UNCHANGED vars
  BY <1>25, <1>a DEF vars, Reporting
<1> QED
  BY <1>1, <1>2, <1>3, <1>4, <1>5, <1>6, <1>7, <1>8, <1>9, <1>10, <1>11, <1>12, <1>13, <1>14, <1>15, <1>16, <1>17, <1>18, <1>19, <1>20, <1>21, <1>22, <1>23, <1>24, <1>25
  DEF Next, Main, Dispatcher, Worker, Closed

(* While an item is parsed, a child is submitted or still to be submitted. *)
LEMMA FindingStep ==
    ASSUME RInv, [Next]_vars, NEW u \in Workers
    PROVE  Finding(u)' /\ Sending(u)'
<1> USE DEF chanVars, dispVars, workVars, errVars, mainVars
<1>a. /\ TypeOK /\ Holding
      /\ \A w \in Workers : Finding(w) /\ Sending(w)
      /\ \A x \in Items : Children(x) \subseteq Items
  BY DiscoveryParts, ChildrenItems DEF RInv, IInv
<1>b. Submitted \subseteq Submitted'
  BY SubmittedGrows DEF RInv
<1>c. ASSUME pc'[u] = pc[u], item'[u] = item[u], files'[u] = files[u],
             imports'[u] = imports[u], next'[u] = next[u]
      PROVE  Finding(u)' /\ Sending(u)'
  BY <1>a, <1>b, <1>c DEF Finding, Sending
<1>d. CASE UNCHANGED workVars
  BY <1>c, <1>d
<1>e. ASSUME NEW w \in Workers, Worker(w), w # u
      PROVE  Finding(u)' /\ Sending(u)'
  <2>1. /\ pc'[u] = pc[u] /\ item'[u] = item[u] /\ files'[u] = files[u]
        /\ imports'[u] = imports[u] /\ next'[u] = next[u]
    BY <1>e, <1>a DEF Worker, Take, SkipFile, SubmitFile, SubmitImport, WorkerSend,
                      ParseOk, ParseError, RecordError, DoneOne, WorkerExit, TypeOK
  <2> QED
    BY <2>1, <1>c
<1>1. CASE Take(u)
  <2>1. /\ pc'[u] = "parse"
        /\ files'[u] = FileList(item'[u]) /\ imports'[u] = ImportList(item'[u])
    BY <1>1, <1>a DEF Take, TypeOK
  <2> QED
    BY <2>1 DEF Finding, Sending, Children
<1>2. CASE SkipFile(u)
  <2>1. /\ pc'[u] = "parse" /\ pc[u] = "parse" /\ item'[u] = item[u]
        /\ imports'[u] = imports[u] /\ next'[u] = next[u]
        /\ ToSet(files[u]) = {Head(files[u])} \cup ToSet(files'[u])
        /\ Skipped(item[u], Head(files[u])) /\ Head(files[u]) \in Files
    BY <1>2, <1>a, HeadTailLemma DEF SkipFile, TypeOK
  <2>2. Head(files[u]) \in ImportList(item[u]) => FALSE
    BY <2>1, <1>a, GraphAssumption, ListTypes DEF Holding, BusyStates, TypeOK
  <2>3. Head(files[u]) \notin Children(item[u])
    BY <2>1, <2>2 DEF Children
  <2> QED
    BY <2>1, <2>3, <1>a, <1>b DEF Finding, Sending
<1>3. CASE SubmitFile(u)
  <2>1. /\ pc'[u] = "send" /\ pc[u] = "parse" /\ item'[u] = item[u]
        /\ imports'[u] = imports[u] /\ next'[u] = Head(files[u])
        /\ ToSet(files[u]) = {Head(files[u])} \cup ToSet(files'[u])
        /\ ~Skipped(item[u], Head(files[u]))
    BY <1>3, <1>a, HeadTailLemma DEF SubmitFile, TypeOK
  <2>2. next[u] = None /\ item[u] \in Items
    BY <2>1, <1>a DEF Holding, TypeOK, BusyStates
  <2>3. None \notin Children(item[u])
    BY <2>2, <1>a, StageAssumption
  <2>4. Head(files[u]) \in Children(item[u])
    BY <2>1, <1>a DEF Finding, Children
  <2> QED
    BY <2>1, <2>2, <2>3, <2>4, <1>a, <1>b DEF Finding, Sending
<1>4. CASE SubmitImport(u)
  <2>1. /\ pc'[u] = "send" /\ pc[u] = "parse" /\ item'[u] = item[u]
        /\ files'[u] = files[u] /\ next'[u] \in imports[u]
        /\ imports'[u] = imports[u] \ {next'[u]}
    BY <1>4, <1>a DEF SubmitImport, TypeOK
  <2>2. next[u] = None /\ item[u] \in Items
    BY <2>1, <1>a DEF Holding, TypeOK, BusyStates
  <2>3. None \notin Children(item[u])
    BY <2>2, <1>a, StageAssumption
  <2>4. next'[u] \in Children(item[u])
    BY <2>1, <1>a DEF Finding, Children
  <2> QED
    BY <2>1, <2>2, <2>3, <2>4, <1>a, <1>b DEF Finding, Sending
<1>5. CASE WorkerSend(u)
  <2>1. /\ pc'[u] = "parse" /\ pc[u] = "send" /\ item'[u] = item[u]
        /\ files'[u] = files[u] /\ imports'[u] = imports[u]
    BY <1>5, <1>a DEF WorkerSend, TypeOK
  <2>2. next[u] \in Items
    BY <2>1, <1>a DEF Holding, TypeOK
  <2>3. ToSet(channel') \cup ToSet(overflow')
           = ToSet(channel) \cup ToSet(overflow) \cup {next[u]}
    BY <2>2, <1>5, <1>a, EnqueueLemma DEF WorkerSend
  <2>4. next[u] \in Submitted'
    BY <2>3 DEF Submitted
  <2> QED
    BY <2>1, <2>4, <1>a, <1>b DEF Finding, Sending
<1>6. CASE ParseOk(u) \/ RecordError(u) \/ DoneOne(u) \/ WorkerExit(u)
  <2>1. pc'[u] \in {"done", "idle", "exited"}
    BY <1>6, <1>a DEF ParseOk, RecordError, DoneOne, WorkerExit, TypeOK
  <2> QED
    BY <2>1 DEF Finding, Sending
<1>7. CASE ParseError(u)
  <2>1. pc'[u] = "error" /\ item'[u] = item[u] /\ item[u] \in MayFail
    BY <1>7, <1>a DEF ParseError, TypeOK
  <2> QED
    BY <2>1 DEF Finding, Sending
<1>8. CASE Main \/ Dispatcher \/ UNCHANGED vars
  BY <1>8, <1>d DEF Main, Dispatcher, BeginStage, AbortBefore, SubmitRoot, MainSend,
        WaitDone, JoinErrors, Close, CloseDone, Receive, DropDuplicate, Dispatch,
        CloseWorkerCh, LoopExit, vars
<1>9. ASSUME NEW i \in DOMAIN overflow, OverflowSend(i) PROVE UNCHANGED workVars
  BY <1>9 DEF OverflowSend
<1>10. ASSUME Worker(u) PROVE Finding(u)' /\ Sending(u)'
  BY <1>10, <1>1, <1>2, <1>3, <1>4, <1>5, <1>6, <1>7 DEF Worker
<1> QED
  BY <1>d, <1>e, <1>8, <1>9, <1>10 DEF Next, Closed

(* The children of an item that was parsed without an error are submitted. *)
LEMMA ParsedStep == RInv /\ [Next]_vars => ParsedFound'
<1> SUFFICES ASSUME RInv, [Next]_vars PROVE ParsedFound'
  OBVIOUS
<1> USE DEF chanVars, dispVars, workVars, errVars, mainVars
<1>a. /\ TypeOK /\ Holding /\ ParsedFound /\ Reporting
      /\ \A w \in Workers : Finding(w)
      /\ \A x \in Items : Children(x) \subseteq Items
  BY DiscoveryParts, ChildrenItems DEF RInv, IInv
<1>b. Submitted \subseteq Submitted'
  BY SubmittedGrows DEF RInv
<1>c. CASE parsed' = parsed /\ errs' \cup UNION reported' = errs \cup UNION reported
  BY <1>a, <1>b, <1>c DEF ParsedFound
<1>1. ASSUME NEW w \in Workers, ParseOk(w) PROVE ParsedFound'
  <2>1. /\ pc[w] = "parse" /\ files[w] = <<>> /\ imports[w] = {}
        /\ parsed' = parsed \cup {item[w]} /\ errs' = errs /\ reported' = reported
    BY <1>1 DEF ParseOk
  <2>2. item[w] \in Items /\ next[w] = None
    BY <2>1, <1>a DEF Holding, TypeOK, BusyStates
  <2>3. Children(item[w]) \subseteq Submitted
    BY <2>1, <2>2, <1>a, EmptyLemma, StageAssumption DEF Finding
  <2> QED
    BY <2>1, <2>3, <1>a, <1>b DEF ParsedFound
<1>2. ASSUME NEW w \in Workers, RecordError(w) PROVE ParsedFound'
  <2>1. /\ parsed' = parsed \cup {item[w]} /\ errs' = errs \cup {item[w]}
        /\ reported' = reported
    BY <1>2 DEF RecordError
  <2> QED
    BY <2>1, <1>a, <1>b DEF ParsedFound
<1>3. CASE JoinErrors
  <2>1. reported = {} /\ reported' = {errs} /\ errs' = {} /\ parsed' = parsed
    BY <1>3, <1>a DEF JoinErrors, Reporting
  <2>2. errs' \cup UNION reported' = errs \cup UNION reported
    BY <2>1
  <2> QED
    BY <2>1, <2>2, <1>c
<1>4. CASE UNCHANGED <<parsed, errs, reported>>
  BY <1>4, <1>c
<1>5. CASE Main /\ ~JoinErrors
  BY <1>4, <1>5 DEF Main, BeginStage, AbortBefore, SubmitRoot, MainSend, WaitDone, Close, CloseDone
<1>6. CASE Dispatcher
  BY <1>4, <1>6 DEF Dispatcher, Receive, DropDuplicate, Dispatch, CloseWorkerCh, LoopExit
<1>7. ASSUME NEW w \in Workers, Worker(w), ~ParseOk(w), ~RecordError(w)
      PROVE  UNCHANGED <<parsed, errs, reported>>
  BY <1>7 DEF Worker, Take, SkipFile, SubmitFile, SubmitImport, WorkerSend,
              ParseError, DoneOne, WorkerExit
<1>8. ASSUME NEW i \in DOMAIN overflow, OverflowSend(i) PROVE UNCHANGED <<parsed, errs, reported>>
  BY <1>8 DEF OverflowSend
<1> QED
  BY <1>1, <1>2, <1>3, <1>4, <1>5, <1>6, <1>7, <1>8 DEF Next, Closed, vars

-----------------------------------------------------------------------------
(* The strengthened invariant is inductive. *)
LEMMA RInit == Init => RInv
<1> SUFFICES ASSUME Init PROVE RInv
  OBVIOUS
<1>1. ParsedOnce
  BY EmptyLemma DEF Init, ParsedOnce
<1>2. HandedOver
  BY EmptyLemma DEF Init, HandedOver, At, BusyStates
<1>3. Discovery
  BY EmptyLemma DEF Init, Discovery
<1> QED
  BY <1>1, <1>2, <1>3, InitInv DEF RInv

LEMMA RInductive == Spec => []RInv
<1>1. RInv /\ [Next]_vars => RInv'
  <2> SUFFICES ASSUME RInv, [Next]_vars PROVE RInv'
    OBVIOUS
  <2>1. IInv'
    BY TypeStep, HoldingStep, AccountingStep, PhasesStep DEF RInv, IInv
  <2>2. ParsedOnce' /\ HandedOver'
    BY OnceStep DEF RInv
  <2>3. RootsFound' /\ ParsedFound' /\ Reporting'
    BY RootsStep, ParsedStep, ReportingStep
  <2>4. \A w \in Workers : Finding(w)' /\ Sending(w)'
    BY FindingStep
  <2>5. Discovery'
    BY <2>3, <2>4 DEF Discovery, RootsFound, ParsedFound, Reporting, Finding, Sending
  <2> QED
    BY <2>1, <2>2, <2>5 DEF RInv
<1> QED
  BY RInit, <1>1, PTL DEF Spec

(* When the counter is zero, what has been submitted has been parsed.      *)
LEMMA SubmittedIsParsed ==
    ASSUME RInv, wg = 0
    PROVE  Submitted = parsed
<1>1. /\ channel = <<>> /\ overflow = <<>> /\ workerCh = <<>> /\ held = None
      /\ \A w \in Workers : pc[w] \in {"idle", "exited"}
  BY NothingInFlight DEF RInv
<1>2. At(pc, BusyStates) = {}
  BY <1>1 DEF At, BusyStates
<1> QED
  BY <1>1, <1>2, EmptyLemma DEF RInv, HandedOver, Submitted

(* No item is parsed twice, however often it is imported and whichever     *)
(* workers and overflow goroutines submit it.                              *)
THEOREM StageParsedOnce == Spec => []ParsedOnce
  BY RInductive, PTL DEF RInv

(* A stage that reports no error has parsed the roots and, with every item *)
(* it parsed, all of that item's files and imports.                        *)
THEOREM StageAllReachableParsed == Spec => []AllReachableParsed
<1>1. RInv => AllReachableParsed
  <2> SUFFICES ASSUME RInv, reported = {{}}
               PROVE  /\ ToSet(Roots) \subseteq parsed
                      /\ \A x \in parsed : Children(x) \subseteq parsed
    BY DEF AllReachableParsed
  <2>1. RootsFound /\ ParsedFound /\ Reporting
    BY DiscoveryParts DEF RInv
  <2>2. wg = 0 /\ todo = <<>> /\ errs = {}
    BY <2>1 DEF Reporting, RInv, IInv, TypeOK, Phases
  <2>3. Submitted = parsed
    BY <2>2, SubmittedIsParsed
  <2>4. errs \cup UNION reported = {}
    BY <2>2
  <2> QED
    BY <2>1, <2>2, <2>3, <2>4, EmptyLemma DEF RootsFound, ParsedFound
<1> QED
  BY RInductive, <1>1, PTL

(* The instance speaks of the same graph. *)
LEMMA SameGraph ==
    /\ Abstract!Items = Items
    /\ \A x : Abstract!Children(x) = Children(x)
    /\ \A s : Abstract!ToSet(s) = ToSet(s)
<1>1. Abstract!Items = Items /\ \A s : Abstract!ToSet(s) = ToSet(s)
  BY DEF Abstract!Items, Items, Abstract!ToSet, ToSet
<1>2. \A x : Abstract!FileList(x) = FileList(x) /\ Abstract!ImportList(x) = ImportList(x)
  BY DEF Abstract!FileList, FileList, Abstract!ImportList, ImportList
<1>3. \A x, f : Abstract!Skipped(x, f) <=> Skipped(x, f)
  BY DEF Abstract!Skipped, Skipped
<1>4. ASSUME NEW x PROVE Abstract!Children(x) = Children(x)
  BY <1>1, <1>2, <1>3 DEF Abstract!Children, Children
<1> QED
  BY <1>1, <1>4

(* The stage implements the traversal: a send discovers an item, the end   *)
(* of a Parse finishes it, the join of the errors returns, and every other *)
(* step of a goroutine is invisible.                                       *)
THEOREM StageImplementsTraversal == Spec => ImplementsTraversal
<1>1. Init => Abstract!Init
  BY EmptyLemma DEF Init, Abstract!Init, Submitted
<1>2. RInv /\ [Next]_vars => [Abstract!Next]_Abstract!vars
  <2> SUFFICES ASSUME RInv, [Next]_vars PROVE [Abstract!Next]_Abstract!vars
    OBVIOUS
  <2> USE DEF chanVars, dispVars, workVars, errVars, mainVars
  <2>a. /\ IInv /\ TypeOK /\ Holding /\ Phases /\ HandedOver /\ ParsedOnce
        /\ RootsFound /\ Reporting
        /\ \A w \in Workers : Finding(w) /\ Sending(w)
    BY DiscoveryParts DEF RInv, IInv
  <2>b. \A w \in Workers : pc[w] \in BusyStates =>
            /\ reported = {} /\ item[w] \in Items /\ item[w] \in parsedPackaged
    <3>1. \A w \in Workers : pc[w] \in BusyStates => wg > 0 /\ item[w] # None
      BY <2>a, CounterPositive DEF Holding
    <3>2. reported # {} => wg = 0
      BY <2>a DEF Reporting, Phases, TypeOK
    <3> QED
      BY <3>1, <3>2, <2>a DEF TypeOK, HandedOver, At
  <2>c. CASE UNCHANGED <<parsed, errs, reported>> /\ Submitted' = Submitted
    BY <2>c DEF Abstract!vars
  <2>1. CASE MainSend
    <3>1. CASE Submitted' = Submitted
      BY <3>1, <2>1, <2>c DEF MainSend
    <3>2. CASE Submitted' # Submitted
      <4>1. Head(todo) \in ToSet(Roots) /\ Head(todo) \in Items
        BY <2>1, <2>a, HeadTailLemma DEF MainSend, TypeOK, Phases, RootsFound, Items
      <4>2. ToSet(channel') \cup ToSet(overflow')
               = ToSet(channel) \cup ToSet(overflow) \cup {Head(todo)}
        BY <4>1, <2>1, <2>a, EnqueueLemma DEF MainSend
      <4>3. Submitted' = Submitted \cup {Head(todo)}
        BY <4>2, <2>1 DEF MainSend, Submitted
      <4>4. Abstract!Discover(Head(todo))
        BY <4>1, <4>3, <2>1, <2>a, SameGraph DEF Abstract!Discover, MainSend, Reporting
      <4> QED
        BY <4>1, <4>4, SameGraph DEF Abstract!Next
    <3> QED
      BY <3>1, <3>2
  <2>2. ASSUME NEW w \in Workers, WorkerSend(w)
        PROVE  [Abstract!Next]_Abstract!vars
    <3>1. pc[w] = "send" /\ UNCHANGED <<held, parsedPackaged, parsed, errs, reported>>
      BY <2>2 DEF WorkerSend
    <3>2. /\ next[w] \in Items /\ next[w] \in Children(item[w])
          /\ reported = {} /\ item[w] \in Submitted \ parsed
      BY <3>1, <2>a, <2>b DEF Holding, TypeOK, Sending, ParsedOnce, BusyStates, Submitted
    <3>3. ToSet(channel') \cup ToSet(overflow')
             = ToSet(channel) \cup ToSet(overflow) \cup {next[w]}
      BY <3>2, <2>2, <2>a, EnqueueLemma DEF WorkerSend
    <3>4. Submitted' = Submitted \cup {next[w]}
      BY <3>3, <3>1 DEF Submitted
    <3>5. Abstract!Discover(next[w])
      BY <3>1, <3>2, <3>4, SameGraph DEF Abstract!Discover
    <3> QED
      BY <3>2, <3>5, SameGraph DEF Abstract!Next
  <2>3. ASSUME NEW w \in Workers, ParseOk(w)
        PROVE  [Abstract!Next]_Abstract!vars
    <3>1. /\ pc[w] = "parse" /\ files[w] = <<>> /\ imports[w] = {}
          /\ UNCHANGED <<channel, overflow, held, parsedPackaged, errs, reported>>
          /\ parsed' = parsed \cup {item[w]}
      BY <2>3 DEF ParseOk
    <3>2. /\ item[w] \in Items /\ item[w] \in Submitted \ parsed /\ next[w] = None
      BY <3>1, <2>a, <2>b DEF Holding, TypeOK, ParsedOnce, BusyStates, Submitted
    <3>3. Children(item[w]) \subseteq Submitted
      BY <3>1, <3>2, <2>a, EmptyLemma, ChildrenItems, StageAssumption DEF Finding
    <3>4. Abstract!Succeed(item[w])
      BY <3>1, <3>2, <3>3, SameGraph DEF Abstract!Succeed, Submitted
    <3> QED
      BY <3>2, <3>4, SameGraph DEF Abstract!Next
  <2>4. ASSUME NEW w \in Workers, RecordError(w)
        PROVE  [Abstract!Next]_Abstract!vars
    <3>1. /\ pc[w] = "error"
          /\ UNCHANGED <<channel, overflow, held, parsedPackaged, reported>>
          /\ parsed' = parsed \cup {item[w]} /\ errs' = errs \cup {item[w]}
      BY <2>4 DEF RecordError
    <3>2. /\ item[w] \in Items /\ item[w] \in Submitted \ parsed /\ item[w] \in MayFail
      BY <3>1, <2>a, <2>b DEF ParsedOnce, BusyStates, Submitted, Sending, TypeOK
    <3>3. Abstract!Fail(item[w])
      BY <3>1, <3>2, SameGraph DEF Abstract!Fail, Submitted
    <3> QED
      BY <3>2, <3>3, SameGraph DEF Abstract!Next
  <2>5. CASE JoinErrors
    <3>1. /\ reported = {} /\ reported' = {errs} /\ errs' = {} /\ todo = <<>> /\ wg = 0
          /\ UNCHANGED <<channel, overflow, held, parsedPackaged, parsed>>
      BY <2>5, <2>a DEF JoinErrors, Reporting, Phases
    <3>2. Submitted = parsed
      BY <3>1, SubmittedIsParsed
    <3>3. ToSet(Roots) \subseteq Submitted
      BY <3>1, <2>a, EmptyLemma DEF RootsFound
    <3>4. Submitted' = Submitted
      BY <3>1 DEF Submitted
    <3> QED
      BY <3>1, <3>2, <3>3, <3>4, SameGraph DEF Abstract!Return, Abstract!Next
  <2>6. CASE /\ ~MainSend /\ ~JoinErrors
             /\ \A w \in Workers : ~WorkerSend(w) /\ ~ParseOk(w) /\ ~RecordError(w)
    <3>1. Submitted' = Submitted
      BY <2>6, <2>a, SubmittedStep
    <3>2. CASE Main
      BY <3>1, <3>2, <2>6, <2>c
         DEF Main, BeginStage, AbortBefore, SubmitRoot, WaitDone, Close, CloseDone
    <3>3. CASE Dispatcher
      BY <3>1, <3>3, <2>c
         DEF Dispatcher, Receive, DropDuplicate, Dispatch, CloseWorkerCh, LoopExit
    <3>4. ASSUME NEW w \in Workers, Worker(w)
          PROVE  UNCHANGED <<parsed, errs, reported>>
      BY <3>4, <2>6 DEF Worker, Take, SkipFile, SubmitFile, SubmitImport,
                        ParseError, DoneOne, WorkerExit
    <3>5. ASSUME NEW i \in DOMAIN overflow, OverflowSend(i)
          PROVE  UNCHANGED <<parsed, errs, reported>>
      BY <3>5 DEF OverflowSend
    <3>6. CASE UNCHANGED vars
      BY <3>1, <3>6, <2>c DEF vars
    <3> QED
      BY <3>1, <3>2, <3>3, <3>4, <3>5, <3>6, <2>c DEF Next, Closed
  <2> QED
    BY <2>1, <2>2, <2>3, <2>4, <2>5, <2>6
<1> QED
  BY <1>1, <1>2, RInductive, PTL DEF Spec, ImplementsTraversal, Abstract!Spec
=============================================================================
