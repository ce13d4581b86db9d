-------------------------- MODULE ParameterStudy --------------------------
(***************************************************************************)
(* A parameter study (base/parameterstudy.cpp): the main thread fills a    *)
(* queue with the variants of an analysis, starts AnalysisWorkerThreads    *)
(* that take them from the queue (base/analysisthread.cpp), and waits for  *)
(* all of them.                                                            *)
(*                                                                         *)
(* SynchronisedAnalysisQueue (base/analysis.cpp) takes its lock in         *)
(* enqueue() and dequeue(), and in no other operation.  An exception ends  *)
(* a worker, or makes the main thread leave them at work.                  *)
(***************************************************************************)
EXTENDS Integers

CONSTANTS
  NumThreads,   \* parameter run/numthread
  NumInstances  \* variants of the study

ASSUME StudyAssumption ==
  /\ NumThreads \in Nat
  /\ NumInstances \in Nat

(* The variants, in the order they are generated in. *)
Instance == 1 .. NumInstances

(* As many workers as variants, if that is fewer than allowed. *)
NumWorkers == IF NumThreads < NumInstances THEN NumThreads ELSE NumInstances
Worker == 1 .. NumWorkers

VARIABLES
  main,       \* the main thread
  generated,  \* variants enqueued
  taken,      \* variants dequeued; the queue holds taken+1 .. generated
  started,    \* worker threads created
  pc,         \* what each worker does next
  item,       \* the variant each worker works on, 0: none
  success,    \* how the analysis of that variant ended
  raised,     \* workers that an exception has ended: exception_ is set
  processed,  \* what processed_ holds: variants with their outcome
  seen,       \* processed_ as a worker in storeProcessed() has read it
  clash       \* history: the variants whose storing met another one's

queueVars == <<generated, taken, started>>
workerVars == <<pc, item, success, raised>>
storeVars == <<processed, seen, clash>>
vars == <<main, queueVars, workerVars, storeVars>>

isEmpty == taken = generated

Outcome == [instance : Instance, success : BOOLEAN]

Init ==
  /\ main = "setup"
  /\ generated = 0
  /\ taken = 0
  /\ started = 0
  /\ pc = [w \in Worker |-> "unborn"]
  /\ item = [w \in Worker |-> 0]
  /\ success = [w \in Worker |-> FALSE]
  /\ raised = {}
  /\ processed = {}
  /\ seen = [w \in Worker |-> {}]
  /\ clash = {}
-----------------------------------------------------------------------------
(* The main thread. *)

Enqueue ==
  /\ main = "setup"
  /\ generated < NumInstances
  /\ generated' = generated + 1
  /\ UNCHANGED <<main, taken, started, workerVars, storeVars>>

(* A variant cannot be set up: the exception leaves setupQueue(). *)
EnqueueFails ==
  /\ main = "setup"
  /\ generated < NumInstances
  /\ main' = "failed"
  /\ UNCHANGED <<queueVars, workerVars, storeVars>>

SetupDone ==
  /\ main = "setup"
  /\ generated = NumInstances
  /\ main' = "joining"
  /\ UNCHANGED <<queueVars, workerVars, storeVars>>

(* Faulty variant: one worker too many. *)
CreateThreadOnceMore ==
  /\ main = "joining"
  /\ started <= NumWorkers
  /\ started' = started + 1
  /\ pc' = [pc EXCEPT ![started + 1] = "check"]
  /\ UNCHANGED <<main, generated, taken, item, success, raised, storeVars>>

(* create_thread: the first workers may be at work, or done, already. *)
CreateThread ==
  /\ main = "joining"
  /\ started < NumWorkers
  /\ started' = started + 1
  /\ pc' = [pc EXCEPT ![started + 1] = "check"]
  /\ UNCHANGED <<main, generated, taken, item, success, raised, storeVars>>

(* create_thread throws, or join_all() is interrupted: the exception       *)
(* leaves processQueue(), which destroys the objects the workers run in.   *)
Abandon ==
  /\ main = "joining"
  /\ \E w \in Worker : pc[w] # "done"
  /\ main' = "abandoned"
  /\ UNCHANGED <<queueVars, workerVars, storeVars>>

AnySuccess == \E p \in processed : p.success

(* Faulty variants: the workers are not waited for; their exceptions are   *)
(* not asked for.                                                          *)
EvaluateUnjoined ==
  /\ main = "joining"
  /\ started = NumWorkers
  /\ main' = IF raised = {} /\ AnySuccess THEN "evaluated" ELSE "failed"
  /\ UNCHANGED <<queueVars, workerVars, storeVars>>

EvaluateSwallowing ==
  /\ main = "joining"
  /\ started = NumWorkers
  /\ \A w \in Worker : pc[w] = "done"
  /\ main' = IF AnySuccess THEN "evaluated" ELSE "failed"
  /\ UNCHANGED <<queueVars, workerVars, storeVars>>

(* join_all() has returned: the exception of a worker is rethrown, a study *)
(* without a success throws, the others are evaluated.                     *)
Evaluate ==
  /\ main = "joining"
  /\ started = NumWorkers
  /\ \A w \in Worker : pc[w] = "done"
  /\ main' = IF raised = {} /\ AnySuccess THEN "evaluated" ELSE "failed"
  /\ UNCHANGED <<queueVars, workerVars, storeVars>>
-----------------------------------------------------------------------------
(* A worker thread.  One that was left behind goes on, or kills the        *)
(* process (Crash).                                                        *)

Move(w, from, to) ==
  /\ main # "crashed"
  /\ pc[w] = from
  /\ pc' = [pc EXCEPT ![w] = to]
  /\ UNCHANGED <<main, generated, started>>

(* while (!queue_->isEmpty()), without the lock *)
CheckQueue(w) ==
  /\ Move(w, "check", IF isEmpty THEN "done" ELSE "dequeue")
  /\ UNCHANGED <<taken, item, success, raised, storeVars>>

(* Faulty variant: the variant is read before the queue is locked. *)
DequeueUnlocked(w) ==
  /\ ~isEmpty
  /\ \/ item[w] = 0 /\ Move(w, "dequeue", "dequeue")
        /\ item' = [item EXCEPT ![w] = taken + 1]
        /\ UNCHANGED taken
     \/ item[w] # 0 /\ Move(w, "dequeue", "analyse") /\ taken' = taken + 1
        /\ UNCHANGED item
  /\ UNCHANGED <<success, raised, storeVars>>

(* Waits as long as the queue is empty; nobody enqueues any more. *)
Dequeue(w) ==
  /\ ~isEmpty
  /\ Move(w, "dequeue", "analyse")
  /\ taken' = taken + 1
  /\ item' = [item EXCEPT ![w] = taken + 1]
  /\ UNCHANGED <<success, raised, storeVars>>

(* The analysis returns results or throws; either way it is processed. *)
Analyse(w) ==
  /\ Move(w, "analyse", "store")
  /\ \E s \in BOOLEAN : success' = [success EXCEPT ![w] = s]
  /\ UNCHANGED <<taken, item, raised, storeVars>>

(* storeProcessed() is a push_back without the lock.  It reads where the   *)
(* vector ends ...                                                         *)
Storing == {w \in Worker : pc[w] = "storing"}

BeginStore(w) ==
  /\ Move(w, "store", "storing")
  /\ seen' = [seen EXCEPT ![w] = processed]
  /\ clash' = IF Storing = {} THEN clash
              ELSE clash \union {item[v] : v \in Storing \union {w}}
  /\ UNCHANGED <<taken, item, success, raised, processed>>

(* ... and writes behind it.  What others have stored in between is kept,  *)
(* or is overwritten by one that has read an old end.                      *)
Stored(w) == [instance |-> item[w], success |-> success[w]]

LeaveStore(w) ==
  /\ seen' = [seen EXCEPT ![w] = {}]
  /\ item' = [item EXCEPT ![w] = 0]
  /\ success' = [success EXCEPT ![w] = FALSE]
  /\ UNCHANGED <<taken, clash>>

(* Faulty variant: the worker does not come back. *)
EndStoreOnce(w) ==
  /\ Move(w, "storing", "done")
  /\ processed' = processed \union {Stored(w)}
  /\ LeaveStore(w)
  /\ UNCHANGED raised

EndStore(w) ==
  /\ Move(w, "storing", "check")
  /\ \E old \in {processed, seen[w]} : processed' = old \union {Stored(w)}
  /\ LeaveStore(w)
  /\ UNCHANGED raised

WorkerStep(w) ==
  CheckQueue(w) \/ Dequeue(w) \/ Analyse(w) \/ BeginStore(w) \/ EndStore(w)

(* The loop is left by an exception: of dequeue(), of the progress         *)
(* displayer or the warning about a failed analysis, of storeProcessed().  *)
(* It is kept in exception_; the variant in hand is gone.                  *)
Raise(w) ==
  /\ \E at \in {"dequeue", "analyse", "storing"} : Move(w, at, "done")
  /\ raised' = raised \union {w}
  /\ LeaveStore(w)
  /\ UNCHANGED processed

(* Calls of storeProcessed() that overlap may ruin the vector altogether,  *)
(* which kills the process at the latest when it is evaluated; so may a    *)
(* worker that uses the queue of a study that is gone.                     *)
Crash ==
  /\ \/ main = "joining" /\ clash # {}
     \/ main = "abandoned" /\ \E w \in Worker : pc[w] \notin {"unborn", "done"}
  /\ main' = "crashed"
  /\ UNCHANGED <<queueVars, workerVars, storeVars>>

MainStep == Enqueue \/ EnqueueFails \/ SetupDone \/ CreateThread \/ Evaluate

Next ==
  \/ MainStep \/ Abandon \/ Crash
  \/ \E w \in Worker : WorkerStep(w) \/ Raise(w)

Spec == Init /\ [][Next]_vars

(* All threads run, and no analysis takes forever.  Nothing has to throw.  *)
FairSpec == Spec /\ WF_vars(MainStep) /\ \A w \in Worker : WF_vars(WorkerStep(w))
-----------------------------------------------------------------------------
TypeOK ==
  /\ main \in {"setup", "joining", "evaluated", "failed", "abandoned", "crashed"}
  /\ generated \in 0 .. NumInstances
  /\ taken \in 0 .. generated
  /\ started \in 0 .. NumWorkers
  /\ pc \in [Worker -> {"unborn", "check", "dequeue", "analyse", "store",
                        "storing", "done"}]
  /\ item \in [Worker -> 0 .. NumInstances]
  /\ success \in [Worker -> BOOLEAN]
  /\ raised \subseteq Worker
  /\ processed \subseteq Outcome
  /\ seen \in [Worker -> SUBSET Outcome]
  /\ clash \subseteq Instance

(* No variant is analysed twice: neither by two workers, nor again after   *)
(* it was stored, nor is one stored that is still queued (analysis.cpp     *)
(* 187-205, with workers that decide outside the lock).                    *)
ExactlyOnce ==
  /\ \A w, v \in Worker : item[w] # 0 /\ item[w] = item[v] => w = v
  /\ \A p \in processed : p.instance <= taken /\ \A w \in Worker : item[w] # p.instance
  /\ \A p, q \in processed : p.instance = q.instance => p = q

(* The main thread evaluates nothing that a worker still works on or has   *)
(* given up: when a study is evaluated, the whole queue was taken and no   *)
(* variant is in work (parameterstudy.cpp 330-345, with workers that       *)
(* exceptions have ended).                                                 *)
EvaluatedIsTaken ==
  main = "evaluated" => taken = NumInstances /\ \A w \in Worker : item[w] = 0

(* The variants that are missing in an evaluation, without a word, are     *)
(* ones whose storing met another one's: in particular, no failed          *)
(* analysis, no worker that was ended by an exception and no store after   *)
(* the other was over takes one away (analysis.cpp 210-214,                *)
(* analysisthread.cpp 138-175, parameterstudy.cpp 335-340).                *)
LostOnlyByOverlap ==
  main = "evaluated" => Instance \ {p.instance : p \in processed} \subseteq clash

(* Whichever workers wait for a variant another one took, and whichever    *)
(* exceptions end them: while one of them lives, it comes back after each  *)
(* analysis until the queue is empty, and the work is done even in a study *)
(* that hangs (analysisthread.cpp 130-176).  Excepted is a study whose     *)
(* main thread has left.                                                   *)
WorkIsDone ==
  main = "joining" ~> \/ taken = NumInstances /\ \A w \in Worker : item[w] = 0
                      \/ raised = Worker
                      \/ main \in {"abandoned", "crashed"}

(* The study ends.  A worker "grabs an Analysis form the queue, processes  *)
(* it and grabs the next until none is left." (analysisthread.h:101)        *)
StudyEnds == <>(main \notin {"setup", "joining"})
=============================================================================
