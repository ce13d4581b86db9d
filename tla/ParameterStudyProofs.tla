------------------------ MODULE ParameterStudyProofs ------------------------
(***************************************************************************)
(* Theorems about ParameterStudy, for every number of threads and of       *)
(* variants: no variant is analysed twice, although the workers decide     *)
(* outside the lock, a study that is evaluated has taken all of them, and  *)
(* only overlapping calls of storeProcessed() lose an outcome.             *)
(***************************************************************************)
EXTENDS ParameterStudy, TLAPS

(* Whatever processed_ holds, or a worker has read in it: an outcome that  *)
(* was lost may come back with a worker that still has it in view.         *)
Ever == {p \in Outcome : p \in processed \/ \E w \in Worker : p \in seen[w]}

Unique ==
  /\ \A w, v \in Worker : item[w] # 0 /\ item[w] = item[v] => w = v
  /\ \A p \in Ever : p.instance <= taken /\ \A w \in Worker : item[w] # p.instance
  /\ \A p, q \in Ever : p.instance = q.instance => p = q

(* Only a worker inside its loop body holds a variant. *)
InLoopBody == {"analyse", "store", "storing"}

Holding ==
  /\ \A w \in Worker : item[w] <= taken
  /\ \A w \in Worker : item[w] # 0 => pc[w] \in InLoopBody
  /\ \A w \in Worker : pc[w] \in InLoopBody => item[w] # 0

(* One that left the loop without an exception found everything taken.     *)
Phases ==
  /\ main \notin {"setup", "failed"} => generated = NumInstances
  /\ main = "setup" => started = 0
  /\ main = "evaluated" => raised = {}
  /\ main \in {"evaluated", "failed"} => \A w \in Worker : pc[w] \in {"unborn", "done"}
  /\ \A w \in Worker : w > started => pc[w] = "unborn"
  /\ \A w \in Worker : pc[w] = "done" => w \in raised \/ taken = generated
  /\ taken > 0 => NumWorkers >= 1

IInv == TypeOK /\ Unique /\ Holding /\ Phases /\ EvaluatedIsTaken

LEMMA NumWorkersType ==
  /\ NumWorkers \in Nat
  /\ NumWorkers <= NumInstances
  /\ NumInstances \in Nat
BY StudyAssumption DEF NumWorkers

LEMMA InvInit == Init => IInv
BY NumWorkersType DEF Init, IInv, TypeOK, Unique, Ever, Holding, Phases,
  EvaluatedIsTaken, InLoopBody, Worker, Instance, Outcome

LEMMA UniqueIsOnce == TypeOK /\ Unique => ExactlyOnce
BY DEF TypeOK, Unique, Ever, ExactlyOnce

(* A step that stores nothing: what is seen was there before. *)
LEMMA UniqueKept ==
  ASSUME TypeOK, Unique, taken' = taken, processed' \subseteq processed,
         \A w \in Worker : item'[w] \in {item[w], 0},
         \A w \in Worker : seen'[w] \subseteq seen[w] \union processed
  PROVE  Unique'
<1>1. Ever' \subseteq Ever
  BY DEF Ever
<1>2. \A p \in Ever : p.instance # 0
  BY DEF Ever, Outcome, Instance
<1> QED
  BY <1>1, <1>2 DEF Unique

(* One step for each action of main and of a worker. *)
LEMMA InvNext == IInv /\ [Next]_vars => IInv'
<1> SUFFICES ASSUME IInv, [Next]_vars PROVE IInv'
  OBVIOUS
<1> USE NumWorkersType DEF queueVars, workerVars, storeVars
<1>1. CASE Enqueue
  <2>1. Unique'
    BY <1>1, UniqueKept DEF Enqueue, IInv
  <2> QED
    BY <1>1, <2>1 DEF Enqueue, IInv, TypeOK, Holding, Phases, EvaluatedIsTaken,
       InLoopBody, Worker
<1>2. CASE EnqueueFails \/ SetupDone \/ Abandon \/ Crash
  <2> USE DEF EnqueueFails, SetupDone, Abandon, Crash
  <2>1. Unique'
    BY <1>2, UniqueKept DEF IInv
  <2>2. TypeOK' /\ Holding' /\ EvaluatedIsTaken'
    BY <1>2 DEF IInv, TypeOK, Holding, EvaluatedIsTaken, InLoopBody
  <2>3. Phases'
    <3>1. main = "setup" => \A w \in Worker : pc[w] = "unborn"
      BY DEF IInv, Phases, Worker
    <3> QED
      BY <1>2, <3>1 DEF IInv, Phases
  <2> QED
    BY <2>1, <2>2, <2>3 DEF IInv
<1>3. CASE CreateThread
  <2>1. Unique'
    BY <1>3, UniqueKept DEF CreateThread, IInv
  <2> QED
    BY <1>3, <2>1 DEF CreateThread, IInv, TypeOK, Holding, Phases, EvaluatedIsTaken,
       InLoopBody, Worker
<1>4. CASE Evaluate
  <2>1. main' = "evaluated" => taken = NumInstances
    <3> SUFFICES ASSUME main' = "evaluated" PROVE taken = NumInstances
      OBVIOUS
    <3>1. raised = {} /\ AnySuccess
      BY <1>4 DEF Evaluate
    <3>2. PICK p \in processed : p.success
      BY <3>1 DEF AnySuccess
    <3>3. taken > 0
      <4>1. p \in Ever /\ p.instance \in Instance
        BY <3>2 DEF IInv, TypeOK, Ever, Outcome
      <4> QED
        BY <4>1 DEF IInv, TypeOK, Unique, Instance
    <3>4. 1 \in Worker
      BY <3>3 DEF IInv, Phases, Worker
    <3> QED
      BY <1>4, <3>1, <3>4 DEF Evaluate, IInv, Phases
  <2>2. Unique'
    BY <1>4, UniqueKept DEF Evaluate, IInv
  <2> QED
    BY <1>4, <2>1, <2>2 DEF Evaluate, IInv, TypeOK, Holding, Phases, EvaluatedIsTaken,
       InLoopBody, Worker
<1>5. ASSUME NEW w \in Worker, CheckQueue(w) PROVE IInv'
  <2>1. Unique'
    BY <1>5, UniqueKept DEF CheckQueue, Move, IInv
  <2> QED
    BY <1>5, <2>1 DEF CheckQueue, Move, isEmpty, IInv, TypeOK, Holding, Phases,
       EvaluatedIsTaken, InLoopBody, Worker
<1>6. ASSUME NEW w \in Worker, Dequeue(w) PROVE IInv'
  <2> USE DEF Dequeue, Move, isEmpty
  <2>1. main \in {"joining", "abandoned"} /\ generated = NumInstances
    BY <1>6 DEF IInv, TypeOK, Phases, Worker
  <2>2. taken \in Nat /\ taken + 1 <= generated /\ taken' = taken + 1
    BY <1>6 DEF IInv, TypeOK
  <2>3. TypeOK'
    BY <1>6, <2>1, <2>2 DEF IInv, TypeOK
  <2>4. Unique'
    <3>1. Ever' = Ever
      BY <1>6 DEF Ever
    <3>2. \A v \in Worker : item'[v] = IF v = w THEN taken + 1 ELSE item[v]
      BY <1>6 DEF IInv, TypeOK
    <3>3. \A v \in Worker : item[v] # taken + 1
      BY <2>2 DEF IInv, TypeOK, Holding
    <3>4. \A p \in Ever : p.instance \in Nat
      BY DEF Ever, Outcome, Instance
    <3> QED
      BY <2>2, <3>1, <3>2, <3>3, <3>4 DEF IInv, Unique
  <2>5. Holding'
    BY <1>6, <2>2 DEF IInv, TypeOK, Holding, InLoopBody
  <2>6. Phases' /\ EvaluatedIsTaken'
    BY <1>6, <2>1, <2>2 DEF IInv, TypeOK, Phases, EvaluatedIsTaken, Worker
  <2> QED
    BY <2>3, <2>4, <2>5, <2>6 DEF IInv
<1>7. ASSUME NEW w \in Worker, Analyse(w) PROVE IInv'
  <2>1. Unique'
    BY <1>7, UniqueKept DEF Analyse, Move, IInv
  <2> QED
    BY <1>7, <2>1 DEF Analyse, Move, IInv, TypeOK, Holding, Phases, EvaluatedIsTaken,
       InLoopBody, Worker
<1>8. ASSUME NEW w \in Worker, BeginStore(w) PROVE IInv'
  <2> USE DEF BeginStore, Move
  <2>1. Unique'
    <3>1. \A v \in Worker : seen'[v] \subseteq seen[v] \union processed
      BY <1>8 DEF IInv, TypeOK
    <3> QED
      BY <1>8, <3>1, UniqueKept DEF IInv
  <2>2. clash' \subseteq Instance
    <3>1. \A v \in Storing \union {w} : item[v] \in Instance
      BY <1>8 DEF Storing, IInv, TypeOK, Holding, InLoopBody, Instance
    <3>2. clash' \subseteq clash \union {item[v] : v \in Storing \union {w}}
      BY <1>8
    <3> QED
      BY <3>1, <3>2 DEF IInv, TypeOK
  <2> QED
    BY <1>8, <2>1, <2>2 DEF IInv, TypeOK, Holding, Phases, EvaluatedIsTaken,
       InLoopBody, Worker
<1>9. ASSUME NEW w \in Worker, EndStore(w) PROVE IInv'
  <2> USE DEF EndStore, LeaveStore, Move
  <2>1. item[w] \in Instance /\ item[w] <= taken
    BY <1>9 DEF IInv, TypeOK, Holding, InLoopBody, Instance
  <2>2. Stored(w) \in Outcome /\ Stored(w).instance = item[w]
    BY <2>1 DEF Stored, IInv, TypeOK, Outcome
  <2>3. processed' \subseteq Outcome
    BY <1>9, <2>2 DEF IInv, TypeOK
  <2>4. TypeOK'
    BY <1>9, <2>3 DEF IInv, TypeOK
  <2>5. Unique'
    <3>1. Ever' \subseteq Ever \union {Stored(w)}
      BY <1>9, <2>2 DEF Ever, IInv, TypeOK
    <3>2. \A v \in Worker : item'[v] = IF v = w THEN 0 ELSE item[v]
      BY <1>9 DEF IInv, TypeOK
    <3>3. \A p \in Ever \union {Stored(w)} : p.instance \in Instance
      BY <2>1, <2>2 DEF Ever, Outcome
    <3>4. \A p \in Ever : p.instance # item[w]
      BY DEF IInv, Unique
    <3>5. \A v \in Worker \ {w} : item[v] # item[w]
      BY <2>1 DEF IInv, Unique, Instance
    <3> QED
      BY <1>9, <2>1, <2>2, <3>1, <3>2, <3>3, <3>4, <3>5 DEF IInv, Unique, Instance
  <2>6. Holding'
    BY <1>9 DEF IInv, TypeOK, Holding, InLoopBody
  <2>7. Phases' /\ EvaluatedIsTaken'
    BY <1>9 DEF IInv, TypeOK, Phases, EvaluatedIsTaken, Worker
  <2> QED
    BY <2>4, <2>5, <2>6, <2>7 DEF IInv
<1>10. ASSUME NEW w \in Worker, Raise(w) PROVE IInv'
  <2> USE DEF Raise, LeaveStore, Move
  <2>1. Unique'
    <3>1. \A v \in Worker : seen'[v] \subseteq seen[v] \union processed
      BY <1>10 DEF IInv, TypeOK
    <3>2. \A v \in Worker : item'[v] \in {item[v], 0}
      BY <1>10 DEF IInv, TypeOK
    <3> QED
      BY <1>10, <3>1, <3>2, UniqueKept DEF IInv
  <2>2. TypeOK' /\ Holding'
    BY <1>10 DEF IInv, TypeOK, Holding, InLoopBody
  <2>3. main \notin {"evaluated", "failed"}
    BY <1>10 DEF IInv, Phases
  <2>4. Phases' /\ EvaluatedIsTaken'
    BY <1>10, <2>3 DEF IInv, TypeOK, Phases, EvaluatedIsTaken, Worker
  <2> QED
    BY <2>1, <2>2, <2>4 DEF IInv
<1>11. CASE UNCHANGED vars
  <2>1. Unique'
    BY <1>11, UniqueKept DEF vars, IInv
  <2> QED
    BY <1>11, <2>1 DEF vars, IInv, TypeOK, Holding, Phases, EvaluatedIsTaken,
       InLoopBody, Worker
<1> QED
  BY <1>1, <1>2, <1>3, <1>4, <1>5, <1>6, <1>7, <1>8, <1>9, <1>10, <1>11
     DEF Next, MainStep, WorkerStep

LEMMA Invariance == Spec => []IInv
BY InvInit, InvNext, PTL DEF Spec

(* Every variable keeps its type, the counters their bounds. *)
THEOREM TypeCorrect == Spec => []TypeOK
<1>1. IInv => TypeOK
  BY DEF IInv
<1> QED
  BY <1>1, Invariance, PTL

(* No variant is analysed or stored twice, not even where outcomes are     *)
(* lost, and come back, in overlapping calls of storeProcessed().          *)
THEOREM AnalysedOnce == Spec => []ExactlyOnce
<1>1. IInv => ExactlyOnce
  BY UniqueIsOnce DEF IInv
<1> QED
  BY <1>1, Invariance, PTL

(* A study is evaluated only after its queue was emptied by the workers.   *)
THEOREM EvaluatedLast == Spec => []EvaluatedIsTaken
<1>1. IInv => EvaluatedIsTaken
  BY DEF IInv
<1> QED
  BY <1>1, Invariance, PTL
-----------------------------------------------------------------------------
(* A study that takes for ever has done its work all the same: when every  *)
(* worker has ended, or waits in dequeue() of an empty queue, and one of   *)
(* them was not ended by an exception, no variant is left in the queue or  *)
(* in a worker's hands (analysisthread.cpp 130-176).  WorkIsDone adds to   *)
(* this only that the workers get there.                                   *)
Resting(w) == pc[w] = "done" \/ (pc[w] = "dequeue" /\ isEmpty)

RestOnlyAfterWork ==
  main = "joining" /\ raised # Worker /\ (\A w \in Worker : Resting(w)) =>
    taken = NumInstances /\ \A w \in Worker : item[w] = 0

THEOREM RestAfterWork == Spec => []RestOnlyAfterWork
<1>1. IInv => RestOnlyAfterWork
  <2> SUFFICES ASSUME IInv, main = "joining", raised # Worker, \A w \in Worker : Resting(w)
               PROVE  taken = NumInstances /\ \A w \in Worker : item[w] = 0
    BY DEF RestOnlyAfterWork
  <2>1. PICK w \in Worker : w \notin raised
    BY DEF IInv, TypeOK
  <2>2. taken = generated
    BY <2>1 DEF IInv, Phases, Resting, isEmpty
  <2>3. \A v \in Worker : pc[v] \notin InLoopBody
    BY DEF Resting, InLoopBody
  <2> QED
    BY <2>2, <2>3 DEF IInv, Phases, Holding
<1> QED
  BY <1>1, Invariance, PTL
-----------------------------------------------------------------------------
(* What the missing lock costs.  Workers that store at the same time have  *)
(* met; an outcome whose storing met no other one's is seen by everybody   *)
(* who is storing, so that nobody can write over it; and every variant     *)
(* that left the queue is in a worker's hands, among the processed ones,   *)
(* or accounted for by an overlap or an exception.                         *)
Met == \A v, w \in Worker :
  pc[v] = "storing" /\ pc[w] = "storing" /\ v # w => item[v] \in clash

Seen == \A p \in Ever :
  \/ p.instance \in clash
  \/ p \in processed /\ \A w \in Worker : pc[w] = "storing" => p \in seen[w]

Accounted == \A i \in 1 .. taken :
  \/ \E w \in Worker : item[w] = i
  \/ \E p \in processed : p.instance = i
  \/ i \in clash
  \/ raised # {}

SInv == Met /\ Seen /\ Accounted

LEMMA SInvInit == Init => SInv
BY NumWorkersType DEF Init, SInv, Met, Seen, Ever, Accounted, Worker

LEMMA SInvNext == IInv /\ SInv /\ [Next]_vars => SInv'
<1> SUFFICES ASSUME IInv, SInv, [Next]_vars PROVE SInv'
  OBVIOUS
<1> USE DEF queueVars, workerVars, storeVars
<1>a. TypeOK /\ Met /\ Seen /\ Accounted
  BY DEF IInv, SInv
<1>1. ASSUME UNCHANGED <<taken, item, raised, storeVars>>,
             \A w \in Worker : pc'[w] = "storing" => pc[w] = "storing"
      PROVE  SInv'
  BY <1>1, <1>a DEF SInv, Met, Seen, Ever, Accounted
<1>2. CASE MainStep \/ Abandon \/ Crash
  <2>1. CASE CreateThread
    <3>1. \A w \in Worker : pc'[w] = "storing" => pc[w] = "storing"
      BY <1>a, <2>1 DEF CreateThread, TypeOK
    <3> QED
      BY <1>1, <2>1, <3>1 DEF CreateThread
  <2>2. CASE Enqueue \/ EnqueueFails \/ SetupDone \/ Evaluate \/ Abandon \/ Crash
    BY <1>1, <2>2 DEF Enqueue, EnqueueFails, SetupDone, Evaluate, Abandon, Crash
  <2> QED
    BY <1>2, <2>1, <2>2 DEF MainStep
<1>3. ASSUME NEW w \in Worker, CheckQueue(w) \/ Analyse(w) PROVE SInv'
  <2>1. \A v \in Worker : pc'[v] = "storing" => pc[v] = "storing"
    BY <1>a, <1>3 DEF CheckQueue, Analyse, Move, TypeOK
  <2> QED
    BY <1>1, <1>3, <2>1 DEF CheckQueue, Analyse, Move
<1>4. ASSUME NEW w \in Worker, Dequeue(w) PROVE SInv'
  <2> USE DEF Dequeue, Move
  <2>1. \A v \in Worker : item'[v] = IF v = w THEN taken + 1 ELSE item[v]
    BY <1>4, <1>a DEF TypeOK
  <2>2. /\ \A v \in Worker : pc'[v] = "storing" => pc[v] = "storing" /\ v # w
        /\ item[w] = 0
    BY <1>4, <1>a DEF TypeOK, IInv, Holding, InLoopBody
  <2>3. Met'
    BY <1>4, <1>a, <2>1, <2>2 DEF Met
  <2>4. Seen'
    BY <1>4, <1>a, <2>2 DEF Seen, Ever
  <2>5. Accounted'
    <3>1. taken \in Nat /\ taken' = taken + 1
      BY <1>4, <1>a DEF TypeOK
    <3> SUFFICES ASSUME NEW i \in 1 .. taken'
                 PROVE  \/ \E v \in Worker : item'[v] = i
                        \/ \E p \in processed' : p.instance = i
                        \/ i \in clash'
                        \/ raised' # {}
      BY DEF Accounted
    <3>2. CASE i = taken + 1
      BY <2>1, <3>2
    <3>3. CASE i # taken + 1
      <4>1. i \in 1 .. taken
        BY <3>1, <3>3
      <4>2. \A v \in Worker : item[v] = i => item'[v] = i
        BY <2>1, <2>2, <4>1
      <4> QED
        BY <1>4, <1>a, <4>1, <4>2 DEF Accounted
    <3> QED
      BY <3>2, <3>3
  <2> QED
    BY <2>3, <2>4, <2>5 DEF SInv
<1>5. ASSUME NEW w \in Worker, BeginStore(w) PROVE SInv'
  <2> USE DEF BeginStore, Move
  <2>1. \A v \in Worker : /\ seen'[v] = IF v = w THEN processed ELSE seen[v]
                          /\ pc'[v] = IF v = w THEN "storing" ELSE pc[v]
    BY <1>5, <1>a DEF TypeOK
  <2>2. clash \subseteq clash'
    BY <1>5
  <2>3. Met'
    <3> SUFFICES ASSUME NEW u \in Worker, NEW v \in Worker, u # v,
                        pc'[u] = "storing", pc'[v] = "storing"
                 PROVE  item[u] \in clash'
      BY <1>5 DEF Met
    <3>1. CASE u # w /\ v # w
      BY <1>a, <2>1, <2>2, <3>1 DEF Met
    <3>2. CASE u = w \/ v = w
      <4>1. Storing # {} /\ u \in Storing \union {w}
        BY <2>1, <3>2 DEF Storing
      <4> QED
        BY <1>5, <4>1
    <3> QED
      BY <3>1, <3>2
  <2>4. Seen'
    <3>1. Ever' \subseteq Ever
      BY <1>5, <2>1 DEF Ever
    <3> QED
      BY <1>5, <1>a, <2>1, <2>2, <3>1 DEF Seen
  <2>5. Accounted'
    BY <1>5, <1>a, <2>2 DEF Accounted
  <2> QED
    BY <2>3, <2>4, <2>5 DEF SInv
<1>6. ASSUME NEW w \in Worker, EndStore(w) PROVE SInv'
  <2> USE DEF EndStore, LeaveStore, Move
  <2>1. \A v \in Worker : /\ item'[v] = IF v = w THEN 0 ELSE item[v]
                          /\ seen'[v] = IF v = w THEN {} ELSE seen[v]
                          /\ pc'[v] = IF v = w THEN "check" ELSE pc[v]
    BY <1>6, <1>a DEF TypeOK
  <2>2. PICK old \in {processed, seen[w]} : processed' = old \union {Stored(w)}
    BY <1>6
  <2>3. Stored(w).instance = item[w] /\ pc[w] = "storing"
    BY <1>6 DEF Stored
  <2>4. \A p \in Ever : p.instance \in clash \/ p \in processed'
    BY <1>a, <2>2, <2>3 DEF Seen
  <2>5. Met'
    BY <1>6, <1>a, <2>1 DEF Met
  <2>6. Seen'
    <3> SUFFICES ASSUME NEW p \in Ever', p.instance \notin clash
                 PROVE  /\ p \in processed'
                        /\ \A v \in Worker : pc'[v] = "storing" => p \in seen'[v]
      BY <1>6 DEF Seen
    <3>1. CASE p \in Ever
      BY <1>a, <2>1, <2>4, <3>1 DEF Seen
    <3>2. CASE p = Stored(w)
      <4>1. \A v \in Worker : pc'[v] = "storing" => v # w /\ pc[v] = "storing"
        BY <2>1
      <4>2. \A v \in Worker : pc'[v] # "storing"
        BY <1>a, <2>3, <3>2, <4>1 DEF Met
      <4> QED
        BY <2>2, <3>2, <4>2
    <3>3. p \in Ever \/ p = Stored(w)
      BY <2>1, <2>2 DEF Ever
    <3> QED
      BY <3>1, <3>2, <3>3
  <2>7. Accounted'
    <3> SUFFICES ASSUME NEW i \in 1 .. taken
                 PROVE  \/ \E v \in Worker : item'[v] = i
                        \/ \E p \in processed' : p.instance = i
                        \/ i \in clash
                        \/ raised # {}
      BY <1>6 DEF Accounted
    <3>1. CASE item[w] = i
      BY <2>2, <2>3, <3>1
    <3>2. CASE \E v \in Worker : item[v] = i /\ v # w
      BY <2>1, <3>2
    <3>3. CASE \E p \in processed : p.instance = i
      <4>1. PICK p \in processed : p.instance = i
        BY <3>3
      <4>2. p \in Ever
        BY <1>a, <4>1 DEF Ever, TypeOK
      <4> QED
        BY <2>4, <4>1, <4>2
    <3> QED
      BY <1>a, <3>1, <3>2, <3>3 DEF Accounted
  <2> QED
    BY <2>5, <2>6, <2>7 DEF SInv
<1>7. ASSUME NEW w \in Worker, Raise(w) PROVE SInv'
  <2> USE DEF Raise, LeaveStore, Move
  <2>1. \A v \in Worker : /\ item'[v] = IF v = w THEN 0 ELSE item[v]
                          /\ seen'[v] = IF v = w THEN {} ELSE seen[v]
                          /\ pc'[v] = IF v = w THEN "done" ELSE pc[v]
    BY <1>7, <1>a DEF TypeOK
  <2>2. Met'
    BY <1>7, <1>a, <2>1 DEF Met
  <2>3. Seen'
    <3>1. Ever' \subseteq Ever
      BY <1>7, <2>1 DEF Ever
    <3> QED
      BY <1>7, <1>a, <2>1, <3>1 DEF Seen
  <2>4. Accounted'
    BY <1>7 DEF Accounted
  <2> QED
    BY <2>2, <2>3, <2>4 DEF SInv
<1>8. CASE UNCHANGED vars
  BY <1>1, <1>8 DEF vars
<1> QED
  BY <1>2, <1>3, <1>4, <1>5, <1>6, <1>7, <1>8 DEF Next, WorkerStep

LEMMA StoreInvariance == Spec => [](IInv /\ SInv)
BY Invariance, SInvInit, SInvNext, PTL DEF Spec

LEMMA NothingElseIsMissing == IInv /\ SInv => LostOnlyByOverlap
<1> SUFFICES ASSUME IInv, SInv, main = "evaluated",
                    NEW i \in Instance, \A p \in processed : p.instance # i
             PROVE  i \in clash
  BY DEF LostOnlyByOverlap
<1>1. taken = NumInstances /\ (\A w \in Worker : item[w] = 0) /\ raised = {}
  BY DEF IInv, EvaluatedIsTaken, Phases
<1> QED
  BY <1>1 DEF SInv, Accounted, Instance

(* The outcome of a variant that was stored while no other worker was      *)
(* storing is in the evaluation: one that is missing there has met         *)
(* another one in storeProcessed().                                        *)
THEOREM LostInOverlap == Spec => []LostOnlyByOverlap
BY StoreInvariance, NothingElseIsMissing, PTL

(* In a study in which no calls of storeProcessed() overlapped, every      *)
(* variant is evaluated, once (analysis.cpp 180-214).                      *)
Complete == {p.instance : p \in processed} = Instance

THEOREM CompleteWithoutOverlap ==
  Spec => [](main = "evaluated" /\ clash = {} => Complete)
<1>1. IInv /\ SInv => (main = "evaluated" /\ clash = {} => Complete)
  <2> SUFFICES ASSUME IInv, SInv, main = "evaluated", clash = {} PROVE Complete
    OBVIOUS
  <2>1. Instance \ {p.instance : p \in processed} = {}
    BY NothingElseIsMissing DEF LostOnlyByOverlap
  <2>2. \A p \in processed : p.instance \in Instance
    BY DEF IInv, TypeOK, Outcome
  <2> QED
    BY <2>1, <2>2 DEF Complete
<1> QED
  BY <1>1, StoreInvariance, PTL
-----------------------------------------------------------------------------
(* One worker: it meets no other one, and waits for no variant another one *)
(* took.                                                                   *)
Alone == clash = {} /\ \A w \in Worker : pc[w] = "dequeue" => ~isEmpty

LEMMA OneWorker ==
  ASSUME NumWorkers <= 1, NEW w \in Worker, NEW v \in Worker
  PROVE  w = v
BY NumWorkersType DEF Worker

LEMMA AloneNext ==
  ASSUME NumWorkers <= 1, IInv, Alone, [Next]_vars
  PROVE  Alone'
<1> USE DEF queueVars, workerVars, storeVars
<1>1. CASE UNCHANGED vars
  BY <1>1 DEF vars, Alone, isEmpty
<1>2. CASE MainStep \/ Abandon \/ Crash
  <2> USE DEF MainStep, Enqueue, EnqueueFails, SetupDone, CreateThread, Evaluate,
              Abandon, Crash
  <2>1. clash' = clash /\ taken' = taken
    BY <1>2
  <2>2. \A w \in Worker : pc'[w] = "dequeue" => pc[w] = "dequeue"
    BY <1>2 DEF IInv, TypeOK
  <2>3. (\E w \in Worker : pc[w] = "dequeue") => generated' = generated
    BY <1>2, NumWorkersType DEF IInv, TypeOK, Phases, Worker
  <2> QED
    BY <2>1, <2>2, <2>3 DEF Alone, isEmpty
<1>3. ASSUME NEW w \in Worker, WorkerStep(w) \/ Raise(w) PROVE Alone'
  <2>1. \A v \in Worker : v = w
    BY OneWorker
  <2>2. clash' = {}
    <3>1. CASE BeginStore(w)
      BY <2>1, <3>1 DEF BeginStore, Storing, Move, Alone
    <3>2. CASE CheckQueue(w) \/ Dequeue(w) \/ Analyse(w) \/ EndStore(w) \/ Raise(w)
      BY <3>2 DEF CheckQueue, Dequeue, Analyse, EndStore, Raise, LeaveStore, Alone
    <3> QED
      BY <1>3, <3>1, <3>2 DEF WorkerStep
  <2>3. pc'[w] = "dequeue" => ~isEmpty'
    BY <1>3 DEF WorkerStep, CheckQueue, Dequeue, Analyse, BeginStore, EndStore, Raise,
       LeaveStore, Move, IInv, TypeOK, isEmpty
  <2> QED
    BY <2>1, <2>2, <2>3 DEF Alone
<1> QED
  BY <1>1, <1>2, <1>3 DEF Next

LEMMA AloneInvariance == ASSUME NumWorkers <= 1 PROVE Spec => []Alone
<1>1. Init => Alone
  BY DEF Init, Alone
<1>2. IInv /\ Alone /\ [Next]_vars => Alone'
  BY AloneNext
<1> QED
  BY <1>1, <1>2, Invariance, PTL DEF Spec

(* With one thread a study loses nothing: its queue is used by one thread  *)
(* at a time, and the evaluation holds the outcome of every variant.       *)
THEOREM SingleThreadComplete ==
  ASSUME NumWorkers <= 1
  PROVE  Spec => [](main = "evaluated" => Complete)
<1>1. Alone => clash = {}
  BY DEF Alone
<1> QED
  BY <1>1, AloneInvariance, CompleteWithoutOverlap, PTL

(* With one thread the variant that isEmpty() saw is still there when      *)
(* dequeue() takes the lock: it takes two workers to hang a study, or to   *)
(* lose a variant (analysisthread.cpp 130-136, analysis.cpp 187-205).      *)
THEOREM SingleThreadNeverWaits ==
  ASSUME NumWorkers <= 1
  PROVE  Spec => [](\A w \in Worker : pc[w] = "dequeue" => ~isEmpty)
<1>1. Alone => \A w \in Worker : pc[w] = "dequeue" => ~isEmpty
  BY DEF Alone
<1> QED
  BY <1>1, AloneInvariance, PTL
=============================================================================
