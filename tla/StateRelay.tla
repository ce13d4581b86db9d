---------------------------- MODULE StateRelay ----------------------------
(***************************************************************************)
(* What the analysis has to tell its user travels through three queues of  *)
(* AnalyzeRESTServer (analyze/restapi.cpp): the threads of the analysis    *)
(* push, under the lock mx_; the handlers of GET requests pop, without it; *)
(* the workbench asks for everything there is, and shows it in its own     *)
(* progress displayer (toolkit_remote/analyzeclient.cpp).                  *)
(*                                                                         *)
(* std::cout is redirected to the server (streamredirector.cpp): whatever  *)
(* a thread prints comes back as a call of logMessage(), made with the     *)
(* redirector's own lock held.                                             *)
(*                                                                         *)
(* What is relayed is represented by its number: the n-th that is pushed   *)
(* to a queue is n.  A call that prints several lines prints one.          *)
(***************************************************************************)
EXTENDS Naturals, Sequences, FiniteSets

CONSTANTS
  Producers,  \* threads of the analysis
  Handlers,   \* threads of the HTTP server
  Others,     \* what clients other than the workbench ask for
  Made,       \* calls of the displayer the analysis makes
  Faults,     \* whether the workbench may lose an answer
  MaxCalls,   \* bound: calls of the displayer by the analysis
  Nobody      \* no thread

(* "progress" is setActionProgressValue() or setMessageText(), "print" an  *)
(* output to std::cout that is not made on behalf of the others.           *)
Calls == {"update", "progress", "finish", "log", "print"}

ASSUME RelayAssumption ==
  /\ Producers \intersect Handlers = {}
  /\ Nobody \notin Producers \union Handlers
  /\ Others \subseteq {"Next", "All", "Latest"}
  /\ Made \subseteq Calls
  /\ Faults \in BOOLEAN
  /\ MaxCalls \in Nat

(* recordedStates_, recordedProgressStates_ and logLines_. *)
Kinds == {"states", "progressStates", "logLines"}

(* Calls that print, and the queue each call pushes to. *)
Printing == {"update", "progress", "print"}
Target == [update |-> "states", progress |-> "progressStates",
           finish |-> "progressStates", log |-> "logLines"]

VARIABLES
  pc,        \* where each producer is
  call,      \* in which call
  calls,     \* calls made so far
  mutex,     \* who has the redirector's mutex_
  mx,        \* who has the server's mx_
  queue,     \* the queues
  produced,  \* how many were pushed to each
  outcome,   \* results_ and exception_
  memory,    \* "corrupt" after a data race has destroyed a queue
  job,       \* the request each handler works on
  awaits,    \* the handler whose answer the workbench waits for
  asked,     \* produced, when the workbench asked
  replayed,  \* what the workbench has shown of each queue
  told       \* the outcome the workbench knows

producerVars == <<pc, call, calls, mutex, mx>>
clientVars == <<awaits, asked, replayed, told>>
vars == <<producerVars, queue, produced, outcome, memory, job, clientVars>>

Nothing == [k \in Kinds |-> <<>>]
Idle == [phase |-> "idle", selection |-> "All", inside |-> "no",
         taken |-> Nothing, outcome |-> "none"]

Init ==
  /\ pc = [p \in Producers |-> "idle"]
  /\ call = [p \in Producers |-> "log"]
  /\ calls = 0
  /\ mutex = Nobody
  /\ mx = Nobody
  /\ queue = Nothing
  /\ produced = [k \in Kinds |-> 0]
  /\ outcome = "none"
  /\ memory = "intact"
  /\ job = [h \in Handlers |-> Idle]
  /\ awaits = Nobody
  /\ asked = [k \in Kinds |-> 0]
  /\ replayed = Nothing
  /\ told = "none"

-----------------------------------------------------------------------------
(* The threads of the analysis. *)

(* The queue a producer in "line" or "push" is at. *)
At(p) == IF pc[p] \in {"line", "pushLine"} THEN "logLines" ELSE Target[call[p]]

(* Who is between the first and the last instruction of a push or a pop.   *)
Inside(k) ==
  {p \in Producers : pc[p] \in {"pushLine", "push"} /\ At(p) = k}
    \union {h \in Handlers : job[h].inside # "no" /\ job[h].phase = k}

(* The TextProgressDisplayer's part of the call, which prints, comes       *)
(* first; finishActionProgress() prints nothing, and logMessage() has its  *)
(* printing commented out.                                                 *)
Call(p, c) ==
  /\ pc[p] = "idle"
  /\ outcome = "none"
  /\ calls < MaxCalls
  /\ calls' = calls + 1
  /\ call' = [call EXCEPT ![p] = c]
  /\ pc' = [pc EXCEPT ![p] = IF c \in Printing THEN "print" ELSE "lock"]
  /\ UNCHANGED <<mutex, mx, queue, produced>>

(* StreamRedirector takes mutex_ and calls logMessage() for the line. *)
RedirectLine(p) ==
  /\ pc[p] = "print"
  /\ mutex = Nobody
  /\ mutex' = p
  /\ pc' = [pc EXCEPT ![p] = "line"]
  /\ UNCHANGED <<call, calls, mx, queue, produced>>

(* A faulty LockQueues: logMessage() prints its line, too ("locks due to   *)
(* output to cout").                                                       *)
LockQueuesPrinting(p) ==
  /\ pc[p] \in {"line", "lock"}
  /\ pc[p] = "line" => mutex = Nobody
  /\ mx = Nobody
  /\ mx' = p
  /\ pc' = [pc EXCEPT ![p] = IF @ = "line" THEN "pushLine" ELSE "push"]
  /\ UNCHANGED <<call, calls, mutex, queue, produced>>

(* A faulty LockQueues: finishActionProgress() pushes without the lock.    *)
LockQueuesNotToFinish(p) ==
  /\ pc[p] \in {"line", "lock"}
  /\ mx = Nobody \/ (pc[p] = "lock" /\ call[p] = "finish")
  /\ mx' = p
  /\ pc' = [pc EXCEPT ![p] = IF @ = "line" THEN "pushLine" ELSE "push"]
  /\ UNCHANGED <<call, calls, mutex, queue, produced>>

(* mx_.lock(), in logMessage() or in the call itself. *)
LockQueues(p) ==
  /\ pc[p] \in {"line", "lock"}
  /\ mx = Nobody
  /\ mx' = p
  /\ pc' = [pc EXCEPT ![p] = IF @ = "line" THEN "pushLine" ELSE "push"]
  /\ UNCHANGED <<call, calls, mutex, queue, produced>>

(* push_back() and mx_.unlock(). *)
Push(p) ==
  /\ pc[p] \in {"pushLine", "push"}
  /\ queue' = [queue EXCEPT ![At(p)] = Append(@, produced[At(p)] + 1)]
  /\ produced' = [produced EXCEPT ![At(p)] = @ + 1]
  /\ mx' = Nobody
  /\ pc' = [pc EXCEPT ![p] = IF @ = "pushLine" THEN "printed" ELSE "idle"]
  /\ UNCHANGED <<call, calls, mutex>>

(* StreamRedirector releases mutex_; what was printed on behalf of a call  *)
(* is followed by the call's own entry.                                    *)
LineDone(p) ==
  /\ pc[p] = "printed"
  /\ mutex' = Nobody
  /\ pc' = [pc EXCEPT ![p] = IF call[p] = "print" THEN "idle" ELSE "lock"]
  /\ UNCHANGED <<call, calls, mx, queue, produced>>

Proceed(p) ==
  /\ memory = "intact"
  /\ RedirectLine(p) \/ LockQueues(p) \/ Push(p) \/ LineDone(p)
  /\ UNCHANGED <<outcome, memory, job, clientVars>>

Report(p) ==
  /\ memory = "intact"
  /\ \E c \in Made : Call(p, c)
  /\ UNCHANGED <<outcome, memory, job, clientVars>>

(* The analysis has ended, with all its threads, when main() sets its      *)
(* results or its exception.                                               *)
SetOutcome ==
  /\ memory = "intact"
  /\ outcome = "none"
  /\ \A p \in Producers : pc[p] = "idle"
  /\ outcome' \in {"results", "error"}
  /\ UNCHANGED <<producerVars, queue, produced, memory, job, clientVars>>

-----------------------------------------------------------------------------
(* The handlers. *)

(* Which element the handler goes for, if any: of the states one for       *)
(* "/next", for "/latest" the last after the others were discarded, all    *)
(* for "/all"; of the others always all.                                   *)
Takes(h) ==
  LET k == job[h].phase
      sel == IF k = "states" THEN job[h].selection ELSE "All"
  IN  CASE queue[k] = <<>> -> "no"
        [] sel # "All" /\ job[h].taken[k] # <<>> -> "no"
        [] sel = "Latest" /\ Len(queue[k]) > 1 -> "discard"
        [] OTHER -> "take"

After == [states |-> "progressStates", progressStates |-> "logLines",
          logLines |-> "flags"]

(* The loop condition: size() is asked, and the front is next. *)
CheckQueue(h) ==
  /\ job[h].phase \in Kinds
  /\ job[h].inside = "no"
  /\ job' = IF Takes(h) = "no"
            THEN [job EXCEPT ![h].phase = After[job[h].phase]]
            ELSE [job EXCEPT ![h].inside = Takes(h)]
  /\ UNCHANGED queue

(* A faulty TakeFront: the rest of the queue is cleared. *)
TakeFrontAndClear(h) ==
  /\ job[h].inside # "no"
  /\ LET k == job[h].phase IN
       /\ queue[k] # <<>>
       /\ queue' = [queue EXCEPT ![k] = <<>>]
       /\ job' = [job EXCEPT
            ![h].inside = "no",
            ![h].taken[k] = IF job[h].inside = "take"
                            THEN Append(@, Head(queue[k])) ELSE @]

(* A faulty TakeFront: from the wrong end. *)
TakeBack(h) ==
  /\ job[h].inside # "no"
  /\ LET k == job[h].phase
         n == Len(queue[k]) IN
       /\ n > 0
       /\ queue' = [queue EXCEPT ![k] = SubSeq(@, 1, n - 1)]
       /\ job' = [job EXCEPT
            ![h].inside = "no",
            ![h].taken[k] = IF job[h].inside = "take"
                            THEN Append(@, queue[k][n]) ELSE @]

(* front() and pop_front(), in nextStateInfo() and its siblings. *)
TakeFront(h) ==
  /\ job[h].inside # "no"
  /\ LET k == job[h].phase IN
       /\ queue[k] # <<>>
       /\ queue' = [queue EXCEPT ![k] = Tail(@)]
       /\ job' = [job EXCEPT
            ![h].inside = "no",
            ![h].taken[k] = IF job[h].inside = "take"
                            THEN Append(@, Head(queue[k])) ELSE @]

(* results_ and exception_ are looked at after the queues. *)
ReadFlags(h) ==
  /\ job[h].phase = "flags"
  /\ job' = [job EXCEPT ![h].phase = "answered", ![h].outcome = outcome]
  /\ UNCHANGED queue

(* A faulty DropAnswer: of a request that is waited for. *)
DropAwaited(h) ==
  /\ job[h].phase = "answered"
  /\ job' = [job EXCEPT ![h] = Idle]
  /\ UNCHANGED queue

(* An answer nobody waits for. *)
DropAnswer(h) ==
  /\ job[h].phase = "answered"
  /\ awaits # h
  /\ job' = [job EXCEPT ![h] = Idle]
  /\ UNCHANGED queue

Handle(h) ==
  /\ memory = "intact"
  /\ CheckQueue(h) \/ TakeFront(h) \/ ReadFlags(h) \/ DropAnswer(h)
  /\ UNCHANGED <<producerVars, produced, outcome, memory, clientVars>>

(* handleRequest() is entered. *)
Begin(h, selection) ==
  /\ memory = "intact"
  /\ job[h].phase = "idle"
  /\ job' = [job EXCEPT ![h] =
       [Idle EXCEPT !.phase = "states", !.selection = selection]]

(* A request of another client, which keeps what it is answered. *)
ForeignQuery(h) ==
  /\ \E selection \in Others : Begin(h, selection)
  /\ UNCHANGED <<producerVars, queue, produced, outcome, memory, clientVars>>

(* Two threads were inside of the same queue, or one pops from a queue     *)
(* another has emptied: undefined, and one of the outcomes is that nothing *)
(* of the process can be relied on any more.                               *)
Race ==
  /\ memory = "intact"
  /\ \/ \E k \in Kinds : Cardinality(Inside(k)) > 1
     \/ \E h \in Handlers :
          job[h].inside # "no" /\ queue[job[h].phase] = <<>>
  /\ memory' = "corrupt"
  /\ UNCHANGED <<producerVars, queue, produced, outcome, job, clientVars>>

-----------------------------------------------------------------------------
(* The workbench. *)

(* A faulty Query: to "/next", for one state at a time. *)
QueryNext(h) ==
  /\ awaits = Nobody
  /\ told = "none"
  /\ Begin(h, "Next")
  /\ awaits' = h
  /\ asked' = produced
  /\ UNCHANGED <<producerVars, queue, produced, outcome, memory, replayed, told>>

(* QueryStatusAction::start(); the handler begins. *)
Query(h) ==
  /\ awaits = Nobody
  /\ told = "none"
  /\ Begin(h, "All")
  /\ awaits' = h
  /\ asked' = produced
  /\ UNCHANGED <<producerVars, queue, produced, outcome, memory, replayed, told>>

(* QueryStatusAction::handleHttpResponse(): everything in the answer goes  *)
(* to the displayer, then the callback learns of the outcome.              *)
Replay(h) ==
  /\ awaits = h
  /\ job[h].phase = "answered"
  /\ replayed' = [k \in Kinds |-> replayed[k] \o job[h].taken[k]]
  /\ told' = job[h].outcome
  /\ awaits' = Nobody
  /\ job' = [job EXCEPT ![h] = Idle]
  /\ UNCHANGED <<producerVars, queue, produced, outcome, memory, asked>>

(* The connection is lost, times out or is aborted: the handler works on.  *)
LoseAnswer ==
  /\ Faults
  /\ awaits # Nobody
  /\ awaits' = Nobody
  /\ UNCHANGED <<producerVars, queue, produced, outcome, memory, job, asked,
                 replayed, told>>

-----------------------------------------------------------------------------
Next ==
  \/ \E p \in Producers : Report(p) \/ Proceed(p)
  \/ SetOutcome
  \/ \E h \in Handlers : Handle(h) \/ ForeignQuery(h) \/ Query(h) \/ Replay(h)
  \/ Race
  \/ LoseAnswer

Spec == Init /\ [][Next]_vars

(* The threads of the analysis are scheduled, and a lock that is free is   *)
(* obtained: the calls are bounded, so no thread can be overtaken forever. *)
FairSpec == Spec /\ \A p \in Producers : WF_vars(Proceed(p))

-----------------------------------------------------------------------------
Job == [phase : Kinds \union {"idle", "flags", "answered"},
        selection : {"Next", "All", "Latest"},
        inside : {"no", "take", "discard"},
        taken : [Kinds -> Seq(Nat)],
        outcome : {"none", "results", "error"}]

(* Every variable has its type; a handler is inside of a queue only while  *)
(* it empties it, and the workbench never waits for a handler that does    *)
(* not work on an answer.                                                  *)
TypeOK ==
  /\ pc \in [Producers ->
       {"idle", "print", "line", "pushLine", "printed", "lock", "push"}]
  /\ call \in [Producers -> Calls]
  /\ calls \in 0 .. MaxCalls
  /\ mutex \in Producers \union {Nobody}
  /\ mx \in Producers \union {Nobody}
  /\ queue \in [Kinds -> Seq(Nat)]
  /\ produced \in [Kinds -> Nat]
  /\ outcome \in {"none", "results", "error"}
  /\ memory \in {"intact", "corrupt"}
  /\ job \in [Handlers -> Job]
  /\ \A h \in Handlers : job[h].inside # "no" => job[h].phase \in Kinds
  /\ awaits \in Handlers \union {Nobody}
  /\ awaits # Nobody => job[awaits].phase # "idle"
  /\ asked \in [Kinds -> Nat]
  /\ replayed \in [Kinds -> Seq(Nat)]
  /\ told \in {"none", "results", "error"}

(* Of two threads of the analysis that report at the same time, directly   *)
(* or through the redirected std::cout, only one is inside a queue.        *)
ProducersExclude ==
  \A p, q \in Producers :
    {pc[p], pc[q]} \subseteq {"pushLine", "push"} => p = q

(* Without other clients and lost answers nothing vanishes on the way and  *)
(* nothing is shown twice or out of order: what was shown, what is in the  *)
(* answer under way and what is queued make up all that was pushed.        *)
NothingVanishes ==
  \A k \in Kinds :
    replayed[k] \o (IF awaits = Nobody THEN <<>> ELSE job[awaits].taken[k])
      \o queue[k] = [i \in 1 .. produced[k] |-> i]

(* An answer brings everything that had been pushed when it was asked for, *)
(* so that a query sent after the analysis has ended shows its last state. *)
AnswersCatchUp ==
  awaits = Nobody => \A k \in Kinds : Len(replayed[k]) >= asked[k]

(* Whatever is lost and whoever else asks: what the workbench shows is in  *)
(* the order it was pushed in, and nothing is shown a second time.         *)
ReplayedInOrder ==
  \A k \in Kinds : \A i, j \in 1 .. Len(replayed[k]) :
    i < j => replayed[k][i] < replayed[k][j]

(* A thread of the analysis that reports its progress is not held up for   *)
(* good: the two locks and the redirected printing do not deadlock.        *)
CallsReturn ==
  \A p \in Producers :
    pc[p] # "idle" ~> (pc[p] = "idle" \/ memory = "corrupt")

(* "implementations must be safe to be called from different thread!"      *)
(* (base/progressdisplayer.h): a queue is not pushed to while another      *)
(* thread is pushing to it or popping from it.                             *)
SafeFromDifferentThread ==
  \A k \in Kinds : Cardinality(Inside(k)) <= 1

=============================================================================
