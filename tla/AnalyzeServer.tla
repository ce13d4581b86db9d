--------------------------- MODULE AnalyzeServer ---------------------------
(***************************************************************************)
(* The server process "analyze --server": its main thread (analyze.cpp),   *)
(* the solver thread it starts (AnalysisThread) and the request handlers   *)
(* of AnalyzeRESTServer (restapi.cpp), which run in threads of the web     *)
(* server and share, without a lock, the pointer to the solver thread, the *)
(* results and the exception with the main thread.                         *)
(*                                                                         *)
(* A handler is one step, except that what it reads may be in the middle   *)
(* of a change by the main thread: main makes one assignment per step.     *)
(* The queues of progress states are the subject of StateRelay.            *)
(***************************************************************************)

VARIABLES
  main,          \* how far the main thread is (see MainState)
  listening,     \* whether WServer::start() could open the port
  solver,        \* what the solver thread does, or how it ended
  interrupt,     \* boost::thread::interrupt() was called on the solver thread
  solverThread,  \* AnalyzeRESTServer::analysisThread_
  results,       \* AnalyzeRESTServer::results_ is set
  exception,     \* AnalyzeRESTServer::exception_ is set
  stopScheduled, \* the process was asked to stop (WServer::scheduleStop, SIGTERM)
  reply          \* the last response sent, NoReply if there was none

srvVars == <<main, listening, solver, interrupt, solverThread, results,
             exception, stopScheduled, reply>>

MainState ==
  {"off",       \* the process has not been started
   "booting",   \* the process runs, the server is not started
   "reading",   \* server started; reads the input file and the overrides
   "launched",  \* solver_thread.launch() has returned
   "joining",   \* setSolverThread(&solver_thread) done, in join()
   "unwound",   \* join() threw: solver_thread is destroyed, not yet reported
   "failed",    \* setException() done, in waitForShutdown()
   "left",      \* join() returned: solver_thread is destroyed
   "cleared",   \* setSolverThread(nullptr) done
   "serving",   \* setResults() done, in waitForShutdown()
   "exited",    \* the process ended by itself
   "crashed"}   \* the process was killed by a fault

Gone == {"off", "exited", "crashed"}

SolverState ==
  {"none", "preparing", "solving", "done", "failed", "foreign", "interrupted"}

Operation == {"status", "results", "peek", "kill", "exit", "wnow"}

(* A response: the request it answers, the HTTP status and, for a status   *)
(* request, the two flags of its JSON body.                                *)
Reply == [to : Operation, status : {200, 400}, results : BOOLEAN, error : BOOLEAN]
NoReply == [to |-> "none", status |-> 0, results |-> FALSE, error |-> FALSE]
Plain(op, code) ==
  [to |-> op, status |-> code, results |-> FALSE, error |-> FALSE]

Init ==
  /\ main = "off"
  /\ listening = FALSE
  /\ solver = "none"
  /\ interrupt = FALSE
  /\ solverThread = "null"
  /\ results = FALSE
  /\ exception = FALSE
  /\ stopScheduled = FALSE
  /\ reply = NoReply

Listening == listening /\ main \notin Gone
-----------------------------------------------------------------------------
(* The main thread. *)

Boot ==
  /\ main = "off"
  /\ main' = "booting"
  /\ UNCHANGED <<listening, solver, interrupt, solverThread, results,
                 exception, stopScheduled, reply>>

(* If the port cannot be opened, only a message is printed, and the        *)
(* analysis runs without anybody being able to ask for it.                 *)
StartServer ==
  /\ main = "booting"
  /\ main' = "reading"
  /\ listening' \in BOOLEAN
  /\ UNCHANGED <<solver, interrupt, solverThread, results, exception,
                 stopScheduled, reply>>

(* Anything thrown while the input is read leaves the outer try block.     *)
ReadInputFails ==
  /\ main = "reading"
  /\ main' = "exited"
  /\ UNCHANGED <<listening, solver, interrupt, solverThread, results,
                 exception, stopScheduled, reply>>

LaunchSolver ==
  /\ main = "reading"
  /\ main' = "launched"
  /\ solver' = "preparing"
  /\ UNCHANGED <<listening, interrupt, solverThread, results, exception,
                 stopScheduled, reply>>

SetSolverThread ==
  /\ main = "launched"
  /\ main' = "joining"
  /\ solverThread' = "live"
  /\ UNCHANGED <<listening, solver, interrupt, results, exception,
                 stopScheduled, reply>>

(* join() rethrows what the solver thread stored.  Only insight::Exception *)
(* is caught here; the local solver_thread is destroyed on the way, while  *)
(* the server keeps its address.                                           *)
JoinThrows ==
  /\ main = "joining"
  /\ solver = "failed"
  /\ main' = "unwound"
  /\ solverThread' = "dangling"
  /\ UNCHANGED <<listening, solver, interrupt, results, exception,
                 stopScheduled, reply>>

(* Any other exception goes to the catch (...) at the end of main.         *)
JoinThrowsForeign ==
  /\ main = "joining"
  /\ solver = "foreign"
  /\ main' = "exited"
  /\ UNCHANGED <<listening, solver, interrupt, solverThread, results,
                 exception, stopScheduled, reply>>

(* Faulty variant: the error is reported, but the process does not wait    *)
(* for a client to ask for it.                                             *)
SetExceptionNoWait ==
  /\ main = "unwound"
  /\ main' = "exited"
  /\ exception' = TRUE
  /\ UNCHANGED <<listening, solver, interrupt, solverThread, results,
                 stopScheduled, reply>>

SetException ==
  /\ main = "unwound"
  /\ main' = "failed"
  /\ exception' = TRUE
  /\ UNCHANGED <<listening, solver, interrupt, solverThread, results,
                 stopScheduled, reply>>

(* Faulty variant: the server keeps the address of the thread object.      *)
JoinReturnsAttached ==
  /\ main = "joining"
  /\ solver \in {"done", "interrupted"}
  /\ main' = "cleared"
  /\ solverThread' = "dangling"
  /\ UNCHANGED <<listening, solver, interrupt, results, exception,
                 stopScheduled, reply>>

JoinReturns ==
  /\ main = "joining"
  /\ solver \in {"done", "interrupted"}
  /\ main' = "left"
  /\ solverThread' = "dangling"
  /\ UNCHANGED <<listening, solver, interrupt, results, exception,
                 stopScheduled, reply>>

ClearSolverThread ==
  /\ main = "left"
  /\ main' = "cleared"
  /\ solverThread' = "null"
  /\ UNCHANGED <<listening, solver, interrupt, results, exception,
                 stopScheduled, reply>>

(* Faulty variants: results are announced whatever the thread left; the    *)
(* result set stays in the local variable.                                 *)
SetResultsUnchecked ==
  /\ main = "cleared"
  /\ main' = "serving"
  /\ results' = TRUE
  /\ UNCHANGED <<listening, solver, interrupt, solverThread, exception,
                 stopScheduled, reply>>

SetResultsLocally ==
  /\ main = "cleared"
  /\ solver = "done"
  /\ main' = "serving"
  /\ UNCHANGED <<listening, solver, interrupt, solverThread, results,
                 exception, stopScheduled, reply>>

SetResults ==
  /\ main = "cleared"
  /\ solver = "done"
  /\ main' = "serving"
  /\ results' = TRUE
  /\ UNCHANGED <<listening, solver, interrupt, solverThread, exception,
                 stopScheduled, reply>>

(* An interrupted analysis has no results: the program ends.               *)
StopWithoutResults ==
  /\ main = "cleared"
  /\ solver = "interrupted"
  /\ main' = "exited"
  /\ UNCHANGED <<listening, solver, interrupt, solverThread, results,
                 exception, stopScheduled, reply>>

(* A scheduled stop arrives as SIGTERM: waitForShutdown() returns, or the  *)
(* default action ends a process that is not waiting there.                *)
Terminate ==
  /\ stopScheduled
  /\ main \notin Gone
  /\ main' = "exited"
  /\ UNCHANGED <<listening, solver, interrupt, solverThread, results,
                 exception, stopScheduled, reply>>
-----------------------------------------------------------------------------
(* The solver thread. *)

(* The supplemented input data is complete, the analysis object exists.    *)
BeginSolving ==
  /\ main \notin Gone
  /\ solver = "preparing"
  /\ solver' = "solving"
  /\ UNCHANGED <<main, listening, interrupt, solverThread, results,
                 exception, stopScheduled, reply>>

(* The thread function ends: it throws in either phase, is interrupted if  *)
(* that was requested, or returns a result set.                            *)
SolverEnds ==
  /\ main \notin Gone
  /\ \/ solver \in {"preparing", "solving"} /\ solver' \in {"failed", "foreign"}
     \/ solver \in {"preparing", "solving"} /\ interrupt /\ solver' = "interrupted"
     \/ solver = "solving" /\ solver' = "done"
  /\ UNCHANGED <<main, listening, interrupt, solverThread, results,
                 exception, stopScheduled, reply>>
-----------------------------------------------------------------------------
(* The request handlers (AnalyzeRESTServer::handleRequest). *)

(* Faulty variant: the announcement is taken for the delivery. *)
ServeStatusOnce ==
  /\ Listening
  /\ reply' = [to |-> "status", status |-> 200, results |-> results, error |-> exception]
  /\ results' = FALSE
  /\ UNCHANGED <<main, listening, solver, interrupt, solverThread,
                 exception, stopScheduled>>

(* GET /next, /all, /latest *)
ServeStatus ==
  /\ Listening
  /\ reply' = [to |-> "status", status |-> 200, results |-> results, error |-> exception]
  /\ UNCHANGED <<main, listening, solver, interrupt, solverThread, results,
                 exception, stopScheduled>>

(* Faulty variant: the result set is moved out by the first request. *)
ServeResultsOnce ==
  /\ Listening
  /\ reply' = Plain("results", IF results THEN 200 ELSE 400)
  /\ results' = FALSE
  /\ UNCHANGED <<main, listening, solver, interrupt, solverThread,
                 exception, stopScheduled>>

(* GET /results.  The result set is copied out and stays in the server.    *)
ServeResults ==
  /\ Listening
  /\ reply' = Plain("results", IF results THEN 200 ELSE 400)
  /\ UNCHANGED <<main, listening, solver, interrupt, solverThread, results,
                 exception, stopScheduled>>

(* What a handler meets that goes through analysisThread_ to the running   *)
(* Analysis: an object that exists, a null pointer, or memory that is no   *)
(* longer (or, behind a live pointer, no longer for sure) an object.       *)
AnalysisReachable == solverThread = "live" /\ solver \in {"preparing", "solving"}

Crash ==
  /\ main' = "crashed"
  /\ UNCHANGED <<listening, solver, interrupt, solverThread, results,
                 exception, stopScheduled, reply>>

(* POST wnow and wnowandstop, which go through analysisThread_ without     *)
(* looking at it; wnowandstop makes the solver write and finish.           *)
ServeWriteNow ==
  /\ Listening
  /\ \/ /\ solverThread # "null"
        /\ reply' = Plain("wnow", 200)
        /\ UNCHANGED <<main, listening, solver, interrupt, solverThread,
                       results, exception, stopScheduled>>
     \/ ~AnalysisReachable /\ Crash

(* GET /parameters and /exepath: the same dereference.  /parameters falls  *)
(* through to 400 as long as there is no Analysis.                         *)
ServePeek ==
  /\ Listening
  /\ \/ /\ solverThread # "null"
        /\ \E code \in {200, 400} : reply' = Plain("peek", code)
        /\ UNCHANGED <<main, listening, solver, interrupt, solverThread,
                       results, exception, stopScheduled>>
     \/ ~AnalysisReachable /\ Crash

(* Faulty variant: a status code nothing else uses. *)
ServeKillNotFound ==
  /\ Listening
  /\ reply' = Plain("kill", IF solverThread = "null" THEN 404 ELSE 200)
  /\ interrupt' = (interrupt \/ solverThread = "live")
  /\ UNCHANGED <<main, listening, solver, solverThread, results, exception,
                 stopScheduled>>

(* analysisThread_->interrupt() through a pointer that is not null: after  *)
(* the thread object is gone, anything from nothing to a crash.            *)
ServeKill ==
  /\ Listening
  /\ \/ /\ solverThread = "null"
        /\ reply' = Plain("kill", 400)
        /\ UNCHANGED interrupt
     \/ /\ solverThread # "null"
        /\ reply' = Plain("kill", 200)
        /\ interrupt' = (interrupt \/ solverThread = "live")
  /\ UNCHANGED <<main, listening, solver, solverThread, results, exception,
                 stopScheduled>>

(* Faulty variant: the stop is scheduled only while there is a thread. *)
ServeExitIfThread ==
  /\ Listening
  /\ reply' = Plain("exit", 200)
  /\ stopScheduled' = (stopScheduled \/ solverThread = "live")
  /\ interrupt' = (interrupt \/ solverThread = "live")
  /\ UNCHANGED <<main, listening, solver, solverThread, results, exception>>

(* POST exit: interrupt the analysis, if there is one, and stop. *)
ServeExit ==
  /\ Listening
  /\ reply' = Plain("exit", 200)
  /\ stopScheduled' = TRUE
  /\ interrupt' = (interrupt \/ solverThread = "live")
  /\ UNCHANGED <<main, listening, solver, solverThread, results, exception>>

(* POST kill or exit through the address of a destroyed thread object.     *)
InterruptDangling ==
  /\ Listening
  /\ solverThread = "dangling"
  /\ Crash

Serve(op) ==
  \/ op = "status"  /\ ServeStatus
  \/ op = "results" /\ ServeResults
  \/ op = "peek"    /\ ServePeek
  \/ op = "wnow"    /\ ServeWriteNow
  \/ op = "kill"    /\ (ServeKill \/ InterruptDangling)
  \/ op = "exit"    /\ (ServeExit \/ InterruptDangling)
-----------------------------------------------------------------------------
(* The process is killed from outside, or dies of a fault of its own.      *)
Die ==
  /\ main \notin Gone
  /\ Crash

(* SIGTERM from outside, e.g. BackgroundJob::kill(). *)
Sigterm ==
  /\ main \notin Gone
  /\ stopScheduled' = TRUE
  /\ UNCHANGED <<main, listening, solver, interrupt, solverThread, results,
                 exception, reply>>

MainStep ==
  \/ StartServer \/ ReadInputFails \/ LaunchSolver \/ SetSolverThread
  \/ JoinThrows \/ JoinThrowsForeign \/ SetException
  \/ JoinReturns \/ ClearSolverThread \/ SetResults \/ StopWithoutResults
  \/ Terminate

SolverStep == BeginSolving \/ SolverEnds

Next ==
  \/ Boot \/ MainStep \/ SolverStep
  \/ \E op \in Operation : Serve(op)
  \/ Die \/ Sigterm

Spec == Init /\ [][Next]_srvVars

(* The operating system schedules both threads.  Nothing obliges a solver  *)
(* to come to an end: no fairness on SolverEnds.                           *)
FairSpec == Spec /\ WF_srvVars(MainStep)
-----------------------------------------------------------------------------
TypeOK ==
  /\ main \in MainState
  /\ listening \in BOOLEAN
  /\ solver \in SolverState
  /\ interrupt \in BOOLEAN
  /\ solverThread \in {"null", "live", "dangling"}
  /\ results \in BOOLEAN
  /\ exception \in BOOLEAN
  /\ stopScheduled \in BOOLEAN
  /\ reply \in Reply \union {NoReply}

(* What is announced is what happened: a result set only of an analysis    *)
(* that ran to its end, an error only of one that failed (analyze.cpp      *)
(* 482-516: the unset ResultSetPtr of an interrupted thread is the only    *)
(* thing that keeps it from being announced).                              *)
OutcomeIsTruthful ==
  /\ results => solver = "done"
  /\ exception => solver = "failed"

(* As soon as a client can learn that there are results, the address of    *)
(* the destroyed thread object is out of its requests' reach: the exit     *)
(* that every client sends next (remoterun.cpp:432) cannot go through it.  *)
ResultsAfterDetach == results => solverThread = "null"

(* The process does not end by itself while there is an outcome: only on   *)
(* request, or if there never is one.  That holds of the code (513, 563),  *)
(* which waits for the exit request a remote run sends (remoterun.cpp:432) *)
(* - and so the sentence of its help is wrong, that it exits "once the     *)
(* result set is fetched" (analyze.cpp:99): results can be fetched again.  *)
KeepsServing ==
  main = "exited" =>
    stopScheduled \/ solver \in {"none", "foreign", "interrupted"}

(* A client that was told that results are available gets them when it     *)
(* asks next (restapi.cpp 384-396, 441).                                   *)
AnnouncedResultsAreServed ==
  [][reply.results /\ reply'.to = "results" => reply'.status = 200]_srvVars

(* What a client can learn of the job: AnalysisJob.  A process without an  *)
(* open port never goes beyond "started" for it.                           *)
Job == INSTANCE AnalysisJob WITH
  job <- IF main = "off" THEN "absent"
         ELSE IF main \in Gone THEN "gone"
         ELSE IF ~listening THEN "started"
         ELSE IF results THEN "results"
         ELSE IF exception THEN "error"
         ELSE "working",
  stopping <- stopScheduled

(* The server is such a job: its outcome is announced once and stays, and  *)
(* asked to stop it does (the thread structure of analyze.cpp 470-561).    *)
IsAnalysisJob == Job!FairSpec

(* An analysis that ran to its end is announced, if the process lives.     *)
SolvedIsAnnounced == solver = "done" ~> (results \/ main \in Gone)

(* A server that has acknowledged an exit request ends, in whatever state  *)
(* of the analysis the request came (restapi.cpp 503-515).                 *)
ExitEndsServer == reply.to = "exit" ~> main \in Gone
=============================================================================
