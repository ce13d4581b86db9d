------------------------ MODULE AnalyzeServerProofs ------------------------
(***************************************************************************)
(* Theorems about AnalyzeServer: its invariants, that it is the job        *)
(* AnalysisJob describes, and that it never waits in vain.                 *)
(***************************************************************************)
EXTENDS AnalyzeServer, TLAPS

LEMMA PlainReply ==
  ASSUME NEW op \in Operation, NEW code \in {200, 400}
  PROVE  Plain(op, code) \in Reply
BY DEF Plain, Reply

LEMMA ServeTyped ==
  ASSUME NEW op \in Operation, Serve(op), TypeOK
  PROVE  TypeOK'
<1>1. CASE ServeStatus
  <2>1. reply' \in Reply
    <3>1. /\ "status" \in Operation /\ 200 \in {200, 400}
          /\ results \in BOOLEAN /\ exception \in BOOLEAN
      BY DEF TypeOK, Operation
    <3> QED
      BY <1>1, <3>1 DEF ServeStatus, Reply
  <2> QED
    BY <1>1, <2>1 DEF ServeStatus, TypeOK
<1>2. CASE ServeResults
  <2>1. reply' \in Reply
    <3>1. "results" \in Operation
      BY DEF Operation
    <3>2. reply' = Plain("results", 200) \/ reply' = Plain("results", 400)
      BY <1>2 DEF ServeResults
    <3> QED
      BY <3>1, <3>2, PlainReply
  <2> QED
    BY <1>2, <2>1 DEF ServeResults, TypeOK
<1>3. CASE ServePeek
  <2>1. reply' \in Reply \/ Crash
    BY <1>3, PlainReply DEF ServePeek, Operation
  <2> QED
    BY <1>3, <2>1 DEF ServePeek, Crash, TypeOK, MainState
<1>4. CASE ServeWriteNow
  <2>1. reply' \in Reply \/ Crash
    BY <1>4, PlainReply DEF ServeWriteNow, Operation
  <2> QED
    BY <1>4, <2>1 DEF ServeWriteNow, Crash, TypeOK, MainState
<1>5. CASE ServeKill
  <2>1. reply' \in Reply
    BY <1>5, PlainReply DEF ServeKill, Operation
  <2> QED
    BY <1>5, <2>1 DEF ServeKill, TypeOK
<1>6. CASE ServeExit
  <2>1. reply' \in Reply
    BY <1>6, PlainReply DEF ServeExit, Operation
  <2> QED
    BY <1>6, <2>1 DEF ServeExit, TypeOK
<1>7. CASE InterruptDangling
  BY <1>7 DEF InterruptDangling, Crash, TypeOK, MainState
<1> QED
  BY <1>1, <1>2, <1>3, <1>4, <1>5, <1>6, <1>7 DEF Serve

(* Every action is one of main, of the solver, of a handler, or an end.    *)
THEOREM TypeCorrect == Spec => []TypeOK
<1>1. Init => TypeOK
  BY DEF Init, TypeOK, MainState, SolverState, NoReply
<1>2. TypeOK /\ [Next]_srvVars => TypeOK'
  <2> SUFFICES ASSUME TypeOK, [Next]_srvVars PROVE TypeOK'
    OBVIOUS
  <2>1. CASE Boot
    BY <2>1 DEF Boot, TypeOK, MainState
  <2>2. CASE MainStep
    <3> USE DEF TypeOK, MainState, SolverState
    <3>1. CASE StartServer \/ ReadInputFails \/ LaunchSolver \/ SetSolverThread
      BY <3>1 DEF StartServer, ReadInputFails, LaunchSolver, SetSolverThread, Terminate
    <3>2. CASE JoinThrows \/ JoinThrowsForeign \/ SetException \/ JoinReturns
      BY <3>2 DEF JoinThrows, JoinThrowsForeign, SetException, JoinReturns, Terminate
    <3>3. CASE ClearSolverThread \/ SetResults \/ StopWithoutResults
      BY <3>3 DEF ClearSolverThread, SetResults, StopWithoutResults, Terminate
    <3>4. CASE Terminate
      BY <3>4 DEF Terminate
    <3> QED
      BY <2>2, <3>1, <3>2, <3>3, <3>4 DEF MainStep
  <2>3. CASE SolverStep
    BY <2>3 DEF TypeOK, SolverState, SolverStep, BeginSolving, SolverEnds
  <2>4. ASSUME NEW op \in Operation, Serve(op) PROVE TypeOK'
    BY <2>4, ServeTyped
  <2>5. CASE Die \/ Sigterm
    BY <2>5 DEF TypeOK, MainState, Die, Sigterm, Crash
  <2>6. CASE UNCHANGED srvVars
    BY <2>6 DEF TypeOK, srvVars
  <2> QED
    BY <2>1, <2>2, <2>3, <2>4, <2>5, <2>6 DEF Next
<1> QED
  BY <1>1, <1>2, PTL DEF Spec

(* Where the main thread can be for each end of the solver, and what it    *)
(* has announced there.                                                    *)
Progress ==
  /\ main = "off" => ~listening /\ ~stopScheduled
  /\ main = "booting" => ~listening
  /\ main \in {"off", "booting", "reading"} => solver = "none"
  /\ main \in {"unwound", "failed"} => solver = "failed"
  /\ main \in {"left", "cleared"} => solver \in {"done", "interrupted"}
  /\ main = "cleared" => solverThread = "null"
  /\ main \in Gone \/ (results <=> main = "serving")
  /\ main \in Gone \/ (exception <=> main = "failed")
  /\ main = "off" => ~results /\ ~exception

IInv == TypeOK /\ Progress /\ OutcomeIsTruthful /\ ResultsAfterDetach /\ KeepsServing

(* Requests change none of what Progress speaks of, except by asking the   *)
(* process to stop or by ending it.                                        *)
LEMMA ServeKeeps ==
  ASSUME NEW op \in Operation, Serve(op), TypeOK
  PROVE  /\ UNCHANGED <<listening, solver, solverThread, results, exception>>
         /\ main \notin Gone
         /\ \/ main' = main /\ (stopScheduled' \/ stopScheduled' = stopScheduled)
            \/ main' = "crashed" /\ stopScheduled' = stopScheduled
<1>1. CASE ServeStatus
  BY <1>1 DEF ServeStatus, Listening
<1>2. CASE ServeResults
  BY <1>2 DEF ServeResults, Listening
<1>3. CASE ServePeek
  BY <1>3 DEF ServePeek, Crash, Listening
<1>4. CASE ServeWriteNow
  BY <1>4 DEF ServeWriteNow, Crash, Listening
<1>5. CASE ServeKill
  BY <1>5 DEF ServeKill, Listening
<1>6. CASE ServeExit
  BY <1>6 DEF ServeExit, Listening
<1>7. CASE InterruptDangling
  BY <1>7 DEF InterruptDangling, Crash, Listening
<1> QED
  BY <1>1, <1>2, <1>3, <1>4, <1>5, <1>6, <1>7 DEF Serve

LEMMA InvInit == Init => IInv
BY DEF Init, IInv, TypeOK, Progress, OutcomeIsTruthful, ResultsAfterDetach,
  KeepsServing, MainState, SolverState, NoReply, Gone

(* The strengthened invariant is inductive. *)
LEMMA InvNext == IInv /\ TypeOK' /\ [Next]_srvVars => IInv'
<1> SUFFICES ASSUME IInv, TypeOK', [Next]_srvVars PROVE IInv'
  OBVIOUS
<1> USE DEF IInv, TypeOK, Progress, OutcomeIsTruthful, ResultsAfterDetach,
     KeepsServing, Gone, MainState, SolverState
<1>1. CASE Boot
  BY <1>1 DEF Boot
<1>2. CASE MainStep
  <2>1. CASE StartServer \/ ReadInputFails \/ LaunchSolver \/ SetSolverThread
    BY <1>2, <2>1 DEF StartServer, ReadInputFails, LaunchSolver, SetSolverThread
  <2>2. CASE JoinThrows \/ JoinThrowsForeign \/ SetException
    BY <1>2, <2>2 DEF JoinThrows, JoinThrowsForeign, SetException
  <2>3. CASE JoinReturns \/ ClearSolverThread
    BY <1>2, <2>3 DEF JoinReturns, ClearSolverThread
  <2>4. CASE SetResults \/ StopWithoutResults \/ Terminate
    BY <1>2, <2>4 DEF SetResults, StopWithoutResults, Terminate
  <2> QED
    BY <1>2, <2>1, <2>2, <2>3, <2>4 DEF MainStep
<1>3. CASE SolverStep
  BY <1>3 DEF SolverStep, BeginSolving, SolverEnds
<1>4. ASSUME NEW op \in Operation, Serve(op) PROVE IInv'
  BY <1>4, ServeKeeps
<1>5. CASE Die \/ Sigterm
  BY <1>5 DEF Die, Sigterm, Crash
<1>6. CASE UNCHANGED srvVars
  BY <1>6 DEF srvVars
<1> QED
  BY <1>1, <1>2, <1>3, <1>4, <1>5, <1>6 DEF Next

LEMMA Invariance == Spec => []IInv
<1>1. TypeOK /\ [Next]_srvVars /\ IInv /\ TypeOK' => IInv'
  BY InvNext
<1> QED
  BY <1>1, TypeCorrect, InvInit, PTL DEF Spec

(* A result set is announced only of an analysis that ran to its end, an   *)
(* error only of one that failed.                                          *)
THEOREM Truthful == Spec => []OutcomeIsTruthful
<1>1. IInv => OutcomeIsTruthful
  BY DEF IInv
<1> QED
  BY <1>1, Invariance, PTL

(* When results are announced, no request can reach the destroyed thread.  *)
THEOREM Detached == Spec => []ResultsAfterDetach
<1>1. IInv => ResultsAfterDetach
  BY DEF IInv
<1> QED
  BY <1>1, Invariance, PTL

(* The process does not end by itself with an outcome nobody asked for.    *)
THEOREM Serving == Spec => []KeepsServing
<1>1. IInv => KeepsServing
  BY DEF IInv
<1> QED
  BY <1>1, Invariance, PTL

(* A reply that tells of results is one to a status request, and there are *)
(* results from then on.                                                   *)
Told == reply.results => results /\ reply.to = "status"

(* A handler leaves the last reply, or sends one of its own.               *)
LEMMA ServeReplies ==
  ASSUME NEW op \in Operation, Serve(op)
  PROVE  \/ reply' = reply
         \/ reply' = [to |-> "status", status |-> 200, results |-> results, error |-> exception]
         \/ reply' = Plain("results", IF results THEN 200 ELSE 400)
         \/ \E other \in Operation \ {"results"}, code \in {200, 400} :
              reply' = Plain(other, code)
<1> USE DEF Operation
<1>1. CASE ServeStatus \/ ServeResults
  BY <1>1 DEF ServeStatus, ServeResults
<1>2. CASE ServePeek
  BY <1>2 DEF ServePeek, Crash
<1>3. CASE ServeWriteNow
  BY <1>3 DEF ServeWriteNow, Crash
<1>4. CASE ServeKill
  BY <1>4 DEF ServeKill
<1>5. CASE ServeExit
  BY <1>5 DEF ServeExit
<1>6. CASE InterruptDangling
  BY <1>6 DEF InterruptDangling, Crash
<1> QED
  BY <1>1, <1>2, <1>3, <1>4, <1>5, <1>6 DEF Serve

(* Only a handler replies, and nothing takes results back. *)
LEMMA OthersKeepReply ==
  ASSUME Boot \/ MainStep \/ SolverStep \/ Die \/ Sigterm \/ UNCHANGED srvVars
  PROVE  reply' = reply /\ (results => results')
<1>1. CASE MainStep
  BY <1>1 DEF MainStep, StartServer, ReadInputFails, LaunchSolver, SetSolverThread,
    JoinThrows, JoinThrowsForeign, SetException, JoinReturns, ClearSolverThread,
    SetResults, StopWithoutResults, Terminate
<1>2. CASE Boot \/ SolverStep \/ Die \/ Sigterm \/ UNCHANGED srvVars
  BY <1>2 DEF Boot, SolverStep, BeginSolving, SolverEnds, Die, Sigterm, Crash, srvVars
<1> QED
  BY <1>1, <1>2

(* Results a client was told of are there when it asks for them: nothing   *)
(* takes the result set back between a status request and the next.        *)
THEOREM AnnouncedServed == Spec => AnnouncedResultsAreServed
<1> DEFINE Asked == reply.results /\ reply'.to = "results" => reply'.status = 200
<1>1. Init => Told
  BY DEF Init, Told, NoReply
<1>2. TypeOK /\ Told /\ [Next]_srvVars => Told' /\ Asked
  <2> SUFFICES ASSUME TypeOK, Told, [Next]_srvVars PROVE Told' /\ Asked
    OBVIOUS
  <2>1. CASE Boot \/ MainStep \/ SolverStep \/ Die \/ Sigterm \/ UNCHANGED srvVars
    BY <2>1, OthersKeepReply DEF Told
  <2>2. ASSUME NEW op \in Operation, Serve(op) PROVE Told' /\ Asked
    <3>1. results' = results
      BY <2>2, ServeKeeps
    <3>2. CASE reply' = reply
      BY <3>1, <3>2 DEF Told
    <3>3. CASE reply' = [to |-> "status", status |-> 200, results |-> results, error |-> exception]
      BY <3>1, <3>3 DEF Told
    <3>4. CASE reply' = Plain("results", IF results THEN 200 ELSE 400)
      BY <3>1, <3>4 DEF Told, Plain
    <3>5. CASE \E other \in Operation \ {"results"}, code \in {200, 400} :
                 reply' = Plain(other, code)
      BY <3>1, <3>5 DEF Told, Plain
    <3> QED
      BY <2>2, <3>2, <3>3, <3>4, <3>5, ServeReplies
  <2> QED
    BY <2>1, <2>2 DEF Next
<1>3. TypeOK /\ Told /\ [Next]_srvVars => [Asked]_srvVars
  BY <1>2
<1>4. Spec => []Told
  BY <1>1, <1>2, TypeCorrect, PTL DEF Spec
<1> QED
  BY <1>3, <1>4, TypeCorrect, PTL DEF Spec, AnnouncedResultsAreServed

(* Every behaviour of the server is one of the job: each of its steps is a *)
(* step of the job or leaves the job as it is.                             *)
THEOREM Refinement == Spec => Job!Spec
<1>1. Init => Job!Init
  BY DEF Init, Job!Init, Gone
<1>2. IInv /\ IInv' /\ [Next]_srvVars => [Job!Next]_(Job!jobVars)
  <2> SUFFICES ASSUME IInv, IInv', [Next]_srvVars PROVE [Job!Next]_(Job!jobVars)
    OBVIOUS
  <2> USE DEF IInv, TypeOK, Progress, Gone, Job!Next, Job!jobVars, Job!Start,
       Job!Accept, Job!Announce, Job!RequestStop, Job!End, Job!Fail, Job!Alive,
       Job!Answering
  <2>1. CASE Boot
    BY <2>1 DEF Boot
  <2>2. CASE StartServer
    BY <2>2 DEF StartServer
  <2>3. CASE ReadInputFails \/ JoinThrowsForeign \/ StopWithoutResults
    BY <2>3 DEF ReadInputFails, JoinThrowsForeign, StopWithoutResults
  <2>4. CASE LaunchSolver \/ SetSolverThread \/ JoinThrows \/ JoinReturns \/ ClearSolverThread
    BY <2>4 DEF LaunchSolver, SetSolverThread, JoinThrows, JoinReturns, ClearSolverThread
  <2>5. CASE SetException \/ SetResults
    BY <2>5 DEF SetException, SetResults
  <2>6. CASE Terminate
    BY <2>6 DEF Terminate
  <2>7. CASE SolverStep
    BY <2>7 DEF SolverStep, BeginSolving, SolverEnds
  <2>8. ASSUME NEW op \in Operation, Serve(op) PROVE [Job!Next]_(Job!jobVars)
    BY <2>8, ServeKeeps
  <2>9. CASE Die \/ Sigterm
    BY <2>9 DEF Die, Sigterm, Crash
  <2>10. CASE UNCHANGED srvVars
    BY <2>10 DEF srvVars
  <2> QED
    BY <2>1, <2>2, <2>3, <2>4, <2>5, <2>6, <2>7, <2>8, <2>9, <2>10 DEF Next, MainStep
<1> QED
  BY <1>1, <1>2, Invariance, PTL DEF Spec, Job!Spec
-----------------------------------------------------------------------------
(* What the liveness of the server rests on, beside fair scheduling.       *)

LEMMA MainKeepsReply == MainStep => UNCHANGED <<reply, stopScheduled>>
BY DEF MainStep, StartServer, ReadInputFails, LaunchSolver, SetSolverThread, JoinThrows,
  JoinThrowsForeign, SetException, JoinReturns, ClearSolverThread, SetResults,
  StopWithoutResults, Terminate

(* A client that got an answer to exit has stopped the server: nothing a   *)
(* later request or the end of the analysis does takes the stop back, and  *)
(* no other answer looks like this one (restapi.cpp 503-515).              *)
ExitIsHeard == reply.to = "exit" => stopScheduled

THEOREM ExitHeard == Spec => []ExitIsHeard
<1>1. Init => ExitIsHeard
  BY DEF Init, ExitIsHeard, NoReply
<1>2. TypeOK /\ ExitIsHeard /\ [Next]_srvVars => ExitIsHeard'
  <2> SUFFICES ASSUME TypeOK, ExitIsHeard, [Next]_srvVars PROVE ExitIsHeard'
    OBVIOUS
  <2> USE DEF ExitIsHeard
  <2>1. CASE MainStep
    BY <2>1, MainKeepsReply
  <2>2. CASE Boot \/ SolverStep \/ Die \/ Sigterm \/ UNCHANGED srvVars
    BY <2>2 DEF Boot, SolverStep, BeginSolving, SolverEnds, Die, Sigterm, Crash, srvVars
  <2>3. ASSUME NEW op \in Operation, Serve(op) PROVE ExitIsHeard'
    <3>1. CASE ServeStatus \/ ServeResults
      BY <3>1 DEF ServeStatus, ServeResults, Plain
    <3>2. CASE ServePeek
      BY <3>2 DEF ServePeek, Crash, Plain
    <3>3. CASE ServeWriteNow
      BY <3>3 DEF ServeWriteNow, Crash, Plain
    <3>4. CASE ServeKill
      BY <3>4 DEF ServeKill, Plain
    <3>5. CASE ServeExit
      BY <3>5 DEF ServeExit
    <3>6. CASE InterruptDangling
      BY <3>6 DEF InterruptDangling, Crash
    <3> QED
      BY <2>3, <3>1, <3>2, <3>3, <3>4, <3>5, <3>6 DEF Serve
  <2> QED
    BY <2>1, <2>2, <2>3 DEF Next
<1> QED
  BY <1>1, <1>2, TypeCorrect, PTL DEF Spec

(* The guards of MainStep. *)
CanStep ==
  \/ main \in {"booting", "reading", "launched", "unwound", "left"}
  \/ main = "joining" /\ solver \in {"failed", "foreign", "done", "interrupted"}
  \/ main = "cleared" /\ solver \in {"done", "interrupted"}
  \/ stopScheduled /\ main \notin Gone

(* For what the main thread may wait: a solver at work, in join(), or a    *)
(* client that fetches an announced outcome, in waitForShutdown().         *)
WaitsRightly ==
  \/ main = "joining" /\ solver \in {"preparing", "solving"}
  \/ main = "serving" /\ results
  \/ main = "failed" /\ exception

(* The main thread never waits for what cannot come: it is where it may    *)
(* wait, or it has a step to take, whatever the requests have done to the  *)
(* thread it waits for (analyze.cpp 470-561).  In particular an analysis   *)
(* that ran to its end is announced, or main is on the way to do so; that  *)
(* it then goes on is SolvedIsAnnounced.                                   *)
NeverWaitsInVain == main \in Gone \/ CanStep \/ WaitsRightly

THEOREM WaitsForSomething == Spec => []NeverWaitsInVain
<1> DEFINE Launched ==
      main \in {"launched", "joining"} => solver \in SolverState \ {"none"}
<1>1. Init => Launched
  BY DEF Init
<1>2. IInv /\ Launched /\ [Next]_srvVars => Launched'
  <2> SUFFICES ASSUME TypeOK, Launched, [Next]_srvVars PROVE Launched'
    BY DEF IInv
  <2> USE DEF SolverState
  <2>1. CASE MainStep
    BY <2>1 DEF MainStep, StartServer, ReadInputFails, LaunchSolver, SetSolverThread,
      JoinThrows, JoinThrowsForeign, SetException, JoinReturns, ClearSolverThread,
      SetResults, StopWithoutResults, Terminate
  <2>2. CASE Boot \/ SolverStep \/ Die \/ Sigterm \/ UNCHANGED srvVars
    BY <2>2 DEF Boot, SolverStep, BeginSolving, SolverEnds, Die, Sigterm, Crash, srvVars
  <2>3. ASSUME NEW op \in Operation, Serve(op) PROVE Launched'
    BY <2>3, ServeKeeps
  <2> QED
    BY <2>1, <2>2, <2>3 DEF Next
<1>3. IInv /\ Launched => NeverWaitsInVain
  BY DEF IInv, TypeOK, Progress, NeverWaitsInVain, CanStep, WaitsRightly, MainState,
     SolverState, Gone
<1> QED
  BY <1>1, <1>2, <1>3, Invariance, PTL DEF Spec
=============================================================================
