------------------------ MODULE RemoteProgressProofs ------------------------
(***************************************************************************)
(* Theorems about what the liveness of a remote run rests on beside fair   *)
(* scheduling: the chain is somewhere until it has given its verdict, the  *)
(* verdict is in the queue of the form until that has heard it, and a kill *)
(* is carried out.  What a run leaves behind that has failed, and that the *)
(* runs use the server as AnalysisJob says.                                *)
(***************************************************************************)
EXTENDS RemoteOutcomeProofs

(* The steps, grouped by what they leave alone.  A task that is followed   *)
(* by another one at once ...                                              *)
Move ==
  \/ Cancelled \/ RemoteCommandFails \/ ClientBusy \/ UploadInputFile \/ GiveUp
  \/ SetupRemoteEnvironment \/ LaunchRemoteExecutionServer \/ PerformUndo

LEMMA MoveKeeps ==
  ASSUME OInv, Move
  PROVE  /\ run.task # "none"
         /\ run'.task \in {"upload", "launch", "contact", "rollback"}
         /\ SameRun /\ run'.told = run.told /\ run'.verdict = run.verdict
         /\ UNCHANGED <<request, form, events>>
<1>0. run \in Run
  BY DEF OInv, TypeOK
<1>1. ASSUME NEW task \in {"launch", "rollback"}, GoTo(task)
      PROVE  /\ run'.task = task
             /\ SameRun /\ run'.told = run.told /\ run'.verdict = run.verdict
  BY <1>0, <1>1, GoToRun DEF SameRun, Task
<1>2. CASE Cancelled \/ RemoteCommandFails \/ ClientBusy \/ UploadInputFile \/ GiveUp
  BY <1>1, <1>2 DEF Cancelled, CancelledTask, RemoteCommandFails, ClientBusy,
     UploadInputFile, GiveUp, Ready
<1>3. CASE SetupRemoteEnvironment \/ LaunchRemoteExecutionServer \/ PerformUndo
  BY <1>0, <1>3 DEF SetupRemoteEnvironment, LaunchRemoteExecutionServer, PerformUndo,
     Ready, Run, SameRun
<1> QED
  BY <1>2, <1>3 DEF Move

(* ... one that waits for an answer ...                                    *)
Asks == WaitForContact \/ Monitor \/ FetchResults \/ StopRemoteExecutionServer

LEMMA AsksKeep ==
  ASSUME OInv, Asks
  PROVE  /\ run.task # "none" /\ ~run.kill /\ run'.task = "none" /\ ChainWaits'
         /\ SameRun /\ run'.told = run.told /\ run'.verdict = run.verdict
         /\ run'.undo = run.undo
         /\ request'.for \in {"results", "exit"} => run.task \in {"fetch", "exit"}
         /\ UNCHANGED <<job, stopping, dir, form, events>>
<1>1. PICK task \in {"contact", "monitor", "fetch", "exit"},
           purpose \in {"contact", "monitor", "results", "exit"} :
        /\ Ask(task, purpose)
        /\ purpose \in {"results", "exit"} => task \in {"fetch", "exit"}
  BY DEF Asks, WaitForContact, Monitor, FetchResults, StopRemoteExecutionServer
<1>2. /\ run.task = task /\ ~run.kill /\ GoTo("none")
      /\ request' = [for |-> purpose, phase |-> "sent", answer |-> "failure"]
      /\ UNCHANGED <<job, stopping, dir, form, events>>
  BY <1>1 DEF Ask, Ready, Client!Launch
<1>3. /\ run'.task = "none" /\ SameRun /\ run'.told = run.told
      /\ run'.verdict = run.verdict /\ run'.undo = run.undo
  BY <1>2, GoToRun DEF OInv, TypeOK, Task, SameRun
<1>4. request'.for = purpose /\ request'.phase = "sent"
  BY <1>2
<1> QED
  BY <1>1, <1>2, <1>3, <1>4 DEF ChainWaits, Client!isBusy

(* ... and the answer.                                                     *)
Answers == Contacted \/ NotContacted \/ MonitorAnswered \/ ResultsAnswered \/ ExitAnswered

LEMMA AnswersKeep ==
  ASSUME OInv, Answers
  PROVE  /\ run.task = "none" /\ ChainWaits /\ ~Client!isBusy'
         /\ run'.task \in Task \ {"none", "setup", "upload", "launch"}
         /\ SameRun /\ run'.verdict = run.verdict /\ run'.undo = run.undo
         /\ \/ run'.told = run.told
            \/ MonitorAnswered
         /\ run'.task \in {"fetch", "exit", "download", "cleanup"} =>
              \/ Waits({"results", "exit"}) /\ run'.told = run.told
              \/ MonitorAnswered /\ run'.told = "results"
         /\ UNCHANGED <<job, stopping, dir, form, events>>
<1>0. run \in Run
  BY DEF OInv, TypeOK
<1>1. CASE Contacted
  <2>1. GoTo("monitor") /\ UNCHANGED <<job, stopping, dir, form, events>>
    BY <1>1 DEF Contacted
  <2>2. Client!isBusy /\ ~Client!isBusy' /\ request.for = "contact"
    BY <1>1, FinishRequest DEF Contacted
  <2> QED
    BY <1>0, <2>1, <2>2, GoToRun DEF SameRun, Task, ChainWaits, OInv, OnePlace
<1>2. CASE NotContacted
  <2>1. /\ run'.task \in {"contact", "giveup"} /\ SameRun /\ run'.undo = run.undo
        /\ run'.told = run.told /\ run'.verdict = run.verdict
        /\ UNCHANGED <<job, stopping, dir, form, events>>
    BY <1>0, <1>2 DEF NotContacted, Run, SameRun
  <2>2. Client!isBusy /\ ~Client!isBusy' /\ request.for = "contact"
    BY <1>2, FinishRequest DEF NotContacted
  <2> QED
    BY <2>1, <2>2 DEF Task, ChainWaits, OInv, OnePlace
<1>3. CASE MonitorAnswered
  <2>1. PICK answer \in Status \union {"failure"} :
        /\ Client!Finish("monitor", answer)
        /\ run' = [run EXCEPT
             !.task = CASE answer = "error"   -> "rollback"
                        [] answer = "results" -> "fetch"
                        [] OTHER              -> "monitor",
             !.told = IF answer = "failure" THEN @ ELSE answer]
        /\ UNCHANGED <<job, stopping, dir, form, events>>
    BY <1>3 DEF MonitorAnswered
  <2>2. SameRun /\ run'.undo = run.undo /\ run'.verdict = run.verdict
    BY <1>0, <2>1 DEF Run, SameRun
  <2>3. /\ run'.task \in {"rollback", "fetch", "monitor"}
        /\ run'.task = "fetch" => run'.told = "results"
    BY <1>0, <2>1 DEF Run
  <2>4. Client!isBusy /\ ~Client!isBusy' /\ request.for = "monitor"
    BY <2>1, FinishRequest
  <2> QED
    BY <1>3, <2>1, <2>2, <2>3, <2>4 DEF Task, ChainWaits, OInv, OnePlace
<1>4. CASE ResultsAnswered \/ ExitAnswered
  <2>1. /\ run'.task \in {"exit", "download", "cleanup"} /\ SameRun
        /\ run'.undo = run.undo /\ run'.told = run.told /\ run'.verdict = run.verdict
        /\ UNCHANGED <<job, stopping, dir, form, events>>
    BY <1>0, <1>4 DEF ResultsAnswered, ExitAnswered, GoTo, Run, SameRun
  <2>2. /\ Client!isBusy /\ ~Client!isBusy' /\ request.for \in {"results", "exit"}
    BY <1>4, FinishRequest DEF ResultsAnswered, ExitAnswered
  <2> QED
    BY <2>1, <2>2 DEF Waits, Task, ChainWaits, OInv, OnePlace
<1> QED
  BY <1>1, <1>2, <1>3, <1>4 DEF Answers

(* The server and the network answer, or end; they start nothing.          *)
Outside == Network \/ Environment \/ ServerStep

LEMMA OutsideKeeps ==
  ASSUME OInv, Outside
  PROVE  /\ UNCHANGED <<run, dir, form, events>>
         /\ request'.for = request.for /\ (Client!isBusy' <=> Client!isBusy)
         /\ job' # "absent" <=> job # "absent"
         /\ job' \in Server!Alive => job \in Server!Alive
         /\ stopping => stopping'
<1>1. CASE ServeRequest
  <2>1. request.for \in Client!Purpose
    BY <1>1, BusyRequest DEF ServeRequest, OInv, TypeOK, Client!isBusy, Client!Request
  <2>2. PICK answer \in Client!Answer : Client!Answered(answer)
    <3>1. job \in Client!Answer
      BY <1>1 DEF ServeRequest, Server!Answering, Client!Answer
    <3> QED
      BY <1>1, <2>1, <3>1 DEF ServeRequest, Client!Answer, Client!Purpose
  <2>3. request'.for = request.for /\ (Client!isBusy' <=> Client!isBusy)
    BY <2>2, AnsweredRequest DEF OInv, TypeOK, Client!isBusy
  <2>4. UNCHANGED <<run, dir, form, events, job>> /\ (stopping => stopping')
    BY <1>1, <2>1 DEF ServeRequest, Client!Purpose, Server!RequestStop, serverVars
  <2> QED
    BY <2>3, <2>4
<1>2. CASE ConnectionRefused \/ NetworkFault
  <2>1. Client!Lost /\ UNCHANGED <<job, stopping, run, dir, form, events>>
    BY <1>2 DEF ConnectionRefused, NetworkFault
  <2> QED
    BY <2>1, LostRequest DEF OInv, TypeOK, Client!isBusy
<1>3. CASE WriteNowFaults \/ ServerCrash \/ ServerProgress
  <2>1. /\ UNCHANGED <<request, run, dir, form, events, stopping>>
        /\ job \in Server!Alive /\ job' # "absent" /\ job # "absent"
    BY <1>3 DEF WriteNowFaults, ServerCrash, ServerProgress, Server!Fail, Server!Accept,
       Server!Announce, Server!End, Server!Alive, Server!Answering
  <2> QED
    BY <2>1 DEF Client!isBusy
<1> QED
  BY <1>1, <1>2, <1>3 DEF Outside, Network, Environment, ServerStep

(* reset() and Kill leave the chain where it is. *)
LEMMA ResetLeaves ==
  ASSUME OInv, ResetAction
  PROVE  /\ form = "running" /\ form' = "deleting"
         /\ run'.task = run.task /\ run'.number = run.number /\ run'.undo = run.undo
         /\ run'.kill = run.kill /\ run'.told = run.told /\ run'.verdict = run.verdict
         /\ request'.for = request.for /\ (Client!isBusy' <=> Client!isBusy)
BY AbortRequest DEF ResetAction, OInv, TypeOK, Run

LEMMA CancelLeaves ==
  ASSUME OInv, OnCancel
  PROVE  /\ form = "running" /\ form' = "running" /\ run'.kill
         /\ run'.task = run.task /\ run'.number = run.number /\ run'.undo = run.undo
         /\ run'.disconnect = run.disconnect
         /\ run'.told = run.told /\ run'.verdict = run.verdict
         /\ request'.for = request.for /\ (Client!isBusy' <=> Client!isBusy)
         /\ Len(events') = Len(events) + 1 /\ events'[Len(events')] = "cancelled"
         /\ \A i \in 1 .. Len(events) : events'[i] = events[i]
         /\ UNCHANGED <<job, stopping, dir, option>>
BY AbortRequest, AppendedEvent DEF OnCancel, OInv, TypeOK, Run, Event

(* The request of a button comes and goes while the chain is elsewhere. *)
LEMMA ButtonsKeep ==
  ASSUME OInv, Buttons
  PROVE  /\ ~ChainWaits /\ ~ChainWaits'
         /\ Client!isBusy' => request'.for = "wnow"
         /\ UNCHANGED <<job, stopping, run, dir, form, events, option>>
<1>1. CASE OnWnow
  <2>1. ~Client!isBusy /\ request'.for = "wnow"
    BY <1>1, LaunchRequest DEF OnWnow, Client!Purpose
  <2> QED
    BY <1>1, <2>1 DEF OnWnow, ChainWaits
<1>2. CASE WriteNowAnswered
  <2>1. ~Client!isBusy' /\ request.for = "wnow"
    BY <1>2, FinishRequest DEF WriteNowAnswered
  <2> QED
    BY <1>2, <2>1 DEF WriteNowAnswered, ChainWaits
<1> QED
  BY <1>1, <1>2 DEF Buttons

(* A run is created while there is none, and nothing is left of an earlier *)
(* one.                                                                    *)
LEMMA CreateKeeps ==
  ASSUME OInv, OnRunAnalysis \/ ResumeRemoteRun
  PROVE  /\ form = "idle" /\ form' = "running" /\ dir'
         /\ run'.task \in {"setup", "monitor"} /\ run'.verdict = "none"
         /\ run'.told = "nothing" /\ run'.undo = <<>>
         /\ ~run'.kill /\ ~run'.disconnect
         /\ run'.number # 0
         /\ run'.task = "setup" => run.number = 0
         /\ run'.number = 1 => run'.task = "setup"
         /\ ~Client!isBusy' /\ ~DownloadPending'
         /\ UNCHANGED <<job, stopping, request, events, option>>
<1>0. run.number \in Nat
  BY ConstantsAssumption DEF OInv, TypeOK, Run
<1>1. /\ form = "idle" /\ form' = "running" /\ dir' /\ events = <<>>
      /\ UNCHANGED <<job, stopping, request, events, option>>
  BY DEF OnRunAnalysis, InitialiseWorkspace, ResumeRemoteRun, NoRun
<1>2. PICK number \in Nat, task \in {"setup", "monitor"} :
        /\ run' = NewRun(number, task) /\ number # 0
        /\ task = "setup" => run.number = 0
        /\ number = 1 => task = "setup"
  <2>1. CASE OnRunAnalysis
    BY <2>1 DEF OnRunAnalysis
  <2>2. CASE ResumeRemoteRun
    <3>1. /\ run.number + 1 \in Nat /\ run.number + 1 # 0 /\ run.number + 1 # 1
          /\ run' = NewRun(run.number + 1, "monitor")
      BY <1>0, <2>2 DEF ResumeRemoteRun
    <3> QED
      BY <3>1
  <2> QED
    BY <2>1, <2>2
<1>3. /\ run'.task = task /\ run'.number = number /\ run'.verdict = "none"
      /\ run'.told = "nothing" /\ run'.undo = <<>> /\ ~run'.kill /\ ~run'.disconnect
  BY <1>2 DEF NewRun
<1>4. ~Client!isBusy'
  BY <1>1 DEF OInv, IdleIsQuiet, Quiet, Client!isBusy
<1>5. ~DownloadPending'
  BY <1>1 DEF DownloadPending
<1> QED
  BY <1>1, <1>2, <1>3, <1>4, <1>5
-----------------------------------------------------------------------------
(* The chain of a run is somewhere until it has given its verdict, as long *)
(* as the form has not let go of the run: OnePlace says that it is in one  *)
(* place at most, this one that it is in one at least.                     *)
Held == form = "running" => ~run.disconnect

ChainGoesOn ==
  form = "running" /\ run.verdict = "none" =>
    run.task # "none" \/ ChainWaits \/ DownloadPending

(* A verdict is in the queue of the form until its slot was called, which  *)
(* lets go of the run.                                                     *)
VerdictQueued ==
  form = "running" /\ run.verdict # "none" =>
    \E i \in 1 .. Len(events) : events[i] = run.verdict

Progress == Held /\ ChainGoesOn /\ VerdictQueued

LEMMA ProgressChain ==
  ASSUME OInv, Progress, Chain
  PROVE  Progress'
<1>0. run \in Run /\ events \in Seq(Event)
  BY DEF OInv, TypeOK
<1>1. Held'
  <2>1. run'.disconnect = run.disconnect /\ form' \in {form, "crashed"}
    BY <1>0, ChainSameRun DEF SameRun, Chain, Cancelled, CancelledTask, RemoteCommandFails,
       ClientBusy, Disconnected, SetupRemoteEnvironment, UploadInputFile,
       LaunchRemoteExecutionServer, WaitForContact, Contacted, NotContacted, GiveUp,
       Monitor, MonitorAnswered, FetchResults, ResultsAnswered,
       StopRemoteExecutionServer, ExitAnswered, Download, DownloadFails, CleanupRemote,
       PerformUndo, EmitFailed, Ask
  <2> QED
    BY <2>1 DEF Progress, Held
<1>2. ASSUME run.verdict = "none", run'.verdict = "none", run'.task # "none" \/ ChainWaits'
      PROVE  Progress'
  BY <1>1, <1>2 DEF Progress, ChainGoesOn, VerdictQueued
<1>3. CASE Move
  BY <1>2, <1>3, MoveKeeps DEF OInv, Over
<1>4. CASE Asks
  BY <1>2, <1>4, AsksKeep DEF OInv, Over
<1>5. CASE Answers
  BY <1>2, <1>5, AnswersKeep DEF OInv, Over
<1>6. CASE Disconnected
  <2>1. form # "running" /\ form' = form
    BY <1>6 DEF Disconnected, Progress, Held
  <2> QED
    BY <1>1, <2>1 DEF Progress, ChainGoesOn, VerdictQueued
<1>7. CASE Download
  <2>1. /\ Len(events') = Len(events) + 1 /\ events'[Len(events')] = "downloaded"
        /\ run'.verdict = run.verdict /\ run.verdict = "none"
    BY <1>0, <1>7, AppendedEvent, GoToRun DEF Download, Event, Task, OInv, Over
  <2>2. Len(events') \in 1 .. Len(events')
    BY <1>0, <2>1
  <2>3. DownloadPending'
    BY <2>1, <2>2 DEF DownloadPending
  <2> QED
    BY <1>1, <2>1, <2>3 DEF Progress, ChainGoesOn, VerdictQueued
<1>8. CASE DownloadFails
  BY <1>1, <1>8 DEF DownloadFails, Progress, ChainGoesOn, VerdictQueued
<1>9. CASE CleanupRemote \/ EmitFailed
  <2>1. PICK verdict \in {"finished", "failed"} : Conclude(verdict)
    BY <1>9 DEF CleanupRemote, EmitFailed
  <2>2. /\ run'.verdict = verdict /\ verdict # "none"
        /\ Len(events') = Len(events) + 1 /\ events'[Len(events')] = verdict
    BY <1>0, <2>1, ConcludeRun
  <2>3. Len(events') \in 1 .. Len(events')
    BY <1>0, <2>2
  <2> QED
    BY <1>1, <2>2, <2>3 DEF Progress, ChainGoesOn, VerdictQueued
<1> QED
  BY <1>3, <1>4, <1>5, <1>6, <1>7, <1>8, <1>9 DEF Chain, Move, Asks, Answers

(* The slots: those that let go of the run, and the one that goes on.      *)
LEMMA ProgressSlots ==
  ASSUME OInv, Progress, Slots
  PROVE  Progress'
<1>1. ASSUME form' # "running" PROVE Progress'
  BY <1>1 DEF Progress, Held, ChainGoesOn, VerdictQueued
<1>2. CASE Deleted
  BY <1>1, <1>2 DEF Deleted
<1>3. CASE OnResultReady \/ OnAnalysisEnded
  BY <1>1, <1>3 DEF OnResultReady, OnAnalysisEnded, ResetAction
<1>4. CASE OnDownloaded
  <2>1. CASE form = "running" /\ GoTo("cleanup") /\ UNCHANGED <<form, request>>
    <3>1. /\ run'.task = "cleanup" /\ run'.disconnect = run.disconnect
          /\ run'.verdict = run.verdict
      BY <2>1, GoToRun DEF OInv, TypeOK, Task
    <3>2. run.verdict = "none"
      BY <1>4, TakenPending DEF OnDownloaded, OInv, Over
    <3> QED
      BY <2>1, <3>1, <3>2 DEF Progress, Held, ChainGoesOn, VerdictQueued
  <2> QED
    BY <1>1, <1>4, <2>1 DEF OnDownloaded
<1> QED
  BY <1>2, <1>3, <1>4 DEF Slots

LEMMA ProgressNext ==
  ASSUME OInv, Progress, [Next]_vars
  PROVE  Progress'
<1>0. run \in Run /\ events \in Seq(Event)
  BY DEF OInv, TypeOK
<1>1. ASSUME UNCHANGED <<run, form, events>>, ChainWaits => ChainWaits'
      PROVE  Progress'
  BY <1>1 DEF Progress, Held, ChainGoesOn, VerdictQueued, DownloadPending
<1>2. CASE Buttons
  BY <1>1, <1>2, ButtonsKeep
<1>3. CASE Outside
  BY <1>1, <1>3, OutsideKeeps DEF ChainWaits
<1>4. CASE OnRunAnalysis \/ ResumeRemoteRun
  BY <1>4, CreateKeeps DEF Progress, Held, ChainGoesOn, VerdictQueued
<1>5. CASE OnCancel
  <2>1. \A i \in 1 .. Len(events) : i \in 1 .. Len(events') /\ events'[i] = events[i]
    BY <1>0, <1>5, CancelLeaves
  <2>2. DownloadPending => DownloadPending'
    BY <2>1 DEF DownloadPending
  <2>3. VerdictQueued'
    BY <1>5, <2>1, CancelLeaves DEF Progress, VerdictQueued
  <2> QED
    BY <1>5, <2>2, <2>3, CancelLeaves DEF Progress, Held, ChainGoesOn, ChainWaits
<1>6. CASE Disconnect
  BY <1>6 DEF Disconnect, ResetAction, Progress, Held, ChainGoesOn, VerdictQueued
<1>7. CASE UNCHANGED vars
  BY <1>1, <1>7 DEF vars, ChainWaits, Client!isBusy
<1> QED
  BY <1>2, <1>3, <1>4, <1>5, <1>6, <1>7, ProgressChain, ProgressSlots
     DEF Next, Outside, User

LEMMA ProgressAlways == Spec => []Progress
<1>1. Init => Progress
  BY DEF Init, Progress, Held, ChainGoesOn, VerdictQueued
<1> QED
  BY <1>1, ProgressNext, Invariance, PTL DEF Spec

(* While the form shows a run without a verdict, the io thread has a task, *)
(* a callback of the chain is to be run or the completion of a download is *)
(* in the queue, whatever requests are lost, aborted or refused            *)
(* (remoterun.cpp 90-475): no branch of the chain forgets to post the next *)
(* task.  OutcomeReachesForm adds that what is there gets its turn.        *)
THEOREM ChainNeverLost == Spec => []ChainGoesOn
<1>1. Progress => ChainGoesOn
  BY DEF Progress
<1> QED
  BY <1>1, ProgressAlways, PTL

(* The verdict reaches the form: it waits in the queue for as long as the  *)
(* form shows the run, and nothing else takes it from there                *)
(* (remoterun.cpp 68-78, 496-528, analysisform_gui.cpp 148-185).           *)
THEOREM VerdictReachesForm == Spec => []VerdictQueued
<1>1. Progress => VerdictQueued
  BY DEF Progress
<1> QED
  BY <1>1, ProgressAlways, PTL
-----------------------------------------------------------------------------
(* The server of a workspace is started by its first run only. *)
NotLaunched == run.number = 0 \/ Prepared => job = "absent"

LEMMA LaunchedInit == Init => NotLaunched
BY DEF Init, NewRun, Server!Init, NotLaunched, Prepared

LEMMA LaunchedNext ==
  ASSUME OInv, Fresh, NotLaunched, [Next]_vars
  PROVE  NotLaunched'
<1>0. run \in Run
  BY DEF OInv, TypeOK
<1>1. ASSUME UNCHANGED job, run'.number = 0 => run.number = 0,
             run'.task \in {"setup", "upload", "launch"} => Prepared \/ run.number = 0
      PROVE  NotLaunched'
  BY <1>1 DEF NotLaunched, Prepared
<1>2. CASE Move
  <2>1. /\ run'.task \in {"upload", "launch"} => Prepared
        /\ \/ UNCHANGED job
           \/ run'.task \in {"contact", "rollback"}
    BY <1>0, <1>2, GoToRun DEF Move, Cancelled, CancelledTask, RemoteCommandFails,
       ClientBusy, UploadInputFile, GiveUp, SetupRemoteEnvironment,
       LaunchRemoteExecutionServer, PerformUndo, UndoLaunch, UndoSetup, serverVars, Ready,
       Prepared, Task, Run
  <2>2. run.number # 0 /\ run'.number = run.number
    BY <1>2, MoveKeeps DEF OInv, IdleIsQuiet, Quiet, Fresh, SameRun
  <2> QED
    BY <1>1, <1>2, <2>1, <2>2, MoveKeeps DEF NotLaunched, Prepared
<1>3. CASE Asks
  BY <1>1, <1>3, AsksKeep DEF SameRun
<1>4. CASE Answers
  BY <1>1, <1>4, AnswersKeep DEF SameRun
<1>5. CASE Disconnected \/ Download \/ DownloadFails \/ CleanupRemote \/ EmitFailed
  <2>1. /\ run'.number = run.number /\ run'.task \in {"none", run.task} /\ UNCHANGED job
    BY <1>0, <1>5 DEF Disconnected, Download, DownloadFails, CleanupRemote, EmitFailed,
       GoTo, Conclude, Run
  <2> QED
    BY <1>1, <2>1 DEF Prepared
<1>6. CASE Slots
  <2>1. ASSUME ResetAction PROVE run'.number = run.number /\ run'.task = run.task
    BY <2>1, ResetLeaves
  <2>2. ASSUME GoTo("cleanup") PROVE run'.number = run.number /\ run'.task = "cleanup"
    BY <1>0, <2>2, GoToRun DEF Task
  <2>3. UNCHANGED job
    BY <1>6 DEF Slots, Deleted, OnResultReady, OnAnalysisEnded, OnDownloaded, Slot
  <2> QED
    BY <1>1, <1>6, <2>1, <2>2, <2>3 DEF Slots, Deleted, OnResultReady, OnAnalysisEnded,
       OnDownloaded, Prepared
<1>7. CASE OnRunAnalysis \/ ResumeRemoteRun
  BY <1>1, <1>7, CreateKeeps
<1>8. CASE OnCancel
  BY <1>1, <1>8, CancelLeaves DEF Prepared
<1>9. CASE Disconnect
  BY <1>1, <1>9, ResetLeaves DEF Disconnect, Prepared
<1>10. CASE Buttons
  BY <1>1, <1>10, ButtonsKeep DEF Prepared
<1>11. CASE Outside
  BY <1>11, OutsideKeeps DEF NotLaunched, Prepared
<1>12. CASE UNCHANGED vars
  BY <1>1, <1>12 DEF vars, Prepared
<1> QED
  BY <1>2, <1>3, <1>4, <1>5, <1>6, <1>7, <1>8, <1>9, <1>10, <1>11, <1>12
     DEF Next, Chain, Move, Asks, Answers, Outside, User

(* A workspace gets one server: the launch of a run, or of one resumed     *)
(* after it, never meets a server that an earlier task or run has started, *)
(* so that its guard never keeps the chain waiting (remoterun.cpp 90-229). *)
LaunchOnce == run.task = "launch" => job = "absent"

THEOREM LaunchesOnce == Spec => []LaunchOnce
<1>1. NotLaunched => LaunchOnce
  BY DEF NotLaunched, LaunchOnce, Prepared
<1>2. OInv /\ Fresh /\ [Next]_vars => Fresh'
  BY FreshNext
<1>3. OInv /\ Fresh /\ NotLaunched /\ [Next]_vars => NotLaunched'
  BY LaunchedNext
<1> QED
  BY <1>1, <1>2, <1>3, FreshInit, LaunchedInit, Invariance, PTL DEF Spec
-----------------------------------------------------------------------------
(* What the callbacks of each request can take. *)
Takes(purpose) ==
  IF purpose \in {"contact", "monitor"} THEN Status \union {"failure"}
                                        ELSE {"ok", "failure"}

(* Whatever becomes of a request, its callback finds an answer it has a    *)
(* branch for: an outcome of another request never reaches it, although    *)
(* the client is one object with one current transaction for the chain and *)
(* for the buttons (analyzeclient.cpp, remoterun.cpp 245-435).             *)
AnswersFit ==
  request.phase = "answered" =>
    /\ request.for \in Client!Purpose
    /\ request.answer \in Takes(request.for)

LEMMA FitsNext ==
  ASSUME OInv, AnswersFit, [Next]_vars
  PROVE  AnswersFit'
<1>1. CASE UNCHANGED request
  BY <1>1 DEF AnswersFit
<1>2. ASSUME NEW purpose, Client!Launch(purpose) PROVE AnswersFit'
  BY <1>2 DEF Client!Launch, AnswersFit
<1>3. ASSUME NEW purpose, NEW answer, Client!Finish(purpose, answer) PROVE AnswersFit'
  BY <1>3 DEF Client!Finish, Client!Idle, AnswersFit
<1>4. ASSUME Client!Lost PROVE AnswersFit'
  <2>1. request \in Client!Request
    BY <1>4, BusyRequest DEF Client!Lost, OInv, TypeOK
  <2>2. /\ request'.for = request.for /\ request.for \in Client!Purpose
        /\ request'.answer = "failure"
    BY <1>4, <2>1 DEF Client!Lost, Client!Request
  <2> QED
    BY <2>2 DEF AnswersFit, Takes
<1>5. CASE ServeRequest
  <2>1. request \in Client!Request /\ request.for \in Client!Purpose
    BY <1>5, BusyRequest DEF ServeRequest, OInv, TypeOK, Client!isBusy, Client!Request
  <2>2. PICK answer \in Takes(request.for) : Client!Answered(answer)
    <3>1. CASE request.for \in {"contact", "monitor"}
      <4>1. job \in Status
        BY <1>5 DEF ServeRequest, Server!Answering, Status
      <4> QED
        BY <1>5, <3>1, <4>1 DEF ServeRequest, Takes
    <3>2. CASE request.for \in {"results", "exit", "wnow"}
      BY <1>5, <3>2 DEF ServeRequest, Takes
    <3> QED
      BY <2>1, <3>1, <3>2 DEF Client!Purpose
  <2>3. request'.for = request.for /\ request'.answer = answer
    BY <2>1, <2>2 DEF Client!Answered, Client!Request
  <2> QED
    BY <2>1, <2>2, <2>3 DEF AnswersFit
<1>6. CASE Chain
  BY <1>1, <1>2, <1>3, <1>6 DEF Chain, Cancelled, CancelledTask, RemoteCommandFails,
     ClientBusy, Disconnected, SetupRemoteEnvironment, UploadInputFile,
     LaunchRemoteExecutionServer, WaitForContact, Contacted, NotContacted, GiveUp, Monitor,
     MonitorAnswered, FetchResults, ResultsAnswered, StopRemoteExecutionServer,
     ExitAnswered, Download, DownloadFails, CleanupRemote, PerformUndo, EmitFailed, Ask
<1>7. CASE Buttons
  BY <1>2, <1>3, <1>7 DEF Buttons, WriteNowAnswered, OnWnow
<1>8. CASE Slots \/ User
  BY <1>1, <1>4, <1>8 DEF Slots, Deleted, OnResultReady, OnAnalysisEnded, OnDownloaded,
     User, OnRunAnalysis, ResumeRemoteRun, OnCancel, Disconnect, ResetAction, Client!Abort
<1>9. CASE ConnectionRefused \/ Environment \/ ServerStep
  BY <1>1, <1>4, <1>9 DEF ConnectionRefused, Environment, WriteNowFaults, NetworkFault,
     ServerCrash, ServerStep, ServerProgress
<1>10. CASE UNCHANGED vars
  BY <1>1, <1>10 DEF vars
<1> QED
  BY <1>5, <1>6, <1>7, <1>8, <1>9, <1>10 DEF Next, Network

THEOREM AnswersTaken == Spec => []AnswersFit
<1>1. Init => AnswersFit
  BY DEF Init, Client!Init, Client!Idle, AnswersFit
<1> QED
  BY <1>1, FitsNext, Invariance, PTL DEF Spec
-----------------------------------------------------------------------------
(* The runs use the server as AnalysisJob says: none of their steps, be it *)
(* a rollback, an exit request or a second run in the workspace, asks more *)
(* of it than the job does that AnalyzeServer was shown to implement.      *)
LEMMA JobStep ==
  ASSUME OInv, [Next]_vars
  PROVE  [Server!Next]_(Server!jobVars)
<1> USE DEF Server!Next, Server!jobVars
<1>1. CASE RemoteCommandFails \/ LaunchRemoteExecutionServer
  BY <1>1 DEF RemoteCommandFails, LaunchRemoteExecutionServer, serverVars
<1>2. CASE PerformUndo
  <2>1. CASE UndoLaunch
    <3>1. CASE job \in Server!Alive
      BY <2>1, <3>1 DEF UndoLaunch, Server!RequestStop
    <3>2. CASE job \notin Server!Alive
      <4>1. stopping' = stopping /\ job' = job
        BY <2>1, <3>2 DEF UndoLaunch, OInv, TypeOK
      <4> QED
        BY <4>1
    <3> QED
      BY <3>1, <3>2
  <2> QED
    BY <1>2, <2>1 DEF PerformUndo, UndoSetup, serverVars
<1>3. CASE ServeRequest
  <2>1. request.for \in Client!Purpose
    BY <1>3, BusyRequest DEF ServeRequest, OInv, TypeOK, Client!isBusy, Client!Request
  <2> QED
    BY <1>3, <2>1 DEF ServeRequest, Client!Purpose, serverVars
<1>4. CASE Environment \/ ServerStep \/ ConnectionRefused
  BY <1>4 DEF Environment, WriteNowFaults, NetworkFault, ServerCrash, ServerStep,
     ServerProgress, ConnectionRefused
<1>5. CASE Chain /\ ~RemoteCommandFails /\ ~LaunchRemoteExecutionServer /\ ~PerformUndo
  BY <1>5 DEF Chain, Cancelled, CancelledTask, ClientBusy, Disconnected,
     SetupRemoteEnvironment, UploadInputFile, WaitForContact, Contacted, NotContacted,
     GiveUp, Monitor, MonitorAnswered, FetchResults, ResultsAnswered,
     StopRemoteExecutionServer, ExitAnswered, Download, DownloadFails, CleanupRemote,
     EmitFailed, Ask
<1>6. CASE Slots \/ Buttons \/ User
  BY <1>6 DEF Slots, Deleted, OnResultReady, OnAnalysisEnded, OnDownloaded, Slot,
     Buttons, WriteNowAnswered, OnWnow, User, OnRunAnalysis, ResumeRemoteRun, OnCancel,
     Disconnect
<1>7. CASE UNCHANGED vars
  BY <1>7 DEF vars
<1> QED
  BY <1>1, <1>2, <1>3, <1>4, <1>5, <1>6, <1>7 DEF Next, Network

THEOREM UsesJob == Spec => Server!Spec
<1>1. Init => Server!Init
  BY DEF Init
<1> QED
  BY <1>1, JobStep, Invariance, PTL DEF Spec, Server!Spec
-----------------------------------------------------------------------------
(* Without the write-now button, a rollback that the user has not asked    *)
(* for begins only with an error, an outcome, or before anything was known *)
(* of the analysis: what RemoteRunWnow shows needs the button, which takes *)
(* the client's one transaction from the chain (remoterun.cpp 361-400,     *)
(* analysisform_gui.cpp 288).                                              *)
THEOREM OnlyWriteNowMisleads ==
  Spec => [](~option.writeNow /\ ~run.kill => WriteNowKeepsRun)
<1> DEFINE KnowsAlone == option.writeNow \/ Knows
<1>1. KnowsAlone => (~option.writeNow /\ ~run.kill => WriteNowKeepsRun)
  BY DEF Knows, KnowsAt, WriteNowKeepsRun
<1>2. OInv /\ KnowsAlone /\ [Next]_vars => KnowsAlone'
  BY KnowsNext, OptionStays
<1>3. Init => KnowsAlone
  BY KnowsInit
<1> HIDE DEF KnowsAlone
<1> QED
  BY <1>1, <1>2, <1>3, Invariance, PTL DEF Spec
-----------------------------------------------------------------------------
(* Results are fetched, the server is told to exit and the workspace is    *)
(* cleaned up only by a run that was told of results.                      *)
ToldFirst == AfterResults \/ run.verdict = "finished" => run.told = "results"

LEMMA ToldInit == Init => ToldFirst
BY DEF Init, NewRun, Client!Init, Client!Idle, Client!isBusy, ToldFirst, AfterResults,
  Waits, DownloadPending

(* A step that leaves the chain where it is. *)
LEMMA ToldLeft ==
  ASSUME ToldFirst, run'.task = run.task, run'.told = run.told, run'.verdict = run.verdict,
         Client!isBusy' => (Client!isBusy /\ request'.for = request.for)
                           \/ request'.for = "wnow",
         DownloadPending' => DownloadPending
  PROVE  ToldFirst'
BY DEF ToldFirst, AfterResults, Waits

LEMMA ToldChain ==
  ASSUME OInv, ToldFirst, Chain
  PROVE  ToldFirst'
<1>0. run \in Run /\ events \in Seq(Event)
  BY DEF OInv, TypeOK
<1>1. run.task # "none" => ~Waits({"results", "exit"}) /\ ~DownloadPending /\ run.verdict = "none"
  BY DEF OInv, OnePlace, Over, ChainWaits, Waits
<1>2. CASE Move
  BY <1>1, <1>2, MoveKeeps DEF ToldFirst, AfterResults, Waits, DownloadPending,
     Client!isBusy
<1>3. CASE Asks
  <2>1. ~DownloadPending'
    BY <1>1, <1>3, AsksKeep DEF DownloadPending
  <2> QED
    BY <1>1, <1>3, <2>1, AsksKeep DEF ToldFirst, AfterResults, Waits
<1>4. CASE Answers
  <2>1. ~DownloadPending /\ run.verdict = "none"
    BY <1>4, AnswersKeep DEF OInv, OnePlace, Over
  <2>2. ~DownloadPending'
    BY <1>4, <2>1, AnswersKeep DEF DownloadPending
  <2> QED
    BY <1>4, <2>1, <2>2, AnswersKeep DEF ToldFirst, AfterResults, Waits
<1>5. CASE Disconnected
  <2>1. /\ run'.task = "none" /\ run'.told = run.told /\ run'.verdict = run.verdict
        /\ run.task # "none" /\ UNCHANGED <<request, events>>
    BY <1>0, <1>5, GoToRun DEF Disconnected, Ready, Task
  <2> QED
    BY <1>1, <2>1 DEF ToldFirst, AfterResults, Waits, DownloadPending, Client!isBusy
<1>6. CASE Download \/ DownloadFails \/ CleanupRemote
  <2>1. run.task \in {"download", "cleanup"} /\ run'.told = run.told
    BY <1>0, <1>6 DEF Download, DownloadFails, CleanupRemote, GoTo, Conclude, Run
  <2> QED
    BY <2>1 DEF ToldFirst, AfterResults
<1>7. CASE EmitFailed
  <2>1. /\ run'.task = "none" /\ run'.verdict = "failed" /\ events' \in Seq(Event)
        /\ Len(events') = Len(events) + 1 /\ events'[Len(events')] = "failed"
        /\ \A i \in 1 .. Len(events) : events'[i] = events[i]
        /\ run.task # "none" /\ UNCHANGED request
    BY <1>0, <1>7, ConcludeRun DEF EmitFailed
  <2>2. ~DownloadPending'
    BY <1>0, <1>1, <2>1 DEF DownloadPending
  <2> QED
    BY <1>1, <2>1, <2>2 DEF ToldFirst, AfterResults, Waits, Client!isBusy
<1> QED
  BY <1>2, <1>3, <1>4, <1>5, <1>6, <1>7 DEF Chain, Move, Asks, Answers

LEMMA ToldNext ==
  ASSUME OInv, ToldFirst, [Next]_vars
  PROVE  ToldFirst'
<1>0. run \in Run /\ events \in Seq(Event)
  BY DEF OInv, TypeOK
<1>1. CASE Slots
  <2>1. ASSUME NEW event, Slot(event) PROVE DownloadPending' => DownloadPending
    BY <2>1, TakenPending
  <2>2. CASE Deleted
    BY <2>2, ToldLeft DEF Deleted, DownloadPending, Client!isBusy
  <2>3. CASE OnResultReady \/ OnAnalysisEnded
    <3>1. DownloadPending' => DownloadPending
      BY <2>1, <2>3 DEF OnResultReady, OnAnalysisEnded
    <3>2. CASE ResetAction
      BY <3>1, <3>2, ResetLeaves, ToldLeft
    <3>3. CASE UNCHANGED <<run, request>>
      BY <3>1, <3>3, ToldLeft DEF Client!isBusy
    <3> QED
      BY <2>3, <3>2, <3>3 DEF OnResultReady, OnAnalysisEnded
  <2>4. CASE OnDownloaded
    <3>1. DownloadPending /\ (DownloadPending' => DownloadPending)
      BY <2>4, TakenPending DEF OnDownloaded
    <3>2. run'.told = run.told
      BY <1>0, <2>4, GoToRun DEF OnDownloaded, Task
    <3> QED
      BY <3>1, <3>2 DEF ToldFirst, AfterResults
  <2> QED
    BY <1>1, <2>2, <2>3, <2>4 DEF Slots
<1>2. CASE OnRunAnalysis \/ ResumeRemoteRun
  BY <1>2, CreateKeeps DEF ToldFirst, AfterResults, Waits
<1>3. CASE OnCancel
  <2>1. DownloadPending' => DownloadPending
    BY <1>0, <1>3, CancelLeaves DEF DownloadPending
  <2> QED
    BY <1>3, <2>1, CancelLeaves, ToldLeft
<1>4. CASE Disconnect
  BY <1>4, ResetLeaves, ToldLeft DEF Disconnect, DownloadPending
<1>5. CASE Buttons
  BY <1>5, ButtonsKeep, ToldLeft DEF DownloadPending
<1>6. CASE Outside
  BY <1>6, OutsideKeeps, ToldLeft DEF DownloadPending
<1>7. CASE UNCHANGED vars
  BY <1>7, ToldLeft DEF vars, DownloadPending, Client!isBusy
<1> QED
  BY <1>1, <1>2, <1>3, <1>4, <1>5, <1>6, <1>7, ToldChain DEF Next, Outside, User
-----------------------------------------------------------------------------
(* The undo list names what the first run has still to undo: its server,   *)
(* while that is at work and not told to stop, and its temporary           *)
(* directory, while that is there.                                         *)
ServerToUndo ==
  run.number = 1 /\ job \in Server!Alive /\ ~stopping => run.undo = <<"proc", "dir">>

DirToUndo ==
  run.number = 1 /\ option.temporary /\ job # "absent" /\ dir => run.undo # <<>>

AllUndone == run.verdict = "failed" => run.undo = <<>>

Undoes == ServerToUndo /\ DirToUndo /\ AllUndone

LEMMA UndoesInit == Init => Undoes
BY DEF Init, NewRun, Server!Init, Server!Alive, Server!Answering, Undoes, ServerToUndo,
  DirToUndo, AllUndone

(* A step that undoes nothing. *)
LEMMA UndoesLeft ==
  ASSUME Undoes, option' = option,
         run'.number = run.number, run'.undo = run.undo,
         run'.verdict = run.verdict \/ run'.verdict = "finished" \/ run.undo = <<>>,
         job' \in Server!Alive => job \in Server!Alive,
         job' # "absent" => job # "absent",
         stopping => stopping', dir' => dir
  PROVE  Undoes'
BY DEF Undoes, ServerToUndo, DirToUndo, AllUndone

LEMMA UndoesMove ==
  ASSUME OInv, WInv, Undoes, RemoteCommandsWork, option' = option, Move
  PROVE  Undoes'
<1>0. run \in Run /\ run.verdict = "none" /\ run'.verdict = "none" /\ run'.number = run.number
  BY MoveKeeps DEF OInv, TypeOK, Over, SameRun
<1>1. CASE Cancelled \/ ClientBusy \/ UploadInputFile \/ GiveUp
  <2>1. run'.undo = run.undo /\ UNCHANGED <<job, stopping, dir>>
    BY <1>0, <1>1, GoToRun DEF Cancelled, CancelledTask, ClientBusy, UploadInputFile,
       GiveUp, Task
  <2> QED
    BY <1>0, <2>1, UndoesLeft
<1>2. ~RemoteCommandFails
  BY DEF RemoteCommandFails, RemoteCommandsWork
<1>3. CASE SetupRemoteEnvironment
  <2>1. job = "absent" /\ job' = "absent"
    BY <1>3 DEF SetupRemoteEnvironment, Ready, WInv, NotYetLaunched, Prepared
  <2> QED
    BY <1>0, <2>1 DEF Undoes, ServerToUndo, DirToUndo, AllUndone, Server!Alive,
       Server!Answering
<1>4. CASE LaunchRemoteExecutionServer
  <2>1. run.undo = <<"dir">> /\ run'.undo = <<"proc">> \o run.undo
    BY <1>0, <1>4 DEF LaunchRemoteExecutionServer, Ready, WInv, UndoList, Run
  <2>2. run'.undo = <<"proc", "dir">>
    BY <2>1, UndoLists
  <2> QED
    BY <1>0, <2>2, UndoLists DEF Undoes, ServerToUndo, DirToUndo, AllUndone
<1>5. CASE PerformUndo
  <2>1. run.undo # <<>> /\ run'.undo = Tail(run.undo)
    BY <1>0, <1>5 DEF PerformUndo, Run
  <2>2. CASE run.undo = <<"proc", "dir">>
    <3>1. run'.undo = <<"dir">> /\ Head(run.undo) = "proc"
      BY <2>1, <2>2
    <3>2. UndoLaunch
      BY <1>5, <3>1 DEF PerformUndo, RemoteCommandsWork
    <3>3. (job' \in Server!Alive => stopping') /\ UNCHANGED <<job, dir>>
      BY <3>2 DEF UndoLaunch
    <3> QED
      BY <1>0, <3>1, <3>3, UndoLists DEF Undoes, ServerToUndo, DirToUndo, AllUndone
  <2>3. CASE run.undo = <<"dir">>
    <3>1. run'.undo = <<>> /\ Head(run.undo) = "dir"
      BY <2>1, <2>3
    <3>2. UndoSetup
      BY <1>5, <3>1 DEF PerformUndo, RemoteCommandsWork
    <3>3. (option.temporary => ~dir') /\ UNCHANGED <<job, stopping>>
      BY <3>2 DEF UndoSetup, CleanupWorkspace, serverVars
    <3>4. ServerToUndo'
      BY <1>0, <2>3, <3>3, UndoLists DEF Undoes, ServerToUndo
    <3> QED
      BY <1>0, <3>3, <3>4 DEF Undoes, DirToUndo, AllUndone
  <2> QED
    BY <2>1, <2>2, <2>3 DEF WInv, UndoList
<1> QED
  BY <1>1, <1>2, <1>3, <1>4, <1>5 DEF Move

LEMMA UndoesNext ==
  ASSUME OInv, WInv, Undoes, RemoteCommandsWork, [Next]_vars
  PROVE  Undoes'
<1>0. run \in Run /\ option' = option
  BY OptionStays DEF OInv, TypeOK
<1>1. ASSUME run'.number = run.number, run'.undo = run.undo, run'.verdict = run.verdict,
             UNCHANGED <<job, stopping, dir>>
      PROVE  Undoes'
  BY <1>0, <1>1, UndoesLeft
<1>2. CASE Asks
  BY <1>1, <1>2, AsksKeep DEF SameRun
<1>3. CASE Answers
  BY <1>1, <1>3, AnswersKeep DEF SameRun
<1>4. CASE Disconnected \/ Download \/ DownloadFails
  <2>1. /\ run'.number = run.number /\ run'.undo = run.undo /\ run'.verdict = run.verdict
        /\ UNCHANGED <<job, stopping, dir>>
    BY <1>0, <1>4, GoToRun DEF Disconnected, Download, DownloadFails, Task
  <2> QED
    BY <1>1, <2>1
<1>5. CASE CleanupRemote \/ EmitFailed
  <2>1. /\ run'.number = run.number /\ run'.undo = run.undo
        /\ CleanupRemote => run'.verdict = "finished"
    BY <1>0, <1>5 DEF CleanupRemote, EmitFailed, Conclude, Run
  <2>2. UNCHANGED <<job, stopping>> /\ (dir' => dir)
    <3>1. UNCHANGED <<job, stopping>>
      BY <1>5 DEF CleanupRemote, EmitFailed
    <3>2. CASE CleanupRemote
      <4>1. dir' = (dir /\ ~option.temporary)
        BY <3>2 DEF CleanupRemote, CleanupWorkspace
      <4>2. dir' => dir
        BY <4>1
      <4> QED
        BY <3>1, <4>2
    <3>3. CASE EmitFailed
      BY <3>1, <3>3 DEF EmitFailed
    <3> QED
      BY <1>5, <3>2, <3>3
  <2>3. EmitFailed => run.undo = <<>>
    BY DEF EmitFailed
  <2> QED
    BY <1>0, <1>5, <2>1, <2>2, <2>3, UndoesLeft
<1>6. CASE Slots
  <2>1. UNCHANGED <<job, stopping, dir>>
    BY <1>6 DEF Slots, Deleted, OnResultReady, OnAnalysisEnded, OnDownloaded, Slot
  <2>2. ASSUME GoTo("cleanup")
        PROVE  run'.number = run.number /\ run'.undo = run.undo /\ run'.verdict = run.verdict
    BY <1>0, <2>2, GoToRun DEF Task
  <2> QED
    BY <1>1, <1>6, <2>1, <2>2, ResetLeaves DEF Slots, Deleted, OnResultReady,
       OnAnalysisEnded, OnDownloaded
<1>7. CASE OnRunAnalysis \/ ResumeRemoteRun
  <2>1. run'.number = 1 => job' = "absent"
    BY <1>7, CreateKeeps DEF WInv, NotYetLaunched
  <2> QED
    BY <1>7, <2>1, CreateKeeps DEF Undoes, ServerToUndo, DirToUndo, AllUndone,
       Server!Alive, Server!Answering
<1>8. CASE OnCancel
  BY <1>1, <1>8, CancelLeaves
<1>9. CASE Disconnect
  BY <1>1, <1>9, ResetLeaves DEF Disconnect
<1>10. CASE Buttons
  BY <1>1, <1>10, ButtonsKeep
<1>11. CASE Outside
  BY <1>0, <1>11, OutsideKeeps, UndoesLeft
<1>12. CASE UNCHANGED vars
  BY <1>1, <1>12 DEF vars
<1> QED
  BY <1>0, <1>2, <1>3, <1>4, <1>5, <1>6, <1>7, <1>8, <1>9, <1>10, <1>11, <1>12, UndoesMove
     DEF Next, Chain, Move, Asks, Answers, Outside, User
-----------------------------------------------------------------------------
(* Kill is carried out: as long as the server of the killed first run is   *)
(* at work and not told to stop, the chain has not come to its end, be it  *)
(* that a request hangs, the server ends or starts to answer late, or the  *)
(* form lets go of the run meanwhile; a disconnect does not overtake the   *)
(* kill (remoterun.cpp 361-405, 505-528, 558).                             *)
KillIsCarriedOut ==
  (/\ run.kill /\ run.number = 1 /\ run.told # "results" /\ RemoteCommandsWork
   /\ job \in Server!Alive /\ ~stopping /\ form # "crashed")
    => run.task # "none" \/ ChainWaits

(* A step that leaves a chain where it is that has been killed before. *)
LEMMA KillLeft ==
  ASSUME KillIsCarriedOut, option' = option,
         run'.kill = run.kill, run'.number = run.number, run'.told = run.told,
         run'.task = run.task, ChainWaits => ChainWaits',
         job' \in Server!Alive => job \in Server!Alive, stopping => stopping',
         form' # "crashed" => form # "crashed"
  PROVE  KillIsCarriedOut'
BY DEF KillIsCarriedOut, RemoteCommandsWork

LEMMA KillChain ==
  ASSUME OInv, ToldFirst, Undoes, KillIsCarriedOut, Chain
  PROVE  KillIsCarriedOut'
<1>0. run \in Run
  BY DEF OInv, TypeOK
<1>1. CASE Move
  BY <1>1, MoveKeeps DEF KillIsCarriedOut
<1>2. CASE Asks
  BY <1>2, AsksKeep DEF KillIsCarriedOut
<1>3. CASE Answers
  BY <1>3, AnswersKeep DEF KillIsCarriedOut
<1>4. CASE Disconnected
  <2>1. ~run'.kill
    BY <1>0, <1>4, GoToRun DEF Disconnected, Ready, Task
  <2> QED
    BY <2>1 DEF KillIsCarriedOut
<1>5. CASE Download \/ CleanupRemote
  <2>1. run.task \in {"download", "cleanup"} /\ run'.told = run.told
    BY <1>0, <1>5 DEF Download, CleanupRemote, GoTo, Conclude, Run
  <2> QED
    BY <2>1 DEF ToldFirst, AfterResults, KillIsCarriedOut
<1>6. CASE DownloadFails
  BY <1>6 DEF DownloadFails, KillIsCarriedOut
<1>7. CASE EmitFailed
  <2>1. /\ run.undo = <<>> /\ run'.number = run.number /\ UNCHANGED <<job, stopping>>
    BY <1>0, <1>7 DEF EmitFailed, Conclude, Run
  <2> QED
    BY <2>1, UndoLists DEF Undoes, ServerToUndo, KillIsCarriedOut
<1> QED
  BY <1>1, <1>2, <1>3, <1>4, <1>5, <1>6, <1>7 DEF Chain, Move, Asks, Answers

(* The click on Kill finds the chain at work, or too late for it. *)
LEMMA KillPressed ==
  ASSUME OInv, Progress, ToldFirst, Undoes, OnCancel
  PROVE  KillIsCarriedOut'
<1>1. /\ form = "running" /\ run'.task = run.task /\ run'.number = run.number
      /\ run'.told = run.told /\ UNCHANGED <<job, stopping>>
      /\ ChainWaits' <=> ChainWaits
  BY CancelLeaves DEF ChainWaits
<1>2. CASE run.verdict = "none"
  BY <1>1, <1>2 DEF Progress, ChainGoesOn, ToldFirst, AfterResults, KillIsCarriedOut
<1>3. CASE run.verdict = "finished"
  BY <1>1, <1>3 DEF ToldFirst, KillIsCarriedOut
<1>4. CASE run.verdict = "failed"
  <2>1. ~(run.number = 1 /\ job \in Server!Alive /\ ~stopping)
    BY <1>4, UndoLists DEF Undoes, ServerToUndo, AllUndone
  <2> QED
    BY <1>1, <2>1 DEF KillIsCarriedOut
<1> QED
  BY <1>2, <1>3, <1>4 DEF OInv, TypeOK, Run

LEMMA KillNext ==
  ASSUME OInv, Progress, ToldFirst, Undoes, KillIsCarriedOut, [Next]_vars
  PROVE  KillIsCarriedOut'
<1>0. run \in Run /\ option' = option
  BY OptionStays DEF OInv, TypeOK
<1>1. CASE Slots
  <2>1. UNCHANGED <<job, stopping>>
    BY <1>1 DEF Slots, Deleted, OnResultReady, OnAnalysisEnded, OnDownloaded, Slot
  <2>2. CASE ResetAction
    BY <1>0, <2>1, <2>2, ResetLeaves, KillLeft DEF ChainWaits
  <2>3. CASE UNCHANGED <<run, request>> /\ (form' # "crashed" => form # "crashed")
    BY <1>0, <2>1, <2>3, KillLeft DEF ChainWaits, Client!isBusy
  <2>4. CASE GoTo("cleanup")
    <3>1. run'.task = "cleanup"
      BY <1>0, <2>4, GoToRun DEF Task
    <3> QED
      BY <3>1 DEF KillIsCarriedOut
  <2> QED
    BY <1>1, <2>2, <2>3, <2>4 DEF Slots, Deleted, OnResultReady, OnAnalysisEnded,
       OnDownloaded
<1>2. CASE OnRunAnalysis \/ ResumeRemoteRun
  BY <1>2, CreateKeeps DEF KillIsCarriedOut
<1>3. CASE Disconnect
  BY <1>0, <1>3, ResetLeaves, KillLeft DEF Disconnect, ChainWaits
<1>4. CASE Buttons
  BY <1>0, <1>4, ButtonsKeep, KillLeft
<1>5. CASE Outside
  BY <1>0, <1>5, OutsideKeeps, KillLeft DEF ChainWaits
<1>6. CASE UNCHANGED vars
  BY <1>6, KillLeft DEF vars, ChainWaits, Client!isBusy
<1> QED
  BY <1>1, <1>2, <1>3, <1>4, <1>5, <1>6, KillChain, KillPressed DEF Next, Outside, User

(* What a run in a behaviour without a failing remote command keeps. *)
Orderly == RemoteCommandsWork => WInv /\ Undoes /\ KillIsCarriedOut

LEMMA OrderlyAlways == Spec => [](OInv /\ Progress /\ ToldFirst /\ Orderly)
<1>1. Init => Orderly
  BY WInit, UndoesInit DEF Orderly, Init, NewRun, KillIsCarriedOut
<1>2. OInv /\ Progress /\ ToldFirst /\ Orderly /\ [Next]_vars => ToldFirst' /\ Orderly'
  <2> SUFFICES ASSUME OInv, Progress, ToldFirst, Orderly, [Next]_vars
               PROVE  ToldFirst' /\ Orderly'
    OBVIOUS
  <2>1. RemoteCommandsWork' => RemoteCommandsWork
    BY OptionStays DEF RemoteCommandsWork
  <2> QED
    BY <2>1, ToldNext, WNext, UndoesNext, KillNext DEF Orderly
<1> QED
  BY <1>1, <1>2, ToldInit, Invariance, ProgressAlways, PTL DEF Spec

(* KillStopsServer adds that the chain, where it still is, gets its turn,  *)
(* and that a server that was told to stop does so.                        *)
THEOREM KillCarriedOut == Spec => []KillIsCarriedOut
<1>1. Orderly => KillIsCarriedOut
  BY DEF Orderly, KillIsCarriedOut
<1> QED
  BY <1>1, OrderlyAlways, PTL
-----------------------------------------------------------------------------
(* A failed run leaves nothing behind, whatever task it failed in: its     *)
(* server has been told to stop, and its temporary directory is gone once  *)
(* there has been a server in it (remoterun.cpp 25-55, 203-250, 524-528).  *)
(* A run that is killed before its first task keeps the directory that     *)
(* commit() made for it, and a resumed one has nothing to undo.            *)
FailureLeavesNothing ==
  run.verdict = "failed" /\ run.number = 1 /\ RemoteCommandsWork =>
    /\ job \notin Server!Alive \/ stopping
    /\ option.temporary /\ job # "absent" => ~dir

THEOREM FailureUndone == Spec => []FailureLeavesNothing
<1>1. Orderly => FailureLeavesNothing
  BY UndoLists DEF Orderly, Undoes, ServerToUndo, DirToUndo, AllUndone,
     FailureLeavesNothing
<1> QED
  BY <1>1, OrderlyAlways, PTL

(* A run that has finished has removed its temporary directory, also if    *)
(* remote commands may fail (remoterun.cpp 478-494): "finished" comes      *)
(* after the cleanup, and no later run finds something to resume.          *)
FinishedCleans == run.verdict = "finished" /\ option.temporary => ~dir

LEMMA CleansNext ==
  ASSUME OInv, FinishedCleans, [Next]_vars
  PROVE  FinishedCleans'
<1>0. run \in Run /\ option' = option
  BY OptionStays DEF OInv, TypeOK
<1>1. ASSUME run'.verdict = run.verdict, dir' = dir PROVE FinishedCleans'
  BY <1>0, <1>1 DEF FinishedCleans
<1>2. CASE Move
  BY <1>2, MoveKeeps DEF OInv, Over, FinishedCleans
<1>3. CASE Asks
  BY <1>1, <1>3, AsksKeep
<1>4. CASE Answers
  BY <1>1, <1>4, AnswersKeep
<1>5. CASE Disconnected \/ Download \/ DownloadFails
  <2>1. run'.verdict = run.verdict /\ dir' = dir
    BY <1>0, <1>5, GoToRun DEF Disconnected, Download, DownloadFails, Task
  <2> QED
    BY <1>1, <2>1
<1>6. CASE CleanupRemote
  <2>1. option.temporary => ~dir'
    BY <1>6 DEF CleanupRemote, CleanupWorkspace
  <2> QED
    BY <1>0, <2>1 DEF FinishedCleans
<1>7. CASE EmitFailed
  <2>1. run'.verdict = "failed"
    BY <1>0, <1>7 DEF EmitFailed, Conclude, Run
  <2> QED
    BY <2>1 DEF FinishedCleans
<1>8. CASE Slots
  <2>1. dir' = dir
    BY <1>8 DEF Slots, Deleted, OnResultReady, OnAnalysisEnded, OnDownloaded, Slot
  <2>2. ASSUME GoTo("cleanup") PROVE run'.verdict = run.verdict
    BY <1>0, <2>2, GoToRun DEF Task
  <2> QED
    BY <1>1, <1>8, <2>1, <2>2, ResetLeaves DEF Slots, Deleted, OnResultReady,
       OnAnalysisEnded, OnDownloaded
<1>9. CASE OnRunAnalysis \/ ResumeRemoteRun
  BY <1>9, CreateKeeps DEF FinishedCleans
<1>10. CASE OnCancel
  BY <1>1, <1>10, CancelLeaves
<1>11. CASE Disconnect
  BY <1>1, <1>11, ResetLeaves DEF Disconnect
<1>12. CASE Buttons
  BY <1>1, <1>12, ButtonsKeep
<1>13. CASE Outside
  BY <1>1, <1>13, OutsideKeeps
<1>14. CASE UNCHANGED vars
  BY <1>1, <1>14 DEF vars
<1> QED
  BY <1>2, <1>3, <1>4, <1>5, <1>6, <1>7, <1>8, <1>9, <1>10, <1>11, <1>12, <1>13, <1>14
     DEF Next, Chain, Move, Asks, Answers, Outside, User

THEOREM FinishedClean == Spec => []FinishedCleans
<1>1. Init => FinishedCleans
  BY DEF Init, NewRun, FinishedCleans
<1> QED
  BY <1>1, CleansNext, Invariance, PTL DEF Spec
=============================================================================
