------------------------ MODULE RemoteOutcomeProofs ------------------------
(***************************************************************************)
(* Theorems about what a remote run leaves behind: the workspace and the   *)
(* server, the results, the form, for every number of attempts and resumed *)
(* runs.                                                                   *)
(***************************************************************************)
EXTENDS RemoteRunProofs

(* Before its first run the form has nothing to do. *)
Fresh == run.number = 0 => form = "idle" /\ events = <<>>

(* A step of the chain belongs to a run. *)
LEMMA ChainHasRun ==
  ASSUME OInv, Fresh, Chain
  PROVE  run.number # 0 /\ form # "idle" /\ run.verdict = "none"
<1>1. CASE run.task # "none"
  BY <1>1 DEF OInv, IdleIsQuiet, Quiet, Over, Fresh
<1>2. CASE \E purpose \in {"contact", "monitor", "results", "exit"} :
             \E answer : Client!Finish(purpose, answer)
  <2>1. ChainWaits
    BY <1>2, FinishRequest DEF ChainWaits
  <2> QED
    BY <2>1 DEF ChainWaits, OInv, IdleIsQuiet, Quiet, Over, Fresh
<1> QED
  BY <1>1, <1>2 DEF Chain, Cancelled, CancelledTask, RemoteCommandFails, ClientBusy,
     Disconnected, SetupRemoteEnvironment, UploadInputFile, LaunchRemoteExecutionServer,
     WaitForContact, Contacted, NotContacted, GiveUp, Monitor, MonitorAnswered,
     FetchResults, ResultsAnswered, StopRemoteExecutionServer, ExitAnswered, Download,
     DownloadFails, CleanupRemote, PerformUndo, EmitFailed, Ask, Ready

(* The step leaves the number of the run, and what the user asked of it. *)
SameRun ==
  /\ run'.number = run.number
  /\ run'.kill = run.kill /\ run'.disconnect = run.disconnect

LEMMA ChainSameRun ==
  ASSUME run \in Run, Chain
  PROVE  SameRun
<1>1. ASSUME NEW task, GoTo(task) PROVE SameRun
  BY <1>1 DEF GoTo, Run, SameRun
<1>2. ASSUME NEW verdict, Conclude(verdict) PROVE SameRun
  BY <1>2 DEF Conclude, Run, SameRun
<1>3. CASE \/ SetupRemoteEnvironment \/ LaunchRemoteExecutionServer \/ NotContacted
           \/ MonitorAnswered \/ ResultsAnswered \/ PerformUndo
  BY <1>3 DEF SetupRemoteEnvironment, LaunchRemoteExecutionServer, NotContacted,
     MonitorAnswered, ResultsAnswered, PerformUndo, Run, SameRun
<1>4. CASE DownloadFails
  BY <1>4 DEF DownloadFails, SameRun
<1> QED
  BY <1>1, <1>2, <1>3, <1>4 DEF Chain, Cancelled, CancelledTask, RemoteCommandFails,
     ClientBusy, Disconnected, UploadInputFile, WaitForContact, Contacted, GiveUp, Monitor,
     FetchResults, StopRemoteExecutionServer, ExitAnswered, Download, CleanupRemote,
     EmitFailed, Ask

LEMMA FreshNext ==
  ASSUME OInv, Fresh, [Next]_vars
  PROVE  Fresh'
<1>0. run \in Run /\ run.number \in Nat
  BY ConstantsAssumption DEF OInv, TypeOK, Run
<1>1. CASE Chain
  BY <1>0, <1>1, ChainHasRun, ChainSameRun DEF SameRun, Fresh
<1>2. CASE Buttons
  <2>1. CASE OnWnow
    BY <2>1 DEF OnWnow, Fresh
  <2>2. CASE WriteNowAnswered
    BY <2>2 DEF WriteNowAnswered, Fresh
  <2> QED
    BY <1>2, <2>1, <2>2 DEF Buttons
<1>3. CASE Slots
  <2>1. CASE Deleted
    BY <2>1 DEF Deleted, Fresh
  <2>2. ASSUME NEW event, Slot(event) PROVE run.number # 0
    BY <2>2 DEF Slot, Fresh
  <2>3. ASSUME ResetAction PROVE run'.number = run.number
    BY <1>0, <2>3 DEF ResetAction, Run
  <2>4. ASSUME NEW task, GoTo(task) PROVE run'.number = run.number
    BY <1>0, <2>4 DEF GoTo, Run
  <2> QED
    BY <1>3, <2>1, <2>2, <2>3, <2>4
       DEF Slots, OnResultReady, OnAnalysisEnded, OnDownloaded, Fresh
<1>4. CASE User
  <2>1. CASE OnRunAnalysis \/ ResumeRemoteRun
    BY <1>0, <2>1 DEF OnRunAnalysis, ResumeRemoteRun, NewRun, Fresh
  <2>2. CASE OnCancel \/ Disconnect
    BY <1>0, <2>2 DEF OnCancel, Disconnect, ResetAction, Fresh, Run
  <2> QED
    BY <1>4, <2>1, <2>2 DEF User
<1>5. CASE Network \/ Environment \/ ServerStep
  BY <1>5 DEF Network, ServeRequest, ConnectionRefused, Environment, WriteNowFaults,
     NetworkFault, ServerCrash, ServerStep, ServerProgress, Fresh
<1> QED
  BY <1>1, <1>2, <1>3, <1>4, <1>5 DEF Next, vars, Fresh

LEMMA FreshInit == Init => Fresh
BY DEF Init, Fresh
-----------------------------------------------------------------------------
(* The workspace outlives a server at work, if remote commands do not      *)
(* fail.  The undo list has the server stopped before the directory is     *)
(* removed; a run that cleans up has been told of results.                 *)
Waits(purposes) == Client!isBusy /\ request.for \in purposes

Prepared == run.task \in {"setup", "upload", "launch"}

AfterResults ==
  \/ run.task \in {"fetch", "exit", "download", "cleanup"}
  \/ Waits({"results", "exit"})
  \/ DownloadPending

Harmless == job \notin {"started", "working"} \/ stopping

NotYetLaunched ==
  /\ run.number = 0 \/ Prepared => job = "absent"
  /\ Prepared => dir

UndoList ==
  /\ run.undo \in {<<>>, <<"dir">>, <<"proc", "dir">>}
  /\ run.task = "setup" => run.undo = <<>>
  /\ run.task \in {"upload", "launch"} => run.undo = <<"dir">>

StoppedBeforeRemoved ==
  run.number # 0 /\ (~dir \/ run.undo = <<"dir">>) => Harmless

ResultsWereThere ==
  AfterResults \/ (Client!isBusy /\ request.answer = "results")
    => job \in {"results", "gone"}

WInv == Fresh /\ NotYetLaunched /\ UndoList /\ StoppedBeforeRemoved /\ ResultsWereThere

LEMMA WInit == Init => WInv
BY DEF Init, NewRun, Server!Init, Client!Init, Client!Idle, Client!isBusy, WInv, Fresh,
  NotYetLaunched, Prepared, UndoList, StoppedBeforeRemoved, ResultsWereThere,
  AfterResults, Waits, DownloadPending

(* The undo lists there are. *)
LEMMA UndoLists ==
  /\ <<"proc">> \o <<"dir">> = <<"proc", "dir">>
  /\ <<"proc", "dir">> # <<"dir">> /\ <<"proc", "dir">> # <<>> /\ <<>> # <<"dir">>
<1> DEFINE both == <<"proc">> \o <<"dir">>
<1>1. /\ <<"proc">> \in Seq(UndoStep) /\ <<"dir">> \in Seq(UndoStep)
      /\ <<"proc", "dir">> \in Seq(UndoStep)
  BY DEF UndoStep
<1>2. both \in Seq(UndoStep) /\ Len(both) = 2 /\ both[1] = "proc" /\ both[2] = "dir"
  BY <1>1, ConcatProperties
<1>3. \A i \in 1 .. 2 : i = 1 \/ i = 2
  OBVIOUS
<1>4. \A i \in 1 .. Len(both) : both[i] = <<"proc", "dir">>[i]
  BY <1>2, <1>3
<1>5. Len(<<"proc", "dir">>) = 2 /\ Len(<<"dir">>) = 1 /\ Len(<<>>) = 0
  OBVIOUS
<1> HIDE DEF both
<1>6. both = <<"proc", "dir">>
  BY <1>1, <1>2, <1>4, <1>5, SeqEqual
<1> QED
  BY <1>5, <1>6 DEF both

(* The next task, without a request: neither workspace nor server change.  *)
LEMMA WMove ==
  ASSUME OInv, WInv, SameRun, run'.undo = run.undo,
         run'.task \in {"launch", "contact", "monitor", "rollback", "none", "giveup"},
         run'.task = "launch" => run.task = "upload",
         UNCHANGED <<job, stopping, request, dir, form, events>>
  PROVE  WInv'
BY DEF WInv, Fresh, NotYetLaunched, Prepared, UndoList, StoppedBeforeRemoved, Harmless,
  ResultsWereThere, AfterResults, Waits, DownloadPending, SameRun, Client!isBusy

LEMMA WTask ==
  ASSUME OInv, WInv, RemoteCommandsWork,
         \/ Cancelled \/ RemoteCommandFails \/ ClientBusy \/ Disconnected
         \/ UploadInputFile \/ GiveUp
  PROVE  WInv'
<1>1. PICK task \in {"launch", "rollback", "none"} :
        /\ GoTo(task) /\ UNCHANGED <<job, stopping, request, dir, form, events>>
        /\ task = "launch" => run.task = "upload"
  BY DEF Cancelled, CancelledTask, RemoteCommandFails, RemoteCommandsWork, ClientBusy,
     Disconnected, UploadInputFile, Ready, GiveUp
<1>2. /\ run'.task = task /\ run'.undo = run.undo /\ SameRun
  BY <1>1, GoToRun DEF OInv, TypeOK, Task, SameRun
<1> QED
  BY <1>1, <1>2, WMove

LEMMA WPrepare ==
  ASSUME OInv, WInv, SetupRemoteEnvironment \/ LaunchRemoteExecutionServer
  PROVE  WInv'
<1>0. run \in Run /\ run.task # "none" /\ ~Waits({"results", "exit"}) /\ ~DownloadPending
  BY DEF OInv, TypeOK, OnePlace, ChainWaits, Waits, SetupRemoteEnvironment,
     LaunchRemoteExecutionServer, Ready
<1>1. CASE SetupRemoteEnvironment
  <2>1. /\ run'.task = "upload" /\ run'.undo = <<"dir">> \o run.undo
        /\ run'.number = run.number /\ run.task = "setup"
        /\ dir' /\ UNCHANGED <<job, stopping, request, form, events>>
    BY <1>0, <1>1 DEF SetupRemoteEnvironment, InitialiseWorkspace, Ready, Run
  <2>2. run.undo = <<>> /\ job = "absent"
    BY <2>1 DEF WInv, UndoList, NotYetLaunched, Prepared
  <2>3. run'.undo = <<"dir">>
    BY <2>1, <2>2
  <2> QED
    BY <1>0, <2>1, <2>2, <2>3 DEF WInv, Fresh, NotYetLaunched, Prepared, UndoList,
       StoppedBeforeRemoved, Harmless, ResultsWereThere, AfterResults, Waits,
       DownloadPending, Client!isBusy
<1>2. CASE LaunchRemoteExecutionServer
  <2>1. /\ run'.task = "contact" /\ run'.undo = <<"proc">> \o run.undo
        /\ run'.number = run.number /\ run.task = "launch"
        /\ job' = "started" /\ UNCHANGED <<stopping, dir, request, form, events>>
    BY <1>0, <1>2 DEF LaunchRemoteExecutionServer, Server!Start, Ready, Run
  <2>2. run.undo = <<"dir">> /\ job = "absent" /\ dir
    BY <2>1 DEF WInv, UndoList, NotYetLaunched, Prepared
  <2>3. run'.undo = <<"proc", "dir">>
    BY <2>1, <2>2, UndoLists
  <2>4. run.number # 0
    BY <2>1 DEF OInv, IdleIsQuiet, Quiet, WInv, Fresh
  <2> QED
    BY <1>0, <2>1, <2>2, <2>3, <2>4, UndoLists DEF WInv, Fresh, NotYetLaunched, Prepared, UndoList,
       StoppedBeforeRemoved, Harmless, ResultsWereThere, AfterResults, Waits,
       DownloadPending, Client!isBusy
<1> QED
  BY <1>1, <1>2

LEMMA WUndo ==
  ASSUME OInv, WInv, RemoteCommandsWork, PerformUndo
  PROVE  WInv'
<1>0. run \in Run /\ ~Waits({"results", "exit"}) /\ ~DownloadPending
  BY DEF OInv, TypeOK, OnePlace, ChainWaits, Waits, PerformUndo
<1>1. /\ run.task = "rollback" /\ run'.task = "rollback" /\ run'.number = run.number
      /\ run'.undo = Tail(run.undo) /\ run.undo # <<>>
      /\ UNCHANGED <<request, form, events>>
  BY <1>0 DEF PerformUndo, Run
<1>2. CASE run.undo = <<"proc", "dir">>
  <2>1. run'.undo = <<"dir">> /\ Head(run.undo) = "proc"
    BY <1>1, <1>2
  <2>2. UndoLaunch
    BY <2>1 DEF PerformUndo, RemoteCommandsWork
  <2>3. Harmless' /\ UNCHANGED <<job, dir>>
    BY <2>2 DEF UndoLaunch, Server!Alive, Server!Answering, Harmless
  <2> QED
    BY <1>0, <1>1, <1>2, <2>1, <2>3, UndoLists DEF WInv, Fresh,
       NotYetLaunched, Prepared, UndoList, StoppedBeforeRemoved,
       ResultsWereThere, AfterResults, Waits, DownloadPending, Client!isBusy
<1>3. CASE run.undo = <<"dir">>
  <2>1. run'.undo = <<>> /\ Head(run.undo) = "dir"
    BY <1>1, <1>3
  <2>2. UndoSetup
    BY <2>1 DEF PerformUndo, RemoteCommandsWork
  <2> QED
    BY <1>0, <1>1, <1>3, <2>1, <2>2 DEF UndoSetup, serverVars, WInv, Fresh,
       NotYetLaunched, Prepared, UndoList, StoppedBeforeRemoved, Harmless,
       ResultsWereThere, AfterResults, Waits, DownloadPending, Client!isBusy
<1> QED
  BY <1>1, <1>2, <1>3 DEF WInv, UndoList

LEMMA WAsk ==
  ASSUME OInv, WInv,
         WaitForContact \/ Monitor \/ FetchResults \/ StopRemoteExecutionServer
  PROVE  WInv'
<1>1. PICK task \in {"contact", "monitor", "fetch", "exit"},
           purpose \in {"contact", "monitor", "results", "exit"} :
        /\ Ask(task, purpose)
        /\ purpose \in {"results", "exit"} => task \in {"fetch", "exit"}
  BY DEF WaitForContact, Monitor, FetchResults, StopRemoteExecutionServer
<1>2. /\ run.task = task /\ GoTo("none")
      /\ request' = [for |-> purpose, phase |-> "sent", answer |-> "failure"]
      /\ UNCHANGED <<job, stopping, dir, form, events>>
  BY <1>1 DEF Ask, Ready, Client!Launch
<1>3. /\ run'.task = "none" /\ run'.undo = run.undo /\ run'.number = run.number
  BY <1>2, GoToRun DEF OInv, TypeOK, Task
<1>4. request'.for = purpose /\ request'.answer = "failure" /\ ~DownloadPending
  BY <1>2 DEF OInv, OnePlace
<1> QED
  BY <1>1, <1>2, <1>3, <1>4 DEF WInv, Fresh, NotYetLaunched, Prepared, UndoList,
     StoppedBeforeRemoved, Harmless, ResultsWereThere, AfterResults, Waits,
     DownloadPending, Client!isBusy

LEMMA WAnswer ==
  ASSUME OInv, WInv,
         \/ Contacted \/ NotContacted \/ MonitorAnswered
         \/ ResultsAnswered \/ ExitAnswered
  PROVE  WInv'
<1>0. run \in Run
  BY DEF OInv, TypeOK
<1>1. /\ SameRun /\ run'.undo = run.undo
      /\ UNCHANGED <<job, stopping, dir, form, events>>
      /\ Client!isBusy /\ ~Client!isBusy' /\ request.for # "wnow"
      /\ run'.task \in {"contact", "giveup", "monitor", "rollback"}
         \/ AfterResults \/ request.answer = "results"
      /\ run'.task \in Task \ {"setup", "upload", "launch"}
  <2>1. CASE Contacted
    <3>1. GoTo("monitor") /\ UNCHANGED <<job, stopping, dir, form, events>>
      BY <2>1 DEF Contacted
    <3>2. Client!isBusy /\ ~Client!isBusy' /\ request.for = "contact"
      BY <2>1, FinishRequest DEF Contacted
    <3> QED
      BY <1>0, <3>1, <3>2, GoToRun DEF SameRun, Task
  <2>2. CASE NotContacted
    <3>1. /\ run'.task \in {"contact", "giveup"} /\ SameRun /\ run'.undo = run.undo
          /\ UNCHANGED <<job, stopping, dir, form, events>>
      BY <1>0, <2>2 DEF NotContacted, Run, SameRun
    <3>2. Client!isBusy /\ ~Client!isBusy' /\ request.for = "contact"
      BY <2>2, FinishRequest DEF NotContacted
    <3> QED
      BY <3>1, <3>2 DEF Task
  <2>3. CASE MonitorAnswered
    <3>1. PICK answer \in Status \union {"failure"} :
          /\ Client!Finish("monitor", answer)
          /\ run' = [run EXCEPT
               !.task = CASE answer = "error"   -> "rollback"
                          [] answer = "results" -> "fetch"
                          [] OTHER              -> "monitor",
               !.told = IF answer = "failure" THEN @ ELSE answer]
          /\ UNCHANGED <<job, stopping, dir, form, events>>
      BY <2>3 DEF MonitorAnswered
    <3>2. SameRun /\ run'.undo = run.undo
      BY <1>0, <3>1 DEF Run, SameRun
    <3>3. /\ run'.task \in {"rollback", "fetch", "monitor"}
          /\ run'.task = "fetch" => answer = "results"
      BY <1>0, <3>1 DEF Run
    <3>4. Client!isBusy /\ ~Client!isBusy' /\ request.for = "monitor" /\ request.answer = answer
      BY <3>1, FinishRequest DEF Client!Finish
    <3> QED
      BY <3>1, <3>2, <3>3, <3>4 DEF Task
  <2>4. CASE ResultsAnswered \/ ExitAnswered
    <3>1. /\ run'.task \in {"exit", "download", "cleanup"} /\ SameRun
          /\ run'.undo = run.undo /\ UNCHANGED <<job, stopping, dir, form, events>>
      BY <1>0, <2>4 DEF ResultsAnswered, ExitAnswered, GoTo, Run, SameRun
    <3>2. /\ Client!isBusy /\ ~Client!isBusy' /\ request.for \in {"results", "exit"}
      BY <2>4, FinishRequest DEF ResultsAnswered, ExitAnswered
    <3> QED
      BY <3>1, <3>2 DEF AfterResults, Waits, Task
  <2> QED
    BY <2>1, <2>2, <2>3, <2>4
<1>2. ~DownloadPending
  BY <1>1 DEF OInv, OnePlace, ChainWaits
<1>3. AfterResults \/ request.answer = "results" => job \in {"results", "gone"}
  BY <1>1 DEF WInv, ResultsWereThere
<1>4. ResultsWereThere'
  BY <1>1, <1>2, <1>3 DEF ResultsWereThere, AfterResults, Waits, DownloadPending
<1> QED
  BY <1>1, <1>4 DEF WInv, Fresh, NotYetLaunched, Prepared, UndoList, SameRun,
     StoppedBeforeRemoved, Harmless, Task

LEMMA WEnd ==
  ASSUME OInv, WInv, Download \/ DownloadFails \/ CleanupRemote \/ EmitFailed
  PROVE  WInv'
<1>0. run \in Run /\ run.task # "none" /\ form # "idle" /\ run.number # 0
  BY DEF OInv, TypeOK, IdleIsQuiet, Quiet, WInv, Fresh, Download, DownloadFails,
     CleanupRemote, EmitFailed
<1>1. /\ run'.task \in {"none", run.task} /\ run'.undo = run.undo /\ run'.number = run.number
      /\ UNCHANGED <<job, stopping, request>>
  BY <1>0 DEF Download, DownloadFails, CleanupRemote, EmitFailed, GoTo, Conclude, Run
<1>2. run.task \in {"download", "cleanup", "rollback"}
  BY DEF Download, DownloadFails, CleanupRemote, EmitFailed
<1>3. dir' = dir \/ CleanupRemote
  BY DEF Download, DownloadFails, EmitFailed
<1>4. CleanupRemote \/ Download \/ DownloadFails => job \in {"results", "gone"}
  BY DEF CleanupRemote, Download, DownloadFails, WInv, ResultsWereThere, AfterResults
<1>5. ~DownloadPending /\ ~Waits({"results", "exit"})
  BY <1>0 DEF OInv, OnePlace, ChainWaits, Waits
<1>6. ResultsWereThere'
  <2>1. CASE EmitFailed
    <3>1. /\ run'.task = "none" /\ events' \in Seq(Event)
          /\ Len(events') = Len(events) + 1 /\ events'[Len(events')] = "failed"
          /\ \A i \in 1 .. Len(events) : events'[i] = events[i]
      BY <2>1, ConcludeRun DEF EmitFailed, OInv, TypeOK
    <3>2. ~DownloadPending'
      BY <1>5, <3>1 DEF DownloadPending, OInv, TypeOK
    <3> QED
      BY <1>1, <1>5, <3>1, <3>2 DEF WInv, ResultsWereThere, AfterResults, Waits, Client!isBusy
  <2>2. CASE ~EmitFailed
    BY <1>1, <1>4, <2>2 DEF ResultsWereThere
  <2> QED
    BY <2>1, <2>2
<1> QED
  BY <1>0, <1>1, <1>2, <1>3, <1>4, <1>6 DEF WInv, Fresh, NotYetLaunched, Prepared, UndoList,
     StoppedBeforeRemoved, Harmless

(* Slots, buttons and clicks that leave the run its task and its undo list *)
(* and the client its request, or let it be aborted.                       *)
LEMMA WForm ==
  ASSUME OInv, WInv, run'.task = run.task, run'.undo = run.undo,
         run'.number = run.number,
         Client!isBusy' => Client!isBusy /\ request'.for = request.for,
         Client!isBusy' /\ request'.answer = "results" => request.answer = "results",
         DownloadPending' => DownloadPending,
         Fresh', UNCHANGED <<job, stopping, dir>>
  PROVE  WInv'
BY DEF WInv, NotYetLaunched, Prepared, UndoList, StoppedBeforeRemoved, Harmless,
  ResultsWereThere, AfterResults, Waits

(* What reset() and Kill make of the request. *)
LEMMA AbortKeeps ==
  ASSUME Client!TypeOK, Client!Abort
  PROVE  /\ Client!isBusy' => Client!isBusy /\ request'.for = request.for
         /\ Client!isBusy' /\ request'.answer = "results" => request.answer = "results"
<1>1. CASE Client!Lost
  <2>1. Client!isBusy /\ request'.for = request.for
    BY <1>1, LostRequest
  <2>2. request'.answer = "failure"
    BY <1>1, <2>1, BusyRequest DEF Client!Lost, Client!Request
  <2> QED
    BY <2>1, <2>2
<1>2. CASE UNCHANGED request
  BY <1>2 DEF Client!isBusy
<1> QED
  BY <1>1, <1>2 DEF Client!Abort

LEMMA ResetKeeps ==
  ASSUME OInv, ResetAction
  PROVE  /\ run'.task = run.task /\ run'.undo = run.undo /\ run'.number = run.number
         /\ Client!isBusy' => Client!isBusy /\ request'.for = request.for
         /\ Client!isBusy' /\ request'.answer = "results" => request.answer = "results"
BY AbortKeeps DEF ResetAction, OInv, TypeOK, Run

LEMMA WSlots ==
  ASSUME OInv, WInv, Fresh', Slots
  PROVE  WInv'
<1>0. run \in Run /\ events \in Seq(Event)
  BY DEF OInv, TypeOK
<1>1. ASSUME NEW event, Slot(event)
      PROVE  (DownloadPending' => DownloadPending) /\ UNCHANGED <<job, stopping, dir>>
  BY <1>1, TakenPending DEF Slot
<1>2. ASSUME UNCHANGED <<run, request, job, stopping, dir>>, DownloadPending' => DownloadPending
      PROVE  WInv'
  BY <1>2, WForm DEF Client!isBusy
<1>3. ASSUME ResetAction, UNCHANGED <<job, stopping, dir>>, DownloadPending' => DownloadPending
      PROVE  WInv'
  BY <1>3, ResetKeeps, WForm
<1>4. CASE Deleted
  BY <1>2, <1>4 DEF Deleted, DownloadPending
<1>5. CASE OnResultReady \/ OnAnalysisEnded
  BY <1>1, <1>2, <1>3, <1>5 DEF OnResultReady, OnAnalysisEnded
<1>6. CASE OnDownloaded
  <2>1. CASE GoTo("cleanup") /\ UNCHANGED <<form, request>>
    <3>1. /\ run'.task = "cleanup" /\ run'.undo = run.undo /\ run'.number = run.number
          /\ UNCHANGED <<request, job, stopping, dir>>
      BY <1>0, <1>1, <1>6, <2>1, GoToRun DEF OnDownloaded, Task
    <3>2. DownloadPending
      BY <1>6, TakenPending DEF OnDownloaded
    <3>3. job \in {"results", "gone"}
      BY <3>2 DEF WInv, ResultsWereThere, AfterResults
    <3> QED
      BY <3>1, <3>3 DEF WInv, NotYetLaunched, Prepared, UndoList, StoppedBeforeRemoved,
         Harmless, ResultsWereThere
  <2> QED
    BY <1>1, <1>2, <1>6, <2>1 DEF OnDownloaded
<1> QED
  BY <1>4, <1>5, <1>6 DEF Slots

LEMMA WUser ==
  ASSUME OInv, WInv, Fresh', User
  PROVE  WInv'
<1>0. run \in Run /\ run.number \in Nat /\ events \in Seq(Event)
  BY ConstantsAssumption DEF OInv, TypeOK, Run
<1>1. CASE OnRunAnalysis \/ ResumeRemoteRun
  <2>1. /\ run'.undo = <<>> /\ run'.task \in {"setup", "monitor"} /\ run'.number # 0
        /\ run'.task = "setup" => run.number = 0
        /\ dir' /\ events = <<>> /\ UNCHANGED <<job, stopping, request, events>>
    BY <1>0, <1>1 DEF OnRunAnalysis, InitialiseWorkspace, ResumeRemoteRun, NoRun, NewRun
  <2>2. ~Client!isBusy /\ ~Client!isBusy'
    BY <1>1, <2>1 DEF OnRunAnalysis, ResumeRemoteRun, NoRun, OInv, IdleIsQuiet, Quiet,
       Client!isBusy
  <2>3. Len(events) = 0 /\ Len(events') = 0
    BY <2>1
  <2>4. ~DownloadPending'
    BY <2>3 DEF DownloadPending
  <2> QED
    BY <2>1, <2>2, <2>4, UndoLists DEF WInv, NotYetLaunched, Prepared, UndoList,
       StoppedBeforeRemoved, Harmless, ResultsWereThere, AfterResults, Waits
<1>2. CASE OnCancel
  <2>1. /\ run'.task = run.task /\ run'.undo = run.undo /\ run'.number = run.number
        /\ UNCHANGED <<job, stopping, dir>>
    BY <1>0, <1>2 DEF OnCancel, Run
  <2>2. DownloadPending' => DownloadPending
    BY <1>0, <1>2, AppendedEvent DEF OnCancel, Event, DownloadPending
  <2> QED
    BY <1>2, <2>1, <2>2, AbortKeeps, WForm DEF OnCancel, OInv, TypeOK
<1>3. CASE Disconnect
  BY <1>3, ResetKeeps, WForm DEF Disconnect, DownloadPending
<1> QED
  BY <1>1, <1>2, <1>3 DEF User

LEMMA WButtons ==
  ASSUME OInv, WInv, Fresh', Buttons
  PROVE  WInv'
<1>1. CASE OnWnow
  <2>1. request'.for = "wnow" /\ request'.answer = "failure"
    BY <1>1 DEF OnWnow, Client!Launch
  <2> QED
    BY <1>1, <2>1 DEF OnWnow, WInv, NotYetLaunched, Prepared, UndoList, StoppedBeforeRemoved,
       Harmless, ResultsWereThere, AfterResults, Waits, DownloadPending
<1>2. CASE WriteNowAnswered
  <2>1. ~Client!isBusy'
    BY <1>2, FinishRequest DEF WriteNowAnswered
  <2> QED
    BY <1>2, <2>1, WForm DEF WriteNowAnswered, DownloadPending
<1> QED
  BY <1>1, <1>2 DEF Buttons

(* Answers: that of the results is one of a server that has them. *)
LEMMA WServe ==
  ASSUME OInv, WInv, Fresh', ServeRequest
  PROVE  WInv'
<1>0. request.for \in {"contact", "monitor", "results", "exit", "wnow"}
  BY BusyRequest DEF ServeRequest, OInv, TypeOK, Client!isBusy, Client!Request,
     Client!Purpose
<1>1. PICK answer : Client!Answered(answer) /\ (answer = "results" => job = "results")
  <2>1. CASE request.for \in {"contact", "monitor"}
    BY <2>1 DEF ServeRequest
  <2>2. CASE request.for = "results"
    <3>1. PICK answer \in {"ok", "failure"} : Client!Answered(answer)
      BY <2>2 DEF ServeRequest
    <3> QED
      BY <3>1
  <2>3. CASE request.for \in {"exit", "wnow"}
    <3>1. Client!Answered("ok")
      BY <2>3 DEF ServeRequest
    <3> QED
      BY <3>1
  <2> QED
    BY <1>0, <2>1, <2>2, <2>3
<1>2. Client!isBusy /\ request'.for = request.for /\ request'.answer = answer
  <2>1. Client!isBusy
    BY <1>1 DEF Client!Answered, Client!isBusy
  <2> QED
    BY <1>1, <2>1, BusyRequest DEF Client!Answered, Client!Request, OInv, TypeOK
<1>3. /\ UNCHANGED <<run, dir, form, events, job>>
      /\ stopping => stopping'
  BY <1>0 DEF ServeRequest, Server!RequestStop, serverVars
<1> QED
  BY <1>1, <1>2, <1>3 DEF WInv, NotYetLaunched, Prepared, UndoList, StoppedBeforeRemoved,
     Harmless, ResultsWereThere, AfterResults, Waits, DownloadPending

LEMMA WOutside ==
  ASSUME OInv, WInv, Fresh', Network \/ Environment \/ ServerStep
  PROVE  WInv'
<1>1. CASE ConnectionRefused \/ NetworkFault
  <2>1. /\ Client!isBusy /\ request'.for = request.for /\ request'.answer = "failure"
        /\ UNCHANGED <<job, stopping, run, dir, form, events>>
    <3>1. Client!Lost /\ UNCHANGED <<job, stopping, run, dir, form, events>>
      BY <1>1 DEF ConnectionRefused, NetworkFault
    <3>2. Client!isBusy /\ request \in Client!Request
      BY <3>1, BusyRequest DEF Client!Lost, OInv, TypeOK
    <3> QED
      BY <3>1, <3>2 DEF Client!Lost, Client!Request
  <2> QED
    BY <2>1, WForm DEF DownloadPending
<1>2. CASE WriteNowFaults \/ ServerCrash \/ ServerProgress
  <2>1. /\ UNCHANGED <<request, run, dir, form, events, stopping>>
        /\ job # "absent" /\ job' # "absent" /\ job' # "started"
        /\ job' = "working" => job = "started"
        /\ job \in {"results", "gone"} => job' \in {"results", "gone"}
    BY <1>2 DEF WriteNowFaults, ServerCrash, ServerProgress, Server!Fail, Server!Accept,
       Server!Announce, Server!End, Server!Alive, Server!Answering
  <2> QED
    BY <2>1 DEF WInv, NotYetLaunched, Prepared, UndoList, StoppedBeforeRemoved,
       Harmless, ResultsWereThere, AfterResults, Waits, DownloadPending, Client!isBusy
<1> QED
  BY <1>1, <1>2, WServe DEF Network, Environment, ServerStep

LEMMA WNext ==
  ASSUME RemoteCommandsWork, OInv, WInv, [Next]_vars
  PROVE  WInv'
<1>0. Fresh'
  BY FreshNext DEF WInv
<1>1. CASE Chain
  BY <1>1, WTask, WPrepare, WUndo, WAsk, WAnswer, WEnd DEF Chain
<1>2. CASE UNCHANGED vars
  BY <1>0, <1>2, WForm DEF vars, DownloadPending, Client!isBusy
<1> QED
  BY <1>0, <1>1, <1>2, WSlots, WUser, WButtons, WOutside DEF Next

(* The workspace is not removed from under a server at work, in every      *)
(* behaviour without a failing remote command: the rollback stops the      *)
(* server first, and only a run that was told of results cleans up.        *)
THEOREM WorkspaceKept == Spec => []WorkspaceOutlivesServer
<1> DEFINE WIfCommandsWork == RemoteCommandsWork => WInv
<1>1. Init => WIfCommandsWork
  BY WInit
<1>2. OInv /\ WIfCommandsWork /\ [Next]_vars => WIfCommandsWork'
  BY WNext, OptionStays DEF RemoteCommandsWork
<1>3. OInv /\ WIfCommandsWork => WorkspaceOutlivesServer
  BY DEF WorkspaceOutlivesServer, WInv, StoppedBeforeRemoved, Harmless
<1> HIDE DEF WIfCommandsWork
<1> QED
  BY <1>1, <1>2, <1>3, Invariance, PTL DEF Spec
-----------------------------------------------------------------------------
(* A run that is neither disturbed nor let go of fetches the results, and  *)
(* has the server told to exit then.  A resumed run may find a server that *)
(* an earlier one has told to.                                             *)
LetGo == run.kill \/ run.disconnect
Earlier == run.number > 1 /\ stopping

(* An exit request the server has not served yet. *)
ExitSent == Waits({"exit"}) /\ request.phase = "sent"

BeforeExit ==
  \/ run.task \in Task \ {"download", "cleanup", "rollback", "none"}
  \/ Waits({"contact", "monitor", "results"})
  \/ ExitSent

ToldOfResults ==
  \/ run.task \in {"fetch", "exit"}
  \/ Waits({"results"})
  \/ ExitSent
  \/ Client!isBusy /\ request.answer = "results"

Ending ==
  \/ run.task \in {"download", "cleanup"}
  \/ DownloadPending
  \/ run.verdict = "finished"

NotStoppedYet == run.number = 0 \/ (run.number = 1 /\ BeforeExit) => ~stopping

ResultsStay == ToldOfResults => stopping \/ job = "results"

ResultsArrive ==
  Waits({"results"}) /\ request.phase = "answered" => request.answer = "ok" \/ LetGo \/ Earlier

ResultsFetched ==
  /\ run.task = "exit" => run.got \/ LetGo \/ Earlier
  /\ Waits({"exit"}) \/ Ending => run.got \/ run.disconnect \/ Earlier

ToldToExit ==
  (Waits({"exit"}) /\ request.phase = "answered") \/ Ending => stopping \/ LetGo

RollbackKeepsResults ==
  run.task = "rollback" /\ run.told = "results" => run.got \/ LetGo \/ Earlier

CInv ==
  /\ NotStoppedYet /\ ResultsStay /\ ResultsArrive
  /\ ResultsFetched /\ ToldToExit /\ RollbackKeepsResults

(* What all of the lemmas below assume. *)
Settled == OInv /\ Fresh /\ Knows /\ CInv /\ Undisturbed

LEMMA CInit == Init => CInv
BY DEF Init, NewRun, Server!Init, Client!Init, Client!Idle, Client!isBusy, CInv,
  NotStoppedYet, BeforeExit, ResultsStay, ToldOfResults, ResultsArrive, ResultsFetched, ToldToExit, Ending,
  RollbackKeepsResults, Waits, ExitSent, DownloadPending

(* While a task is to be executed, there is no request and no download. *)
LEMMA TaskAlone ==
  ASSUME Settled, run.task # "none"
  PROVE  ~Client!isBusy /\ ~DownloadPending /\ run.verdict = "none" /\ run.number # 0
BY DEF Settled, OInv, OnePlace, ChainWaits, Knows, KnowsRequest, Over, IdleIsQuiet, Quiet, Fresh

(* The next task, without a request; the rollback may stop the server. *)
LEMMA CMove ==
  ASSUME Settled, run.task # "none", SameRun,
         run'.told = run.told, run'.got = run.got, run'.verdict = run.verdict,
         UNCHANGED <<request, events>>,
         run'.task \in {"upload", "launch", "contact", "rollback", "none"},
         run'.task \in {"upload", "launch", "contact"} =>
           run.task \in {"setup", "upload", "launch"} /\ UNCHANGED stopping,
         run'.task = "rollback" /\ run.told = "results" => run.got \/ LetGo \/ Earlier,
         stopping => stopping'
  PROVE  CInv'
<1>1. /\ ~Client!isBusy' /\ ~DownloadPending' /\ run'.verdict = "none" /\ run'.number # 0
  BY TaskAlone DEF SameRun, Client!isBusy, DownloadPending
<1>2. NotStoppedYet'
  BY <1>1 DEF Settled, CInv, NotStoppedYet, BeforeExit, SameRun, Waits, ExitSent, Task
<1> QED
  BY <1>1, <1>2 DEF CInv, ResultsStay, ToldOfResults, ResultsArrive, ResultsFetched, ToldToExit, Ending,
     RollbackKeepsResults, Waits, ExitSent, LetGo, Earlier, SameRun

LEMMA CTask ==
  ASSUME Settled,
         \/ Cancelled \/ RemoteCommandFails \/ ClientBusy \/ Disconnected
         \/ UploadInputFile \/ GiveUp
         \/ SetupRemoteEnvironment \/ LaunchRemoteExecutionServer \/ PerformUndo
  PROVE  CInv'
<1>0. run \in Run /\ KnowsAt(run.task)
  BY DEF Settled, OInv, TypeOK, Knows
<1>1. CASE Cancelled
  <2>1. /\ GoTo("rollback") /\ run.kill /\ run.task # "none"
        /\ UNCHANGED <<request, events, stopping>>
    BY <1>1 DEF Cancelled, CancelledTask
  <2> QED
    BY <1>0, <2>1, GoToRun, CMove DEF SameRun, Task, LetGo
<1>2. CASE RemoteCommandFails \/ GiveUp
  <2>1. /\ GoTo("rollback") /\ UNCHANGED <<request, events>>
        /\ run.task \in {"setup", "upload", "launch", "giveup", "cleanup"}
        /\ UNCHANGED stopping
    BY <1>2 DEF RemoteCommandFails, GiveUp, Ready, Server!Start, serverVars
  <2>2. run.told = "results" => run.got \/ LetGo \/ Earlier
    BY <1>0, <2>1 DEF KnowsAt, Settled, CInv, ResultsFetched, Ending, LetGo
  <2> QED
    BY <1>0, <2>1, <2>2, GoToRun, CMove DEF SameRun, Task
<1>3. CASE ClientBusy
  BY <1>3, TaskAlone DEF ClientBusy, Ready
<1>4. CASE Disconnected
  <2>1. GoTo("none") /\ run.task # "none" /\ UNCHANGED <<request, events, stopping>>
    BY <1>4 DEF Disconnected, Ready
  <2> QED
    BY <1>0, <2>1, GoToRun, CMove DEF SameRun, Task
<1>5. CASE UploadInputFile
  <2>1. GoTo("launch") /\ run.task = "upload" /\ UNCHANGED <<request, events, stopping>>
    BY <1>5 DEF UploadInputFile, Ready
  <2> QED
    BY <1>0, <2>1, GoToRun, CMove DEF SameRun, Task
<1>6. CASE SetupRemoteEnvironment \/ LaunchRemoteExecutionServer
  <2>1. /\ run'.task \in {"upload", "contact"} /\ run.task \in {"setup", "launch"} /\ SameRun
        /\ run'.told = run.told /\ run'.got = run.got /\ run'.verdict = run.verdict
        /\ UNCHANGED <<request, events, stopping>>
    BY <1>0, <1>6 DEF SetupRemoteEnvironment, LaunchRemoteExecutionServer, Ready, Run,
       SameRun, Server!Start
  <2> QED
    BY <2>1, CMove
<1>7. CASE PerformUndo
  <2>1. /\ run'.task = "rollback" /\ run.task = "rollback" /\ SameRun
        /\ run'.told = run.told /\ run'.got = run.got /\ run'.verdict = run.verdict
        /\ UNCHANGED <<request, events>>
    BY <1>0, <1>7 DEF PerformUndo, Run, SameRun
  <2>2. stopping => stopping'
    BY <1>7 DEF PerformUndo, UndoLaunch, UndoSetup, serverVars
  <2> QED
    BY <2>1, <2>2, CMove DEF Settled, CInv, RollbackKeepsResults
<1> QED
  BY <1>1, <1>2, <1>3, <1>4, <1>5, <1>6, <1>7

(* A run whose results are there in time has them when it asks for the exit. *)
LEMMA CAsk ==
  ASSUME Settled,
         WaitForContact \/ Monitor \/ FetchResults \/ StopRemoteExecutionServer
  PROVE  CInv'
<1>1. PICK task \in {"contact", "monitor", "fetch", "exit"},
           purpose \in {"contact", "monitor", "results", "exit"} :
        /\ Ask(task, purpose)
        /\ purpose = "results" => task = "fetch"
        /\ purpose = "exit" => task = "exit"
  BY DEF WaitForContact, Monitor, FetchResults, StopRemoteExecutionServer
<1>2. /\ run.task = task /\ ~run.kill /\ GoTo("none")
      /\ request' = [for |-> purpose, phase |-> "sent", answer |-> "failure"]
      /\ UNCHANGED <<job, stopping, events>>
  BY <1>1 DEF Ask, Ready, Client!Launch
<1>3. /\ run'.task = "none" /\ SameRun /\ run'.told = run.told
      /\ run'.got = run.got /\ run'.verdict = run.verdict
  BY <1>2, GoToRun DEF Settled, OInv, TypeOK, Task, SameRun
<1>4. ~DownloadPending' /\ run'.verdict = "none" /\ run.number # 0
  BY <1>2, <1>3, TaskAlone DEF DownloadPending
<1>5. request'.for = purpose /\ request'.phase = "sent" /\ request'.answer = "failure"
  BY <1>2
<1>6. /\ run.number = 1 => ~stopping
      /\ task \in {"fetch", "exit"} => stopping \/ job = "results"
      /\ task = "exit" => run.got \/ run.disconnect \/ Earlier
  BY <1>2 DEF Settled, CInv, NotStoppedYet, BeforeExit, ResultsStay, ToldOfResults, ResultsFetched, ExitSent, LetGo, Task
<1> QED
  BY <1>1, <1>2, <1>3, <1>4, <1>5, <1>6 DEF CInv, NotStoppedYet, BeforeExit, ResultsStay, ToldOfResults, ResultsArrive,
     ResultsFetched, ToldToExit, Ending, RollbackKeepsResults, Waits, ExitSent, Earlier, SameRun

(* The callbacks. *)
LEMMA CAnswer ==
  ASSUME Settled,
         \/ Contacted \/ NotContacted \/ MonitorAnswered
         \/ ResultsAnswered \/ ExitAnswered
  PROVE  CInv'
<1>0. run \in Run
  BY DEF Settled, OInv, TypeOK
<1>1. PICK purpose \in {"contact", "monitor", "results", "exit"} :
        /\ \E answer : Client!Finish(purpose, answer)
        /\ purpose = "contact" => Contacted \/ NotContacted
        /\ purpose = "monitor" => MonitorAnswered
        /\ purpose = "results" => ResultsAnswered
        /\ purpose = "exit"    => ExitAnswered
  BY DEF Contacted, NotContacted, MonitorAnswered, ResultsAnswered, ExitAnswered
<1>2. /\ Client!isBusy /\ ~Client!isBusy'
      /\ request.for = purpose /\ request.phase = "answered"
  BY <1>1, FinishRequest DEF Client!Finish
<1>3. ChainWaits /\ ~DownloadPending /\ run.verdict = "none" /\ run.number # 0
  BY <1>2 DEF ChainWaits, Settled, OInv, OnePlace, Over, IdleIsQuiet, Quiet, Fresh
<1>4. UNCHANGED <<job, stopping, events>>
  BY DEF Contacted, NotContacted, MonitorAnswered, ResultsAnswered, ExitAnswered
<1>5. ~DownloadPending'
  BY <1>3, <1>4 DEF DownloadPending
<1>6. /\ run.number = 1 /\ purpose # "exit" => ~stopping
      /\ purpose = "results" \/ request.answer = "results" => stopping \/ job = "results"
      /\ purpose = "results" => request.answer = "ok" \/ LetGo \/ Earlier
      /\ purpose = "exit" => (run.got \/ run.disconnect \/ Earlier) /\ (stopping \/ LetGo)
  BY <1>2 DEF Settled, CInv, NotStoppedYet, BeforeExit, ResultsStay, ToldOfResults, ResultsArrive, ResultsFetched,
     ToldToExit, Ending, Waits
<1> DEFINE Continued(tasks) ==
      /\ run'.task \in tasks /\ SameRun /\ run'.verdict = "none"
<1>7. CASE purpose \in {"contact", "monitor"}
  <2>1. /\ Continued({"contact", "giveup", "monitor", "fetch", "rollback"})
        /\ run'.task = "fetch" => request.answer = "results"
        /\ run'.task = "rollback" => run'.told = "error"
    <3>1. CASE Contacted \/ NotContacted
      BY <1>0, <1>3, <3>1 DEF Contacted, NotContacted, GoTo, Run, SameRun
    <3>2. CASE MonitorAnswered
      <4>1. PICK reply \in Status \union {"failure"} :
              /\ Client!Finish("monitor", reply)
              /\ run' = [run EXCEPT
                   !.task = CASE reply = "error"   -> "rollback"
                              [] reply = "results" -> "fetch"
                              [] OTHER              -> "monitor",
                   !.told = IF reply = "failure" THEN @ ELSE reply]
        BY <3>2 DEF MonitorAnswered
      <4>2. SameRun /\ run'.verdict = run.verdict
        BY <1>0, <4>1 DEF Run, SameRun
      <4>3. /\ run'.task \in {"rollback", "fetch", "monitor"}
            /\ run'.task = "fetch" => reply = "results"
            /\ run'.task = "rollback" => run'.told = "error"
        <5>1. CASE reply = "error"
          BY <1>0, <4>1, <5>1 DEF Run
        <5>2. CASE reply = "results"
          BY <1>0, <4>1, <5>2 DEF Run
        <5>3. CASE reply \notin {"error", "results"}
          BY <1>0, <4>1, <5>3 DEF Run
        <5> QED
          BY <5>1, <5>2, <5>3
      <4>4. request.answer = reply
        BY <4>1 DEF Client!Finish
      <4> QED
        BY <1>3, <4>2, <4>3, <4>4
    <3> QED
      BY <1>1, <1>7, <3>1, <3>2
  <2> QED
    BY <1>2, <1>3, <1>4, <1>5, <1>6, <1>7, <2>1 DEF CInv, NotStoppedYet, BeforeExit, ResultsStay, ToldOfResults,
       ResultsArrive, ResultsFetched, ToldToExit, Ending, RollbackKeepsResults, Waits, ExitSent,
       SameRun
<1>8. CASE purpose = "results"
  <2>1. PICK reply \in {"ok", "failure"} :
          /\ Client!Finish("results", reply)
          /\ run' = [run EXCEPT !.task = "exit", !.got = (reply = "ok")]
    BY <1>1, <1>8 DEF ResultsAnswered
  <2>2. /\ Continued({"exit"}) /\ (reply = "ok" => run'.got)
        /\ request.answer = reply
    BY <1>0, <1>3, <2>1 DEF Run, SameRun, Client!Finish
  <2> QED
    BY <1>2, <1>3, <1>4, <1>5, <1>6, <1>8, <2>2 DEF CInv, NotStoppedYet, BeforeExit, ResultsStay, ToldOfResults,
       ResultsArrive, ResultsFetched, ToldToExit, Ending, RollbackKeepsResults, Waits, ExitSent,
       LetGo, Earlier, SameRun
<1>9. CASE purpose = "exit"
  <2>1. Continued({"download", "cleanup"}) /\ run'.got = run.got
    BY <1>0, <1>1, <1>3, <1>9 DEF ExitAnswered, GoTo, Run, SameRun
  <2> QED
    BY <1>2, <1>3, <1>4, <1>5, <1>6, <1>9, <2>1 DEF CInv, NotStoppedYet, BeforeExit, ResultsStay, ToldOfResults,
       ResultsArrive, ResultsFetched, ToldToExit, Ending, RollbackKeepsResults, Waits, ExitSent,
       LetGo, Earlier, SameRun
<1> QED
  BY <1>7, <1>8, <1>9

(* The form: a request is aborted only by a user who lets go of the run    *)
(* (Kill, and the deletion, which is one of a disconnected run).           *)
LEMMA CForm ==
  ASSUME Settled, run'.task = run.task, run'.number = run.number,
         run'.told = run.told, run'.got = run.got, run'.verdict = run.verdict,
         run.kill => run'.kill, run.disconnect => run'.disconnect,
         UNCHANGED request \/ (Client!Lost /\ LetGo'),
         DownloadPending' => DownloadPending,
         UNCHANGED <<job, stopping>>
  PROVE  CInv'
<1>1. /\ Client!isBusy' => Client!isBusy /\ request'.for = request.for
      /\ Client!isBusy' /\ request'.answer = "results" => request.answer = "results"
      /\ ExitSent' => ExitSent
      /\ UNCHANGED request \/ LetGo'
  <2>1. CASE UNCHANGED request
    BY <2>1 DEF Client!isBusy, ExitSent, Waits
  <2>2. CASE Client!Lost /\ LetGo'
    <3>1. Client!isBusy /\ request \in Client!Request
      BY <2>2, BusyRequest DEF Client!Lost, Settled, OInv, TypeOK
    <3>2. request'.for = request.for /\ request'.phase = "answered" /\ request'.answer = "failure"
      BY <2>2, <3>1 DEF Client!Lost, Client!Request
    <3> QED
      BY <2>2, <3>1, <3>2 DEF ExitSent
  <2> QED
    BY <2>1, <2>2
<1>2. LetGo => LetGo'
  BY DEF LetGo
<1>3. \A purposes : Waits(purposes)' => Waits(purposes)
  BY <1>1 DEF Waits
<1>4. NotStoppedYet' /\ ResultsStay'
  BY <1>1, <1>3 DEF Settled, CInv, NotStoppedYet, BeforeExit, ResultsStay, ToldOfResults
<1>5. (Ending' => Ending) /\ (Earlier' <=> Earlier)
  BY DEF Ending, Earlier
<1>6. ResultsArrive' /\ ResultsFetched'
  BY <1>1, <1>2, <1>3, <1>5 DEF Settled, CInv, ResultsArrive, ResultsFetched
<1>7. ToldToExit' /\ RollbackKeepsResults'
  BY <1>1, <1>2, <1>3, <1>5 DEF Settled, CInv, ToldToExit, RollbackKeepsResults
<1> QED
  BY <1>4, <1>6, <1>7 DEF CInv

LEMMA CReset ==
  ASSUME Settled, ResetAction, DownloadPending' => DownloadPending,
         UNCHANGED <<job, stopping>>
  PROVE  CInv'
<1>1. /\ run'.task = run.task /\ run'.number = run.number /\ run'.told = run.told
      /\ run'.got = run.got /\ run'.verdict = run.verdict /\ run'.kill = run.kill
      /\ run'.disconnect
  BY DEF ResetAction, Settled, OInv, TypeOK, Run
<1>2. UNCHANGED request \/ (Client!Lost /\ LetGo')
  BY <1>1 DEF ResetAction, Client!Abort, LetGo
<1> QED
  BY <1>1, <1>2, CForm

LEMMA CSlots ==
  ASSUME Settled, Slots
  PROVE  CInv'
<1>0. run \in Run
  BY DEF Settled, OInv, TypeOK
<1>1. ASSUME NEW event, Slot(event)
      PROVE  (DownloadPending' => DownloadPending) /\ UNCHANGED <<job, stopping>>
  BY <1>1, TakenPending DEF Slot, Settled
<1>2. ASSUME UNCHANGED <<run, request, job, stopping>>, DownloadPending' => DownloadPending
      PROVE  CInv'
  BY <1>2, CForm
<1>3. CASE Deleted
  BY <1>2, <1>3 DEF Deleted, DownloadPending
<1>4. CASE OnResultReady \/ OnAnalysisEnded
  BY <1>1, <1>2, <1>4, CReset DEF OnResultReady, OnAnalysisEnded
<1>5. CASE OnDownloaded
  <2>1. CASE GoTo("cleanup") /\ UNCHANGED <<form, request>>
    <3>1. /\ run'.task = "cleanup" /\ SameRun
          /\ run'.got = run.got /\ run'.verdict = run.verdict
          /\ UNCHANGED <<request, job, stopping>>
      BY <1>0, <1>1, <1>5, <2>1, GoToRun DEF OnDownloaded, Task, SameRun
    <3>2. DownloadPending /\ ~DownloadPending'
      BY <1>5, TakenPending DEF OnDownloaded, Settled
    <3>3. ~Client!isBusy /\ run.number # 0
      BY <2>1, <3>2 DEF Settled, OInv, OnePlace, ChainWaits, Knows, KnowsRequest,
         DownloadPending, Fresh
    <3>4. Ending
      BY <3>2 DEF Ending
    <3>5. (run.got \/ run.disconnect \/ Earlier) /\ (stopping \/ LetGo)
      BY <3>4 DEF Settled, CInv, ResultsFetched, ToldToExit
    <3>6. ~Client!isBusy'
      BY <3>1, <3>3 DEF Client!isBusy
    <3> QED
      BY <3>1, <3>3, <3>5, <3>6 DEF CInv, NotStoppedYet, BeforeExit, ResultsStay,
         ToldOfResults, ResultsArrive, ResultsFetched, ToldToExit, Ending,
         RollbackKeepsResults, Waits, ExitSent, LetGo, Earlier, SameRun
  <2> QED
    BY <1>1, <1>2, <1>5, <2>1 DEF OnDownloaded
<1> QED
  BY <1>3, <1>4, <1>5 DEF Slots

LEMMA CUser ==
  ASSUME Settled, User
  PROVE  CInv'
<1>0. run \in Run /\ run.number \in Nat /\ events \in Seq(Event)
  BY ConstantsAssumption DEF Settled, OInv, TypeOK, Run
<1>1. CASE OnRunAnalysis \/ ResumeRemoteRun
  <2>1. /\ run'.task \in {"setup", "monitor"} /\ run'.number \in Nat
        /\ run'.number # 0 /\ run'.verdict = "none" /\ run'.told = "nothing"
        /\ run'.number = 1 => run.number = 0
        /\ events = <<>> /\ UNCHANGED <<job, stopping, request, events>>
    BY <1>0, <1>1 DEF OnRunAnalysis, InitialiseWorkspace, ResumeRemoteRun, NoRun, NewRun
  <2>2. ~Client!isBusy /\ ~Client!isBusy'
    BY <1>1, <2>1 DEF OnRunAnalysis, ResumeRemoteRun, NoRun, Settled, OInv, IdleIsQuiet,
       Quiet, Client!isBusy
  <2>3. Len(events) = 0 /\ Len(events') = 0
    BY <2>1
  <2>4. ~DownloadPending'
    BY <2>3 DEF DownloadPending
  <2>5. run.number = 0 => ~stopping
    BY DEF Settled, CInv, NotStoppedYet
  <2> QED
    BY <2>1, <2>2, <2>4, <2>5 DEF CInv, NotStoppedYet, ResultsStay, ToldOfResults,
       ResultsArrive, ResultsFetched, ToldToExit, Ending, RollbackKeepsResults, Waits,
       ExitSent
<1>2. CASE OnCancel
  <2>1. /\ run'.task = run.task /\ run'.number = run.number /\ run'.told = run.told
        /\ run'.got = run.got /\ run'.verdict = run.verdict /\ run'.kill
        /\ run'.disconnect = run.disconnect
        /\ UNCHANGED <<job, stopping>>
    BY <1>0, <1>2 DEF OnCancel, Run
  <2>2. DownloadPending' => DownloadPending
    BY <1>0, <1>2, AppendedEvent DEF OnCancel, Event, DownloadPending
  <2>3. UNCHANGED request \/ (Client!Lost /\ LetGo')
    BY <1>2, <2>1 DEF OnCancel, Client!Abort, LetGo
  <2> QED
    BY <2>1, <2>2, <2>3, CForm
<1>3. CASE Disconnect
  BY <1>3, CReset DEF Disconnect, DownloadPending
<1> QED
  BY <1>1, <1>2, <1>3 DEF User

(* The last steps of the chain. *)
LEMMA CEnd ==
  ASSUME Settled, Download \/ DownloadFails \/ CleanupRemote \/ EmitFailed
  PROVE  CInv'
<1>0. /\ run \in Run /\ events \in Seq(Event) /\ run.task # "none"
  BY DEF Settled, OInv, TypeOK, Download, DownloadFails, CleanupRemote, EmitFailed
<1>1. /\ ~Client!isBusy /\ ~DownloadPending /\ run.verdict = "none" /\ run.number # 0
  BY <1>0, TaskAlone
<1>2. /\ run'.task \in {"none", run.task} /\ run'.got = run.got /\ SameRun
      /\ run'.verdict = "finished" => CleanupRemote
      /\ UNCHANGED <<job, stopping, request>>
  BY <1>0, <1>1 DEF Download, DownloadFails, CleanupRemote, EmitFailed, GoTo, Conclude,
     Run, SameRun
<1>3. run.task \in {"download", "cleanup", "rollback"}
  BY DEF Download, DownloadFails, CleanupRemote, EmitFailed
<1>4. ~Client!isBusy'
  BY <1>1, <1>2 DEF Client!isBusy
<1>5. NotStoppedYet' /\ ResultsStay' /\ ResultsArrive'
  BY <1>1, <1>2, <1>3, <1>4 DEF NotStoppedYet, BeforeExit, ResultsStay, ToldOfResults,
     ResultsArrive, Waits, ExitSent, SameRun
<1>6. CASE EmitFailed
  <2>1. /\ run'.task = "none" /\ run'.verdict = "failed" /\ events' \in Seq(Event)
        /\ Len(events') = Len(events) + 1 /\ events'[Len(events')] = "failed"
        /\ \A i \in 1 .. Len(events) : events'[i] = events[i]
    BY <1>0, <1>6, ConcludeRun DEF EmitFailed
  <2>2. ~DownloadPending'
    BY <1>0, <1>1, <2>1 DEF DownloadPending
  <2> QED
    BY <1>4, <1>5, <2>1, <2>2 DEF CInv, ResultsFetched, ToldToExit, Ending,
       RollbackKeepsResults, Waits
<1>7. CASE Download \/ DownloadFails \/ CleanupRemote
  <2>1. run.task \in {"download", "cleanup"}
    BY <1>7 DEF Download, DownloadFails, CleanupRemote
  <2>2. (run.got \/ run.disconnect \/ Earlier) /\ (stopping \/ LetGo)
    BY <2>1 DEF Settled, CInv, ResultsFetched, ToldToExit, Ending
  <2> QED
    BY <1>2, <1>4, <1>5, <2>1, <2>2 DEF CInv, ResultsFetched, ToldToExit,
       RollbackKeepsResults, Waits, LetGo, Earlier, SameRun
<1> QED
  BY <1>6, <1>7

(* The server's answers ... *)
LEMMA CServe ==
  ASSUME Settled, ServeRequest
  PROVE  CInv'
<1>0. request.for \in {"contact", "monitor", "results", "exit"}
  BY BusyRequest DEF ServeRequest, Settled, OInv, TypeOK, Client!isBusy, Client!Request,
     Client!Purpose, Knows, KnowsRequest
<1>1. Client!isBusy /\ request \in Client!Request
  BY BusyRequest DEF ServeRequest, Settled, OInv, TypeOK, Client!isBusy
<1>2. /\ UNCHANGED <<run, events, job>> /\ (stopping => stopping')
      /\ request.for # "exit" => UNCHANGED stopping
      /\ request.for = "exit" => stopping'
  BY <1>0 DEF ServeRequest, Server!RequestStop, serverVars
<1>3. PICK answer : /\ Client!Answered(answer)
                    /\ answer = "results" => job = "results"
                    /\ request.for = "results" /\ job = "results" => answer = "ok"
  <2>1. CASE request.for \in {"contact", "monitor"}
    BY <2>1 DEF ServeRequest
  <2>2. CASE request.for = "results"
    <3>1. CASE job = "results"
      <4>1. Client!Answered("ok")
        BY <2>2, <3>1 DEF ServeRequest
      <4> QED
        BY <4>1
    <3>2. CASE job # "results"
      <4>1. Client!Answered("failure")
        BY <2>2, <3>2 DEF ServeRequest
      <4> QED
        BY <3>2, <4>1
    <3> QED
      BY <3>1, <3>2
  <2>3. CASE request.for = "exit"
    <3>1. Client!Answered("ok")
      BY <2>3 DEF ServeRequest
    <3> QED
      BY <2>3, <3>1
  <2> QED
    BY <1>0, <2>1, <2>2, <2>3
<1>4. request'.for = request.for /\ request'.phase = "answered" /\ request'.answer = answer
  BY <1>1, <1>3 DEF Client!Answered, Client!Request
<1>5. ChainWaits
  BY <1>0, <1>1 DEF ChainWaits
<1>6. run.task = "none" /\ run.verdict = "none" /\ ~DownloadPending /\ run.number # 0
  BY <1>5 DEF Settled, OInv, OnePlace, Over, IdleIsQuiet, Quiet, ChainWaits, Fresh
<1>7. ~DownloadPending'
  BY <1>2, <1>6 DEF DownloadPending
<1>8. /\ request.for \in {"contact", "monitor", "results"} /\ run.number = 1 => ~stopping
      /\ request.for = "results" => stopping \/ job = "results"
      /\ request.for = "exit" => run.got \/ run.disconnect \/ Earlier
  BY <1>1 DEF Settled, CInv, NotStoppedYet, BeforeExit, ResultsStay, ToldOfResults,
     ResultsFetched, Waits
<1>9. run.number \in Nat
  BY ConstantsAssumption DEF Settled, OInv, TypeOK, Run
<1>10. stopping /\ request.for = "results" => Earlier
  BY <1>6, <1>8, <1>9 DEF Earlier
<1> QED
  BY <1>0, <1>1, <1>2, <1>3, <1>4, <1>6, <1>7, <1>8, <1>9, <1>10 DEF CInv, NotStoppedYet,
     BeforeExit, ResultsStay, ToldOfResults, ResultsArrive, ResultsFetched, ToldToExit,
     Ending, RollbackKeepsResults, Waits, ExitSent, LetGo, Earlier

(* ... and the lack of them: only a server that was told to exit refuses a *)
(* request of a run it has told of results.                                *)
LEMMA COutside ==
  ASSUME Settled, Network \/ Environment \/ ServerStep
  PROVE  CInv'
<1>1. CASE ConnectionRefused
  <2>1. /\ Client!Lost /\ UNCHANGED <<job, stopping, run, events>>
        /\ job \notin Server!Answering
    BY <1>1 DEF ConnectionRefused
  <2>2. Client!isBusy /\ request \in Client!Request
    BY <2>1, BusyRequest DEF Client!Lost, Settled, OInv, TypeOK
  <2>3. request'.for = request.for /\ request'.phase = "answered" /\ request'.answer = "failure"
    BY <2>1, <2>2 DEF Client!Lost, Client!Request
  <2>4. ChainWaits
    BY <2>2 DEF ChainWaits, Settled, Knows, KnowsRequest
  <2>5. run.task = "none" /\ run.verdict = "none" /\ ~DownloadPending /\ run.number # 0
    BY <2>4 DEF Settled, OInv, OnePlace, Over, IdleIsQuiet, Quiet, ChainWaits, Fresh
  <2>6. ~DownloadPending'
    BY <2>1, <2>5 DEF DownloadPending
  <2>7. request.phase = "sent"
    BY <1>1 DEF ConnectionRefused
  <2>8. request.for \in {"results", "exit"} => stopping
    BY <2>1, <2>2, <2>7 DEF Settled, CInv, ResultsStay, ToldOfResults, Waits, ExitSent,
       Server!Answering
  <2>9. run.number \in Nat
    BY ConstantsAssumption DEF Settled, OInv, TypeOK, Run
  <2>10. request.for = "results" => Earlier
    BY <2>2, <2>5, <2>8, <2>9 DEF Earlier, Settled, CInv, NotStoppedYet, BeforeExit, Waits
  <2>11. /\ request.for = "exit" => run.got \/ run.disconnect \/ Earlier
         /\ request.for \in {"contact", "monitor", "results"} /\ run.number = 1 => ~stopping
    BY <2>2 DEF Settled, CInv, ResultsFetched, NotStoppedYet, BeforeExit, Waits
  <2> QED
    BY <2>1, <2>3, <2>5, <2>6, <2>8, <2>10, <2>11 DEF CInv, NotStoppedYet, BeforeExit,
       ResultsStay, ToldOfResults, ResultsArrive, ResultsFetched, ToldToExit, Ending,
       RollbackKeepsResults, Waits, ExitSent, LetGo, Earlier
<1>2. CASE ServerProgress
  <2>1. /\ UNCHANGED <<request, run, events, stopping>>
        /\ job = "results" => job' = "results" \/ stopping
    BY <1>2 DEF ServerProgress, Server!Accept, Server!Announce, Server!End
  <2> QED
    BY <2>1 DEF Settled, CInv, NotStoppedYet, BeforeExit, ResultsStay, ToldOfResults,
       ResultsArrive, ResultsFetched, ToldToExit, Ending, RollbackKeepsResults, Waits,
       ExitSent, LetGo, Earlier, DownloadPending, Client!isBusy
<1>3. ~NetworkFault /\ ~ServerCrash
  BY DEF NetworkFault, ServerCrash, Settled, Undisturbed
<1>4. ~WriteNowFaults
  BY DEF WriteNowFaults, Settled, Knows, KnowsRequest, Client!isBusy
<1> QED
  BY <1>1, <1>2, <1>3, <1>4, CServe DEF Network, Environment, ServerStep

LEMMA CNext ==
  ASSUME Settled, [Next]_vars
  PROVE  CInv'
<1>1. CASE Chain
  BY <1>1, CTask, CAsk, CAnswer, CEnd DEF Chain
<1>2. CASE Buttons
  <2>1. WriteNowAnswered
    BY <1>2 DEF Buttons, OnWnow, Settled, Undisturbed
  <2>2. Client!isBusy /\ request.for = "wnow"
    BY <2>1, FinishRequest DEF WriteNowAnswered
  <2> QED
    BY <2>2 DEF Settled, Knows, KnowsRequest
<1>3. CASE UNCHANGED vars
  BY <1>3, CForm DEF vars, DownloadPending
<1> QED
  BY <1>1, <1>2, <1>3, CSlots, CUser, COutside DEF Next

(* The knowledge of the chain and its results, as one invariant. *)
Honest == Undisturbed => Settled

LEMMA HonestInit == Init => Honest
BY InvInit, FreshInit, KnowsInit, CInit DEF Honest, Settled

LEMMA HonestNext ==
  ASSUME OInv, Honest, [Next]_vars
  PROVE  Honest'
<1>1. Undisturbed' => Undisturbed
  BY OptionStays DEF Undisturbed
<1>2. ASSUME Settled, Undisturbed PROVE OInv' /\ Fresh' /\ Knows' /\ CInv'
  BY <1>2, InvNext, FreshNext, KnowsNext, CNext DEF Settled, Undisturbed
<1> QED
  BY <1>1, <1>2 DEF Honest, Settled

LEMMA HonestAlways == Spec => []Honest
BY HonestInit, HonestNext, Invariance, PTL DEF Spec

(* "finished" is emitted only by a run that has fetched the results and    *)
(* had the server told to exit, unless the user let go of it on the way.   *)
THEOREM FinishedComplete == Spec => []FinishedIsComplete
<1>1. Honest => FinishedIsComplete
  BY DEF Honest, Settled, CInv, ResultsFetched, ToldToExit, Ending, LetGo, Earlier,
     FinishedIsComplete
<1> QED
  BY <1>1, HonestAlways, PTL

(* A server that has announced results is not stopped before they were     *)
(* received, by any of the runs it serves.                                 *)
THEOREM ResultsComeFirst == Spec => ResultsBeforeStop
<1> DEFINE First == stopping' /\ ~stopping /\ run.told = "results" /\ Undisturbed
                      => run.got \/ run.kill \/ run.disconnect
<1>1. OInv /\ Honest /\ [Next]_vars => [First]_vars
  <2> SUFFICES ASSUME Settled, Next, stopping', ~stopping, run.told = "results"
               PROVE  run.got \/ run.kill \/ run.disconnect
    BY DEF Honest, vars
  <2>1. CASE PerformUndo
    BY <2>1 DEF PerformUndo, Settled, CInv, RollbackKeepsResults, LetGo, Earlier
  <2>2. CASE CleanupRemote
    BY <2>2 DEF CleanupRemote
  <2>3. CASE ServeRequest /\ request.for = "exit"
    BY <2>3 DEF ServeRequest, Settled, CInv, ResultsFetched, Waits, Client!isBusy, Earlier
  <2> QED
    BY <2>1, <2>2, <2>3, Stoppers DEF Settled
<1> QED
  BY <1>1, HonestAlways, Invariance, PTL DEF Spec, ResultsBeforeStop
-----------------------------------------------------------------------------
(* A verdict in the queue of the form is that of the run. *)
QueuedVerdict ==
  \A i \in 1 .. Len(events) : events[i] = "finished" => run.verdict = "finished"

LEMMA QueuedInit == Init => QueuedVerdict
<1>1. Init => Len(events) = 0
  BY DEF Init
<1> QED
  BY <1>1 DEF QueuedVerdict

(* The steps of the chain that have no verdict to give. *)
LEMMA VerdictStays ==
  ASSUME run \in Run, Chain, ~CleanupRemote, ~EmitFailed
  PROVE  run'.verdict = run.verdict
<1>1. ASSUME NEW task, GoTo(task) PROVE run'.verdict = run.verdict
  BY <1>1 DEF GoTo, Run
<1>2. CASE \/ SetupRemoteEnvironment \/ LaunchRemoteExecutionServer \/ NotContacted
           \/ MonitorAnswered \/ ResultsAnswered \/ PerformUndo
  BY <1>2 DEF SetupRemoteEnvironment, LaunchRemoteExecutionServer, NotContacted,
     MonitorAnswered, ResultsAnswered, PerformUndo, Run
<1>3. CASE DownloadFails
  BY <1>3 DEF DownloadFails
<1> QED
  BY <1>1, <1>2, <1>3 DEF Chain, Cancelled, CancelledTask, RemoteCommandFails, ClientBusy,
     Disconnected, UploadInputFile, WaitForContact, Contacted, GiveUp, Monitor,
     FetchResults, StopRemoteExecutionServer, ExitAnswered, Download, Ask

LEMMA QueuedNext ==
  ASSUME OInv, QueuedVerdict, [Next]_vars
  PROVE  QueuedVerdict'
<1>0. run \in Run /\ events \in Seq(Event)
  BY DEF OInv, TypeOK
<1>1. CASE CleanupRemote \/ EmitFailed
  <2>1. PICK verdict \in {"finished", "failed"} : Conclude(verdict)
    BY <1>1 DEF CleanupRemote, EmitFailed
  <2>2. /\ run'.verdict = verdict
        /\ Len(events') = Len(events) + 1 /\ events'[Len(events')] = verdict
        /\ \A i \in 1 .. Len(events) : events'[i] = events[i]
    BY <1>0, <2>1, ConcludeRun
  <2>3. run.verdict = "none"
    BY <1>1 DEF CleanupRemote, EmitFailed, OInv, Over
  <2>4. \A i \in 1 .. Len(events) : events[i] # "finished"
    BY <2>3 DEF QueuedVerdict
  <2> QED
    BY <1>0, <2>2, <2>4 DEF QueuedVerdict
<1>2. ASSUME NEW event \in Event \ {"finished"}, Emit(event), run'.verdict = run.verdict
      PROVE  QueuedVerdict'
  BY <1>0, <1>2, AppendedEvent DEF QueuedVerdict
<1>3. ASSUME UNCHANGED events, run'.verdict = run.verdict
      PROVE  QueuedVerdict'
  BY <1>3 DEF QueuedVerdict
<1>4. CASE Chain /\ ~CleanupRemote /\ ~EmitFailed
  <2>1. run'.verdict = run.verdict
    BY <1>0, <1>4, VerdictStays
  <2>2. CASE Download
    BY <1>2, <2>1, <2>2 DEF Download, Event
  <2>3. CASE ~Download
    BY <1>3, <1>4, <2>1, <2>3 DEF Chain, Cancelled, CancelledTask, RemoteCommandFails,
       ClientBusy, Disconnected, SetupRemoteEnvironment, UploadInputFile,
       LaunchRemoteExecutionServer, WaitForContact, Contacted, NotContacted, GiveUp,
       Monitor, MonitorAnswered, FetchResults, ResultsAnswered,
       StopRemoteExecutionServer, ExitAnswered, DownloadFails, PerformUndo, Ask
  <2> QED
    BY <2>2, <2>3
<1>5. CASE Slots
  <2>1. run'.verdict = run.verdict
    BY <1>0, <1>5 DEF Slots, Deleted, OnResultReady, OnAnalysisEnded, OnDownloaded,
       ResetAction, GoTo, Run
  <2>2. ASSUME NEW event, Slot(event) PROVE QueuedVerdict'
    <3>1. /\ Len(events') = Len(events) - 1 /\ Len(events) \in Nat
          /\ \A i \in 1 .. Len(events') : events'[i] = events[i + 1]
      BY <1>0, <2>2, TakenEvent
    <3>2. \A i \in 1 .. Len(events') : i + 1 \in 1 .. Len(events)
      BY <3>1
    <3> QED
      BY <2>1, <3>1, <3>2 DEF QueuedVerdict
  <2> QED
    BY <1>3, <1>5, <2>1, <2>2 DEF Slots, Deleted, OnResultReady, OnAnalysisEnded,
       OnDownloaded
<1>6. CASE OnRunAnalysis \/ ResumeRemoteRun
  <2>1. Len(events') = 0
    BY <1>6 DEF OnRunAnalysis, ResumeRemoteRun, NoRun
  <2> QED
    BY <2>1 DEF QueuedVerdict
<1>7. CASE OnCancel \/ Disconnect
  <2>1. run'.verdict = run.verdict
    BY <1>0, <1>7 DEF OnCancel, Disconnect, ResetAction, Run
  <2> QED
    BY <1>2, <1>3, <1>7, <2>1 DEF OnCancel, Disconnect, Event
<1>8. CASE Buttons \/ Network \/ Environment \/ ServerStep \/ UNCHANGED vars
  BY <1>3, <1>8 DEF Buttons, WriteNowAnswered, OnWnow, Network, ServeRequest,
     ConnectionRefused, Environment, WriteNowFaults, NetworkFault, ServerCrash,
     ServerStep, ServerProgress, vars
<1> QED
  BY <1>1, <1>4, <1>5, <1>6, <1>7, <1>8 DEF Next, User

(* A slot that comes too late is one of a run the user had deleted: with   *)
(* its verdict queued, or before there was one.                            *)
THEOREM SlotsFindRun == Spec => FormFindsRun
<1> DEFINE Finds == form' = "crashed" /\ form # "crashed" =>
                      run.verdict = "none" \/ Head(events) = run.verdict
<1>1. OInv /\ QueuedVerdict /\ [Next]_vars => [Finds]_vars
  <2> SUFFICES ASSUME OInv, QueuedVerdict, Next, form' = "crashed", form # "crashed"
               PROVE  run.verdict = "none" \/ Head(events) = run.verdict
    BY DEF vars
  <2>1. CASE DownloadFails
    BY <2>1 DEF DownloadFails, OInv, Over
  <2>2. CASE OnResultReady
    <3>1. events \in Seq(Event) /\ Slot("finished")
      BY <2>2 DEF OnResultReady, OInv, TypeOK
    <3>2. Len(events) > 0 /\ events[1] = "finished" /\ Head(events) = "finished"
      BY <3>1, TakenEvent DEF Slot
    <3>3. Len(events) \in Nat
      BY <3>1
    <3> QED
      BY <3>2, <3>3 DEF QueuedVerdict
  <2>3. CASE OnDownloaded
    BY <2>3, TakenPending DEF OnDownloaded, OInv, Over
  <2>4. form' = form \/ form' \in {"idle", "running", "deleting"}
         \/ DownloadFails \/ OnResultReady \/ OnDownloaded
    <3>1. CASE Chain
      BY <3>1 DEF Chain, Cancelled, CancelledTask, RemoteCommandFails, ClientBusy,
         Disconnected, SetupRemoteEnvironment, UploadInputFile,
         LaunchRemoteExecutionServer, WaitForContact, Contacted, NotContacted, GiveUp,
         Monitor, MonitorAnswered, FetchResults, ResultsAnswered,
         StopRemoteExecutionServer, ExitAnswered, Download, CleanupRemote, PerformUndo,
         EmitFailed, Ask
    <3>2. CASE Slots \/ Buttons \/ User
      BY <3>2 DEF Slots, Deleted, OnAnalysisEnded, ResetAction, Buttons, WriteNowAnswered,
         OnWnow, User, OnRunAnalysis, ResumeRemoteRun, OnCancel, Disconnect
    <3>3. CASE Network \/ Environment \/ ServerStep
      BY <3>3 DEF Network, ServeRequest, ConnectionRefused, Environment, WriteNowFaults,
         NetworkFault, ServerCrash, ServerStep, ServerProgress
    <3> QED
      BY <3>1, <3>2, <3>3 DEF Next
  <2> QED
    BY <2>1, <2>2, <2>3, <2>4
<1>2. OInv /\ QueuedVerdict /\ [Next]_vars => QueuedVerdict'
  BY QueuedNext
<1> QED
  BY <1>1, <1>2, QueuedInit, Invariance, PTL DEF Spec, FormFindsRun
=============================================================================
